# AXTP C runtime: a verification project

TLA+ models of the AXTP C runtime, TLC configurations that check them on small
instances, and theorems that TLAPS proves for every value of the constants.
Paths are relative to the repository; `file.c:n` is a line of `src/file.c`.

## 1. The system

The runtime is a single-threaded C library. Nothing in it starts a thread,
sleeps or keeps time: an application calls it, and it calls back. Beside it are
the tools that make and release it: a generator that turns the sources of a
protocol into its definition, tables and documents, scripts that keep the
versions of files together, and workflows that merge, tag and release. They run
as processes of their own, on files that people and other runs change
meanwhile, and may stop anywhere. What makes the runtime
hard is that its calls are not atomic (they run handlers, sinks and
`send_bytes`, each of which may enter the library again or let bytes in), that
every queue and table has a fixed capacity (16, 32 handlers) and its own way to
refuse, and that a poll returns at the first refusal with the rest of its work
undone.

| component | state | operations | talks to | what is hard |
|---|---|---|---|---|
| payload model, `model.c` | none | init, copy, set body, free | everybody | what survives a copy |
| core, `core.c` | events, responses, pending ids, outbound frames, message id | on_bytes, poll_event, expect, send request/response, take response, pop outbound | codec | four tables that fill separately; ids that are never answered |
| broker, `broker.c` | tasks, results, handler table, stream handler | register raw/JSON/stream, submit, submit_stream, poll, poll_result | handlers (callbacks) | handlers that call back in the middle of a batch; results dropped silently |
| endpoint, `endpoint.c` | a core, a broker, a transport | attach, poll, send request, take response | core, broker, transport | three loops with early returns, and a flush that loses one frame and keeps the rest |
| SDK, `sdk.c` | next request id; broker and endpoint | send_json, poll, take response, on_json | endpoint, broker | ids that are used up by failed sends and come round again |
| transports, `transport.c`, `testing_mock_transport.c` | outgoing frames, a sink | bind, open, close, send_bytes, inject, pop | the user | refusals, loss and repetition on the way |
| stream registry, `stream.c` | 16 contexts, counters | register, close, handle chunk, queries | sink (callbacks) | the sink runs in the middle of a close; sequence numbers wrap |
| media profile, `media_profile.c` | a registry, two id counters, statistics | four handlers, a stream handler, install | broker, registry, sink | late chunks, lost answers, id ranges that meet, names cut to a buffer |
| codec and bytes, `codec.c`, `io.c` | none | encode and decode frames and payloads; CRC | core | lengths, CRC, frames that come together or in pieces |
| registry headers, `include/generated` | constants | lookups | broker, SDK | agreement with the generator |
| generator, `devtools/generators` | source files, models | load, validate, emit, check | files | reference and range rules, partial writes |
| version scripts and workflows, `devtools/scripts`, `.github/workflows` | lock, VERSION, manifest, headers, branches, tags | upgrade, set, check, release | git, files | files written one after another; reruns |
| conformance runner, `devtools/conformance` | case states | run, report | runtime | what counts as a pass |

What makes each component correct:

- core, broker, endpoint: queues keep their bounds; a request is answered at
  most once and never before an older one; what is lost is lost only for want
  of room, or because the transport failed; a call that returns OK has done its
  work; every call returns; the pending table follows the requests.
- SDK: a response answers the request whose id it is taken with.
- stream registry: one context per id; a close erases its own context; the
  counters say what was received.
- media profile: one stream per source; a chunk is counted only for the stream
  it was sent to; a close that is confirmed has closed.
- codec: what one side encodes the other decodes; part of a frame is not a
  frame.
- generator: an accepted protocol can be dispatched and resolved; no rule of one
  stage contradicts another; where an entry stands makes no difference; a
  refused command changes nothing and a successful one is complete, of one
  state of the sources.
- emitted method registry: its two maps agree, and answer as the table does.
- version scripts: what a check accepts belongs together and to its tag, and
  running the generator again repairs what a failure left.
- workflows: main keeps its versions together, a release is what its tag says
  and stays so, every version is tagged in the end, and a tag is released unless
  its own push went unheard.

`PROJECT.json` lists the hazards, each at its line, with the properties that
would show it going wrong.

## 2. The modules

| module | models | how |
|---|---|---|
| `AxtpModel` | payloads, bounded queues | a payload keeps what decides where it goes; a body is `fits` or `oversize`; `ticket` is a history field |
| `AxtpCore` | `core.c` | one operator per function over the variables that it assigns, and `...Status` for what it returns |
| `AxtpBroker` | `broker.c` | the same; a turn of the poll loop is `BeginTask` (pop, find) and `EndTask` (the handler returned), with everything a handler may call in between; `BrokerSpec` runs the broker alone |
| `AxtpEndpoint` | `endpoint.c` over both | one step per turn of each loop; `pc` says which loop a call has reached, `resume` which handler a nested send returns to |
| `OrderedAnswers` | what a peer may rely on | the abstract service: a request is taken in or turned away, then answered in order or dropped |
| `AxtpSession` | `sdk.c`'s client, transports and bridge, and a server | the client is its core with the flush as one step (nothing calls back during it); the server is what `OrderedAnswers` promises |
| `StreamRegistry` | `stream.c` | `BeginClose` and `EndClose` are the two halves of a close, `closing` the stack of those whose sink is running |
| `StreamUse` | a registry with a sink that calls back | the sink may do anything, closing again the stream that it is told of included; adds the history that the counters are compared with |
| `FrameCodec` | `codec.c` and the byte order of `io.c` | a buffer is the sequence of its bytes; each encoder is a function, each decoder a predicate (what it accepts) and a function (what it returns); the checksum is a parameter |
| `FrameChecksum` | the CRC of `io.c` | bit by bit as in the code, and by long division |
| `MediaHost` | `media_profile.c` over a registry and the broker's two queues | requests are reduced to the decisions that the handlers make of their JSON |
| `SpecFiles` | `loader.ts`, `sourceLoader.ts` | a tree of core and domain files to one specification; a missing file is `None`, one that cannot be parsed `Broken` |
| `SpecRules` | `validator.ts`, `domainRegistry.ts` | one predicate per rule of the registry; `ValidSpec` is their conjunction |
| `ProtocolRules` | `protocolBuilder.ts`, `protocolValidator.ts`, `protocolDocsValidator.ts` | the builder as a function, then one predicate per rule of the protocol and of its documents; rules that the code has in two copies are two definitions |
| `Registry` | people who edit those files | one action per kind of edit; what the generator makes of the tree are the functions above |
| `ProtocolPages` | `emitters/protocolMarkdown.ts` | the page as chapters in order, without layout |
| `Generator` | `cli.ts`, `emitters/index.ts`, `util.ts` | a command as steps: load, check, write the definition, write artifacts in parallel; the sources have a number and a quality |
| `MethodNames`, `MethodRegistry` | the `MethodRegistry` of `emitters/ts.ts` and `dart.ts` | two maps, which implement a set of pairs |
| `VersionFiles` | `axtp-versioning.mjs`, `generate-axtp-artifacts.sh` | a generation run and a check as steps over headers, manifest and constant files |
| `ReleaseFlow` | `.github/workflows` | dispatch, pull request, merge, push, tag, release; of a commit what the checks compare |
| `ConformanceRun` | `conformance_runner.c` | a file is the sequence of its lines; which cases a profile selects, which of them are valid, the report and the exit as functions |

`MC*.tla` and `MC*.cfg` instantiate them for TLC; `*Proofs.tla` hold the
theorems. Definitions marked *Mutant* are plausible bugs, each in place of the
definition that follows it: the property named with it in `PROJECT.json` fails
under the mutant, which shows that the property depends on that line of code.

Composition: `AxtpEndpoint` extends `AxtpCore` and `AxtpBroker` and conjoins
their operators into its actions. `AxtpSession` uses the same core, and the
endpoint by its abstraction; that frames which arrive together are one frame
rests on `FrameCodec`. `MediaHost` extends `StreamRegistry`. `ProtocolPages`
extends `Registry`, which extends `SpecFiles`, `ProtocolRules` and `SpecRules`:
the rules, the loaders and the edits are one state machine. `Generator` has the
verdict of those rules as a `quality`, and `ReleaseFlow` the checks of
`VersionFiles` as `Fits`. `MethodRegistry` refines `MethodNames`; its tables
are made from registries as `SpecRules` accepts them.

### How code and model correspond

- A call that runs user code is split at that point; a call that does not is
  one action. Bytes arrive between calls, while a handler runs, and while
  `send_bytes` runs (a loopback transport may answer at once).
- A status is a string named as in the code without its prefix. A refused call
  is an action too: what it leaves changed is the point.
- `ticket` numbers a request when it arrives (or, in the session, when it is
  sent) and is copied as the code copies the payload. No guard reads it, except
  the bounds on arrivals and sends.
- Frames that do not decode, events and other operations that the core ignores
  change nothing: they are stuttering steps.
- A file is what it was made from: a version of the sources, a record of
  fields, `None` when it is missing, `Torn` when a write stopped in it.
- A generator run reads its inputs and writes its files one at a time, as the
  scripts do; artifacts that the code writes with `Promise.all` are written in
  any order. A load is one step, because it is not followed by a decision
  before it is over.
- Sequence numbers, message ids, request ids and stream ids wrap at constants
  (`SeqLimit`, `MaxMessageId`, `MaxRequestId`, `IdLimit`), which are 2^32 or
  2^16 in the code.

## 3. What TLC checks

| run | instance | shows |
|---|---|---|
| `endpoint_server` | queues of 2, one handler entry, batches of 2, 4 requests, fair polls | types; requests never overtake each other (`TicketOrder`); the endpoint implements `OrderedAnswers`; nothing is lost within capacity; every call returns; every request that was taken in leaves |
| `endpoint_client` | queues of 2, 2 own ids, 1 inbound request | the pending table shrinks only with a response, by one; a call that returns OK has flushed, when an endpoint asks and answers at once |
| `broker` | queues of 1, 2 handler entries, 3 methods of which 1 is unknown | one handler per method; a served method stays served |
| `session` | queues of 2, 3 ids, 5 sends, 1 repeated frame, frames that arrive together | the pending table accounts for every send; a waiting response answers the last send with its id, or is a whole round of ids older and its id was in use when it came round. The assumptions of `MCFrames` are evaluated here: the checksum is the remainder, payloads come back, of two frames the first is taken, a flipped bit is refused |
| `streams` | 2 contexts, 3 valid ids and 0, sequences modulo 3, 3 chunks, closes nested twice, of the same stream too | unique ids; the context of a close stays its own unless its stream is closed again; exact counters |
| `media_host` | 2 contexts, id 2 for video, 3 and 4 for audio, wrapping at 5, queues of 2, 3 opens, 1 chunk | one stream per source; chunks reach their stream; only busy sources are refused; closed when told so |
| `registry` | a contract of two domain files with every kind of reference, two edits of any kind | dispatch by byte and bit is unambiguous; references resolve; building keeps what was checked; the documents' copies of rules agree with the protocol's; neither verdict nor page depends on where an entry stands |
| `generator` | every command, twice; one edit at any time; one failure or kill | refused commands change nothing; success is complete; only what was accepted is written; the definition is not behind its documents |
| `method_registry` | 4 ids and names, tables of up to 3 rows, any additions | the maps agree, answer as the table does, and implement a set of pairs. The assumptions of `MCConformance` are evaluated here, over manifests of four lines and of two levels: a case counts with the strongest requirement of its levels, success means that nothing required is listed, a step refers to an earlier one |
| `versions` | two edits, one failure, four runs with a time of their own, checks at any moment | accepted constants are aligned; a release and its notes are of their tag; reruns settle on the sources |
| `releases` | 2 specifications, revision 1, 2 workflows, 1 other commit, 1 mishap, with and without a token of the workflows' own | main stays consistent; releases are what they say and stay so; what is on main is tagged, and what is tagged is released unless its push went unheard |
| `releases_revision` | 1 specification, revisions up to 2, 3 workflows, no mishap | *violated*: a revision gets a number that is tagged already (section 5) |

### Why the bounds are enough

A queue of two is the least that has an order, a middle and an end, and every
refusal of a full queue occurs: four requests (`MaxArrivals`) are more than a
queue holds, and spread over five queues. In the broker alone a queue of one
suffices, because its order is checked in the endpoint. A handler table of one
(endpoint) or two with three methods (broker) is filled, refused and rebound.
A batch of two (`PollBatch`) ends both by its count and by an empty queue. Two
contexts make `find_context` choose and the registry run full; closes nested
twice (`MaxNested`) let a sink reuse a context while two others are being
closed. Sequences modulo three tell "next", "same" and "elsewhere" apart, and
three chunks (`MaxHeard`) wrap them. The id ranges of the media host are so short
that within `MaxOpens` a video stream is given an id that an audio stream has or
gets, and that audio ids wrap, while two audio ids in a row leave room for a
chunk that comes late; in the code that takes 4096 and nearly 2^32 opens. In the session three ids
(`MaxRequestId`) with five sends (`MaxSends`) come round, and one repeated
frame (`MaxCopies`) gives a response that nobody awaits.

A registry rule relates at most two entries, so two edits (`MaxEdits`) of an
accepted tree reach every way to break one and every pair that two rules must
catch together; `IntSize` is 131072 in place of 2^32, more than any id of
sixteen bits. Two commands (`MaxCommands`) let the second find what the first
left. Three rows are the least with two neighbours of one. In `versions` two
edits (`MaxEdits`) and one failure (`MaxFailures`) put files of three runs on
disk, and one-digit version parts keep "is part of" true where it matters
(0.3.1 in 0.3.1.2). Two workflows (`MaxStarts`) are enough to prepare one pull
request while another is merged; with one commit of other work (`MaxWork`) and
one mishap (`MaxMishaps`) all of them meet.

No run uses symmetry: ids and requests are numbers whose order the properties
read. Deadlock is checked in the runs of the C runtime, and in `versions`, where
something can always go on. `registry`, `generator`, `method_registry` and the
two `releases` runs stop when edits, commands or workflows run out, and do not
check it.

Every module with a state states its type invariant, `TypeOK` (`BrokerTypeOK`
and `CoreTypeOK` for the parts of an endpoint, `VersionTypeOK`). The runs list
those of the endpoint and of the broker, whose bounds are what is at stake; all
of them are proved (section 4).

### Fairness

`endpoint_server` assumes (`FairSpec`) that the application polls again and
again (`WF StartPoll`) and that a call which has begun goes on (`WF PollStep`,
`WF FlushStep`): each of its steps is the next thing that the only thread does,
if handlers and `send_bytes` return. Nothing is assumed of arrivals,
registrations, streams or the outcome of `send_bytes`.

`versions` assumes (`LiveSpec`) that a generation run goes on unless it fails
(`WF RunStep`), and that people run the generator again after an edit or a
failure (`WF StartRun`), as README.md tells them to. `releases` assumes that
the push events which are not lost start their run, that runs go on unless they
fail, and that people start the tagging workflow by hand while a tag is missing
(`WF Recover`), which the workflow has a trigger for
(`auto-release-on-merge.yml:7`, `:63`). A push of a tag starts its release only
when the workflows have a token of their own (`Tokens`) or a person pushed it,
and is lost otherwise; so is the merge of an upgrade, at no cost in mishaps.
Nothing makes good a release that is lost or fails: `release.yml:3` has no other
trigger, and the tagging workflow does nothing once the tag is there. Nothing is
assumed of dispatches, merges or commits.

Requests may be *dropped*, so `RequestsLeave` says that nothing is stuck, not
that everything is answered. In particular a broker whose task queue is full
makes a poll return before it runs a task (`endpoint.c:98`), at the price of
one event per poll; events end, and then the poll comes to the tasks.

## 4. What is proved

All theorems on a specification are of the form "specification implies
property" and hold for all constants that satisfy the modules' named
assumptions: any capacity above zero, any ids, methods, names and ranges, any
specification files, commands and directories, and any bound. Of the 40
properties that the passing runs check, 34 are theorems.

| module | theorems | argument |
|---|---|---|
| `DataProofs` | `RpcComesBack`, `FrameComesBack`, `CutFrameIsRefused`, and the lemmas on bounded queues and on counting | not temporal. Appending, taking the head and removing an element keep a bounded queue, and change the number of occurrences of an element by one or not at all. Lemmas on `\div` and `%` put a word together from its bytes, lemmas on `\o` and `SubSeq` say which byte stands where, and the decoders' reads follow. The checksum is any operator with values of sixteen bits (`ChecksumIsWord`); that the code's is one, and is the CRC, TLC evaluates on small buffers |
| `AxtpEndpointProofs` | `BrokerTypeCorrect`, `OneEntryPerMethod`, `ServedStaysServed` | `HandlersUnique` is inductive by itself. `ServedMeansAnswered` needs `ServedInv`: a task or call whose ticket says that it was served has a handler now, and registration never takes one away |
| | `TypeCorrect`, `FlushedWhenOk`, `PendingAnswered` | types; `FlushInv` adds what `pc` implies (at `flush` after a poll no result is left and no handler runs); that an id leaves the pending table only for one response is read off each step, with the lemmas on counting |
| | `OrderKept`, `Implementation`, `WithinCapacity` | `OrderInv` is types and `TicketOrder`, which is inductive: each step moves a ticket from the head of a queue to the tail of the next. With it a sent ticket is the least in flight, which makes `SendFrame` an `Answer`, and every other loss a `Drop` |
| `AxtpSessionProofs` | `SessionTypeCorrect`, `PendingAccounted` | `SessionInv`: types, and that only responses travel to the client. For each id, pending entries are on one side and what is due for it (requests and responses in any buffer, or lost) on the other; every step changes both by the same amount (`BalancedStep`), and a flush divides its frames, however many they are, into those that are sent, one that is lost and those that wait (`FlushStep`) |
| | `OwnAnswers` | `OwnInv`: the sends with one id are whole rounds of ids apart (`NextUse`), and every frame in every buffer and table has the ticket of the last send with its id, unless the id was in use when it was last given. The property speaks of waiting responses alone, which says nothing of what arrives next |
| `StreamProofs` | `StreamsUnique`, `ContextKept` | `RegistryInv`: types, unique ids and `ContextStaysItsOwn`. Each needs the other: a context that is being closed stays active, so nobody is given it; and a call that returns erases the context of another call only if that one is for the same stream, which is then closed again (`ErasedElsewhere`) |
| | `CountersAreExact` | `AccountInv`: types, and that the gaps and duplicates in what each open stream has heard are a finite set, whose size the counter shows beyond what closed streams have settled; a chunk adds one element to it or none |
| | `MediaTypeCorrect`, `SourcesApart`, `ChunksApart`, `IdsNeverInTheWay`, `ClosedForGood` | `StreamsInv`: the registry's invariant, at most one close, unique names that are stored as they are compared. `RangeInv`: while the ranges are apart, ids in use, in queues and known to the producer lie below the counter of their kind, and carry the number of the latest stream with that id |
| `MethodRegistryProofs` | `RegistryTypeCorrect`, `RegistryMapsAgree`, `DefaultsAnswerRight`, `RegistryImplementsNames` | `RegistryInv`: types, `MapsAgree`, and that until something is added the maps are the rows read so far. `MapsAgree` makes an addition remove exactly the pairs with its id or its name, which is the step of `MethodNames` |
| `RegistryProofs` | `TreesStayListed`, `AcceptedDispatchIsUnambiguous`, `AcceptedReferencesResolve`, `BuildingLosesNothing`, `DocumentsRepeatTheRules` | the only invariant is the shape of the files (`TypeOK`); the rest are implications between rules: the checks of a registry imply what the property says of the protocol built from it. `NoConflictAppears` is the core of them: when each domain's ranges and bytes agree with its entries, regrouping entries by the byte of their id cannot put two domains under one byte. The two copies of the rules for stream headers, control opcodes and method masks, which differ in what they test, are compared one by one (`HeaderCopy`, `ControlCopy`, `MasksCopy`) |
| `GeneratorProofs` | `GeneratorTypeCorrect` | `TypeInv`: types, and which files the running command has still to write (`CommandInv`); paths are sequences, and no definition lies below a directory of test vectors |
| | `RefusalsChangeNothing`, `SuccessesAreComplete`, `AcceptedIsWritten`, `DefinitionsFirst` | `RefusedInv`: up to the last check the disk is as the command found it. `SuccessInv`: what is not to do any more is done, from the loaded state (`Progress`), the definition before everything else. `AcceptedInv`: the loaded model is accepted from the moment that a check lets it pass. `NewestInv`: what a command has loaded is not newer than the definition that it reads or has written |
| `ReleaseProofs` | `ReleaseTypeCorrect`, `MainConsistent`, `ReleasesRight` | `ConsistencyInv`: the head of every open pull request is consistent too, and a merge without conflict gives one of the two commits that it merges (`SquashFits`). `ReleasedFit`: what is released is the commit of its tag, and fits it; tags that are set and commits that are made never change (`History`) |
| | `VersionTypeCorrect`, `NotesTellTheRelease` | `FileInv` and `CheckInv`: which file a run writes follows from how much of its list is left, and what a check has read is what stands there while nothing has disturbed it |
| | `ConstantsAlignedWhenRunsAreToldApart`, `ReleaseIsOfItsTagWhenRunsAreToldApart` | `SheetInv`: every manifest and constants file, on disk or read by a check, was filled in by a run, and of two with one stamp all fields agree (`OneSheetPerRun`). Then what a check compares by stamp agrees in every field, though the files may be of different runs |

Assumptions that matter to the theorems:

- The media profile cuts a source to a buffer that is as long as the registry's
  (`media_profile.c:206` and `AXTP_STREAM_SOURCE_CAPACITY`, 128 both).
- `RegistriesAssumption`: no id and no name is twice in a table, which is what
  the generator's check is for; section 5 has a case that slips through it.
- `BaseAssumption`: files start with lists where the loaders read lists, and
  people add entries, not other values.
- `GeneratorAssumption`: a path is a file or a directory, and nobody has test
  vectors written over the protocol definitions. `ReleaseAssumption` and
  `VersionAssumption` say that bounds are numbers, stamps are texts and the
  runtime is one that the scripts know.
- The two theorems that end in `WhenRunsAreToldApart` have the hypothesis
  `StampsTellRunsApart`: from a stamp one can tell the run that wrote it. The
  code stamps with the time of the run. `MCVersionFiles` evaluates that the
  stamps of the run `versions` are of that kind and that pinned ones are not;
  `MCVersionsPinned.cfg` shows that the hypothesis is needed.

What proving has changed: two properties had been stated for more than the code
does, in states that no run reaches.

- `ReferencesResolve` is about the fields of object schemas: the IR's check
  does not look at the fields of another kind (`protocolValidator.ts:145`).
- `PlaceDoesNotMatter` is about errors whose code is not negative.
  `normalizeId` takes any integer (`util.ts:5`), a negative code passes for a
  low one (`protocolValidator.ts:187`), and its byte may be that of a domain, so
  that the first error of the byte decides about the category of all.

Only model-checked: liveness under fairness (`CallsReturn`, `RequestsLeave`,
`SettlesOnSources`, `ReleasedUnlessUnheard`), which TLAPS does not prove;
`PageIsCanonical`, because the page is sorted and filtered with recursive
operators of the standard modules that no backend expands; and
`PlaceDoesNotMatter`, which needs a theory of permutations of lists that is not
written yet (section 7). The rules of the registry are stated without such
operators, so that they can be proved about. Induction on the length of a list
is done with `LeastNatural`: of the numbers with a property that some number
has, one is the least. That a damaged frame is refused and what the conformance
runner reports are assumptions of `MCFrames` and `MCConformance`, which TLC
evaluates.

## 5. What the models say about the code

Two statements of the repository do not hold, the first in the run
`releases_revision`, the second in `MCReleasesToken.cfg`:

- `release-runtime-revision.yml:110` promises that after the merge of a revision
  the tag of its version is created and the release checks run. When a
  specification is dispatched again, the upgrade workflow sets `VERSION` back to
  revision 0 (`upgrade-axtp-spec.yml:100`); the next revision is counted from
  `VERSION` alone (`prepare-runtime-revision.sh:92`) and may be one that is
  tagged. The tagging run finds the tag and ends with success, and the merged
  revision is never released.
- README.md:170 says that the main branch workflow creates the tag, "and that tag
  triggers the GitHub Release". The tag is pushed with
  `AXTP_RUNTIME_AUTOMATION_TOKEN || github.token` (`auto-release-on-merge.yml:20`).
  Where the secret is not set, which README.md:127 asks for only because of
  checks on pull requests, GitHub starts no workflow for that push,
  `release.yml:3` has no other trigger, and the tagging workflow does nothing once
  the tag is there: `EveryTagIsReleased` fails without any failure.

Another, of which only the exit code is stated by an assumption of
`MCConformance`: README.md:104 says that optional cases are reported as skipped
or passed. The runner executes no case yet, and reports one that is still
pending as failed (`conformance_runner.c:245`), optional ones too
(`ConformanceRun!Status`). The exit code does not depend on them unless
`CONFORMANCE_STRICT_OPTIONAL` is set, as the README says.

Everything else that is checked holds. These are consequences of the code that
a user may not expect; no document of the repository says otherwise:

- A pending id is freed only by a response. Sixteen requests whose request or
  response is lost (`PendingAccountsForSends`), and the client refuses every
  further send: there is no timeout and no way to give one up.
- A send that returns an error may still go out: its frame may wait behind the
  one that the transport refused. Its id is used up, so that the answer cannot
  be taken for another's (`AnswersAreOwn`), until the ids come round while it is
  still under way or untaken; nothing looks for that.
- A sink that closes, within `on_stream_closed`, the very stream that it is told
  of, and then opens another, loses that other one: it is given the context that
  the inner call has freed, and the outer one erases it (`stream.c:147`) without
  telling anybody (`CloseErasesOnlyItsOwn`, `MCStreamUseAgain.cfg`). The inner
  call also overwrites the information that the outer one passed to the sink
  (`last_closed`, `stream.c:138`).
- A frame that the transport refuses is lost. A response that cannot be queued
  ends the poll before it flushes, and is lost too.
- After 4096 video opens, refused ones included, the video ids are audio ids:
  that chunks reach their stream and that only busy sources are refused holds
  while the ranges are `Apart`, and fails in the instance of the run `media_host`
  when that condition is taken away. One stream per source, and that a confirmed
  close has closed, hold all the same.
- Of frames that arrive in one call of the sink only the first is decoded
  (`codec.c:88`); the core does not look behind it. A transport over a stream of
  bytes has to cut them apart.
- With a pinned `AXTP_GENERATED_AT` a check may accept constants of two runs: it
  looks for a value with `includes`, and 0.3.1 is part of 0.3.1.2
  (`axtp-versioning.mjs:379`). Run `MCVersionsPinned.cfg` to see
  `ConstantsAreAligned` fail.
- The byte of an id is taken with `>>`, which works on 32 bits: an id that is
  too large by 2^32 is accepted for what is left of it (`validator.ts:122`,
  `IdsOutsideTheRangesAreRejected` in `MCRegistryGaps.cfg`).
- The check for duplicates takes an empty name for "not seen"
  (`if (existing)`, `validator.ts:10`): an entry that has the id of an entry
  with an empty name before it passes (`DuplicateMethodIdsAreRejected` in
  `MCRegistryGaps.cfg`).
- Types that only capabilities or other types refer to are neither inline nor
  additional on the Markdown page, so that their fields are shown nowhere
  (`protocolMarkdown.ts:238`, `EverySchemaIsShown` in `MCRegistryGaps.cfg`): 28 of the 246 types of the
  protocol in the repository. Its table of implemented domains has only those
  with methods.
- The conformance runner takes what any section of the manifest lists behind a
  `required_cases` (`conformance_runner.c:167`), and a case whose YAML is broken
  fails the run only if the case is required.
- `emit-protocol` reads `contract/protocol` before `protocol`
  (`protocolLoader.ts:340`), whatever it was asked to emit
  (`MCGeneratorEmit.cfg`).
- A late dispatch of an older specification takes main back to it; and a
  revision may be the first release of a specification, when revision 0 was
  merged but never tagged.

## 6. What is not modelled

- Allocation failures, null arguments, and the lengths and ownership of
  buffers: the models have no memory.
- The copy of a closed stream's information that its sink is given
  (`last_closed`); no decision reads it.
- Polls and attaches from within handlers, and brokers shared by endpoints. The
  SDK does neither.
- A sink of the media profile that calls the registry: `StreamUse` covers the
  registry under such sinks, `MediaHost` does not repeat it.
- The server's wrappers in `sdk.c`, which forward to endpoint and broker, and
  the close of a mock transport.
- JSON: scanning and writing of bodies in the media profile and the SDK.
- The emitted C++, the names of constants, the layout of tables and pages, and
  the error codes and texts of the generator.
- The command `diff` of the generator, which is a placeholder, and resolving
  paths against `INIT_CWD`. An edit between two files of one load.
- Sections of a specification that no rule reads.
- Tags and releases that people delete or move, and releases that they make or
  start again by hand.
- Build files of other ecosystems that the version scripts edit; git itself,
  and what builds and tests do beyond succeeding or failing.
- The conformance runner's scanning of YAML, its result file (that it cannot be
  written), and the script that builds and calls it.

## 7. Plan

Done, in this order: core and broker; the endpoint with its abstraction; the
stream registry; the media host; their proofs; the client session; version
files; the rules and loaders of the generator, its commands and its pages; the
emitted method registry with its proofs; the releases; the codec with its
proofs; the verdict of the conformance runner; the proofs on pending ids, the
session, the counters of streams, the version files, the releases, the
generator and the rules of the registry.

Left, most important first:

1. `PlaceDoesNotMatter` as a theorem: renaming a file or moving an entry
   permutes every list that the loaders make; a rule is a statement about the
   members of a list and about pairs of its places, which a permutation keeps;
   of the builder only the category of an error depends on order, and there all
   candidates are equal when codes are not negative.
2. `MediaInstall`: installing the four methods and the stream handler against a
   handler table that runs full.
3. Names of the emitted constants: when two names of a protocol become one
   identifier.

## 8. Running it

    tlc -workers 2 -config MCEndpointServer.cfg MCAxtpEndpoint.tla
    tlapm AxtpEndpointProofs.tla

The configurations `MCVersionsPinned`, `MCRegistryGaps`, `MCGeneratorEmit`,
`MCStreamUseAgain` and `MCReleasesToken` are not among the runs: each ends with
the counterexample that section 5 describes. `MCRegistryGaps` has three; with
`-continue` TLC shows them all.
