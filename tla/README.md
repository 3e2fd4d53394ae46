# pipepp-core: a TLA+ verification project

pipepp-core is a header-only C++20 library of message pipelines for embedded
use: a *source* is polled for messages, each message goes through a fixed table
of *stages*, and what passes them all is given to a *sink*. There is no heap in
the pipeline itself, everything lives in fixed-capacity storage, and the only
lock is a spinlock. The headers are in `src/include/pipepp/core/`; file names
below are relative to that directory.

This directory holds the TLA+ modules that model the library, the TLC
configurations that check them on small instances, and proofs that TLAPS checks
for every value of the constants. `PROJECT.json` maps every definition that
models code to the lines it stands for, and lists the runs, the properties, a
mutant for each property, the hazards and the theorems.

1. [The system](#1-the-system)
2. [The modules](#2-the-modules)
3. [The runs](#3-the-runs)
4. [Fairness and deadlock](#4-fairness-and-deadlock)
5. [What is proved](#5-what-is-proved)
6. [Where documents and code disagree](#6-where-documents-and-code-disagree)
7. [What is not modelled](#7-what-is-not-modelled)
8. [Plan](#8-plan)

## 1. The system

### Components

| Component | Files | State | Operations | Module |
|---|---|---|---|---|
| spinlock | `spinlock.hpp` | one atomic flag | `lock`, `try_lock`, `unlock`, guard | Spinlock |
| pipeline | `pipeline.hpp` | source, stage slots and count, sink, subscriptions, config ops, URI, `running_`, `stage_lock_`, `pending_error_` | builder calls, `run`, `stop`, `poll_once`, `emit`, moves | Pipeline, Ownership |
| stages | `stages.hpp`, `small_function.hpp` | three function pointers beside raw storage | construct, move, assign, call, reset | Pipeline, Ownership |
| any_source | `any_source.hpp` | a vtable pointer beside raw storage | the same, and forwarding of the source's calls | Ownership |
| builder operators | `pipeline_ops.hpp` | none: they move a pipeline in and out | `operator\|`, `execute` | Pipeline, Ownership |
| pipeline factory | `pipeline_factory.hpp` | none: a caller's buffer | `create`, `create_uri`, `destroy` | Ownership |
| connected pipelines | `connect_to.hpp` | a sink's pointer to its target | forward, prefix, remap | PipelineNet |
| source registry | `source_registry.hpp` | entries and an atomic count | `register_scheme`, `create`, `has_scheme` | SourceRegistry |
| URI | `uri.hpp` | a text and a view into it | `parse`, `parse_or_default` | Uri |
| range source, sink buffer | `adapt.hpp`, `as_range.hpp` | a position; a bounded array | `connect`, `poll`; `push`, `clear` | RangePipeline |
| message, fixed string | `message.hpp`, `fixed_string.hpp` | bounded buffers | `from_view`; constructors, `checked_from`, `from_or_truncate`, comparisons | Message, FixedString; "fits" or "does not fit" in Pipeline |
| expected, error codes | `expected.hpp`, `error_code.hpp` | a flag beside a union | construct, copy, move, assign, destroy | Expected; as results of the calls in Pipeline |
| concepts, configuration | `concepts.hpp`, `config.hpp`, `message_callback.hpp` | none | | as constants and the source's interface |

### How they interact

The application's *owner* thread builds a pipeline with builder calls or with
`operator|`, each of which moves it, and calls `run()`. `run()` connects the
source, applies the config ops, makes the subscriptions, raises `running_`,
installs a callback that captures `this`, and polls the source until `running_`
goes down or the connection is lost. The source hands out a message by calling
that callback, which is `emit()`. Any other thread may call `emit()`, `stop()`
and `poll_once()` on the same pipeline. `emit()` takes the spinlock,
`process_message()` copies the message, calls the stages in order until one
returns false, calls the sink, and the guard gives the lock back. A sink may
`emit()` into another pipeline while its own pipeline's lock is held. The library
brings one source of its own, a range that is handed out in a single poll, and
one thing for a sink to fill, a bounded buffer.

### What is hard about it

* *Threads.* `emit()`, `poll_once()`, `stop()` and the event loop overlap, and
  the flags `running_` and `is_connected()` are read before the call they guard.
  `add_stage()` and `set_sink()` take no lock at all.
* *Locks held across user code.* The spinlock is held while stages and the sink
  run, and, over connected pipelines, while further locks are taken.
* *Errors half way.* `run()` can fail after the source is connected; a builder
  call can fail after it has taken a table entry; nothing is thrown, and only
  `pending_error_` remembers. The three calls of `disconnect()` in `run()` may fail
  too, and nobody looks at what they return.
* *Capacities.* Every table has an end, and every text may be too long.
* *Lifetimes by hand.* Type-erased boxes construct, move and destroy objects in
  raw storage behind pointers that nothing checks, and pipelines are moved on
  every `operator|`. Views and callbacks point into what was moved.
* *A growing table without a lock.* The registry publishes its entries with one
  atomic count.

### What makes each component correct

* spinlock: one holder at a time; the flag is up exactly while somebody holds
  the lock; somebody always gets in.
* pipeline: `emit()` is a synchronous service, with at most one delivery per
  call and each thread's order kept; messages go through the stages one at a
  time; the event loop runs only with all that was asked for in force; no way
  out of `run()` goes round the cleaning up; after a stop at most one poll per thread still
  begins; `run()` and `emit()` return.
* boxes and moves: pointers tell what the storage holds; each object has one
  owner or was destroyed; a move brings the whole pipeline; an event loop polls
  a source whose callback leads to its own pipeline.
* connected pipelines: no circular wait; the network as a whole is again the
  same synchronous service; the prefixes put on since application code last wrote
  a topic are complete and in order.
* registry: a search sees whole entries only; the first registration of a scheme
  wins and what was found is found again.
* range source and sink buffer: a run hands out the whole range, in order and from
  the start, or nothing if it was told so, and returns by itself; the buffer keeps
  what came first.
* URI: the parts make the text again, `userinfo@host:port` is read wherever it
  can be, and the choice of parser changes only what it should.
* fixed string, message: they read as what they were given, also from views into
  themselves; what a longer text left behind is never seen.
* expected: the flag tells which member lives, nothing is destroyed twice or
  leaked, and it stands for the result it was given.

The hazards, each at its line and with the properties that would catch it, are
in `PROJECT.json`.

## 2. The modules

```
Spinlock  <---- refines ----  Pipeline  ---- refines ---->  EmitService
   |                             |                              |   ^
SpinlockProofs              PipelineProofs        EmitServiceProofs  |
                                                                     |
      RangePipeline (extends)       PipelineNet  ---- refines -------+
                 |                       |
       RangePipelineProofs       PipelineNetProofs

Ownership -- OwnershipProofs        SourceRegistry -- SourceRegistryProofs
MCValues: Expected   FixedString   Message   Uri -- ValuesProofs
```

Definitions marked `Slip` in the modules are mutated forms of the definition
after them, a bug such code could plausibly have. No specification uses them;
each is there to show that some property notices it.

### Spinlock

`locked` is the atomic flag, `at` where each thread stands: outside, spinning in
`lock()`, or inside. Every access to the flag is a single instruction and a
single action: `Exchange` is one turn of `lock()`'s loop, `TryLock` the one
exchange of `try_lock()`, `Unlock` the store. Memory order is not modelled; the
acquire and release pair on the one flag gives what the interleaving assumes.

### EmitService

The abstract promise of `emit()`: `Call`, then at most one `Deliver` or a
`Drop`, then `Return`. It knows no lock, no stage and no source.

### Pipeline

One pipeline, its owner and any number of clients. An action is what a thread
does between two points at which another thread can see or change the pipeline:
one atomic access, one call into the source, one call of user code.

* *Builder.* `Subscribe`, `Configure`, `ConnectUri`, `AddStage`, `SetSink`, each
  with its error paths. Topics and URIs are names; the ones in `LongTopics` and
  `LongUris` do not fit. `subscribe()` of a topic that is too long leaves an
  empty entry behind, as the code does. A slot's assignment takes several steps
  (`SetStage`, `FillStage` and so on), because `small_function`'s move
  assignment sets the pointers before it moves the callable, and no lock is held. A
  sink that is replaced is destroyed first (`SetSink`, which leaves pointers to what
  is no longer there) and then has its pointers nulled (`ResetSink`).
* *run().* `RunConnects`, `ApplyConfig`, `SubscribeSource`, `Abort`, `Start`,
  `InstallCallback`, the loop's `LoopReadsRunning`, `LoopReadsConnected`,
  `LoopPollReturns`, then `ClearRunning` and `Disconnect`. The source is any
  type that meets the BusSource concept: `connect()`, `subscribe()`, a config op and
  `disconnect()` may each fail, `poll()` returns nothing that could, and
  `ConnectionLost` may happen at any moment. A `connect()` that fails changes
  nothing; a `disconnect()` that fails (`DisconnectSource`) leaves the connection as
  it is, and `run()` returns all the same.
* *Clients.* `Stop`, `PollOnce` in three steps, `Emit`.
* *emit().* `Acquire` is one turn of the spinlock; `FromViewFails`, `FromView`,
  `CallStage`, `StagePasses`, `StageDrops`, `CallSink`, `NoSink`, `SinkReturns`
  and `Release` are `process_message()` and the guard. `PollDelivers` is the
  source calling the callback from inside a poll, in whichever thread polls.

`want_*`, `sent`, `log`, `pass`, `refused`, `late` and `stop_asked` record what was
asked for and what happened. They influence no guard but `MaxEmits`.

`uri_view` says whether the stored view points into the pipeline's own text. It
is `own` after the constructor (the compiler elides the copy of the parsed URI,
which C++17 guarantees for the return value and every supported compiler does
for the named local in `parse`), and `gone` after `connect_uri()`.

A pipeline is moved by `Move`, and twice by every `operator|`: `CalledOrPiped` lets
each builder call be made by its name, which leaves the URI's view alone, or by the
operator, which leaves it pointing into the pipeline that was moved from. The tables
go along unchanged. A move needs that no thread is in a call, and the model has the
application move only before the source has a callback; what becomes of a callback
is Ownership's matter.

`LateConfig` says whether the owner also configures the pipeline while others
use it. The library's own comment forbids nothing, so both are checked.

### RangePipeline

Extends Pipeline: each action is one of Pipeline's in conjunction with what it does
to the range's position (`current`, `handing`) and to the buffer (`messages`,
`count`), so that whatever holds of every pipeline holds here. What is narrower than
Pipeline is the source. Its calls do not fail; its connection goes only at the end of
`poll()` (`EndDisconnects`) or by user code in the owner's thread
(`UserDisconnects`: a config op is given the source, a stage may reach it through
`source()`); and `poll()` is a loop of its own, `HandElement`, then `emit()` with all
its steps, then `NextElement`, that looks at nothing but the position. The sink calls
`push()` (`Push`), and the message may or may not fit the buffer's own Config.

A range has no lock, so the owner's loop is the only one to poll it. With a client's
`poll_once()` beside it both would advance `current_`, which may then pass `end_`.

`handed`, `cut` and `given` record what was handed out, whether user code
disconnected, and what the buffer was given.

### PipelineNet

Pipelines whose sinks emit into others. `path[t]` is the stack of `emit()`
calls thread `t` is in; it holds the lock of each but the last if it still waits
there. What the stages of one pipeline do between two locks is Pipeline's matter,
but for two things that the network sees: they drop the message (`Drop`) or let it
pass (`Pass`), and they may give it another topic. `process_message()` hands each
stage its own copy as a mutable `basic_message&`, and a stage may call `from_view()`
on it with any view that fits, into that message or not; `Rewriting` names the
pipelines with such a stage (`StageRewrites`). A remap callable makes another topic
too (`Remap`), and the emitter's own message stays what it was in both cases.

A topic is a sequence of parts, so that prefixes are visible and their length counts
against `MaxTopicLen`. `written` is the topic as application code last wrote it, in
emitting it, in a stage or in a remap, and `since` the first pipeline of the path to
put its prefix before that; the two are kept for `TopicTellsItsWay` and influence
nothing. `PrefixesOf` is what the way from there puts in front.  The assumption on
`Hops` says that no way along the targets leads back: `connect_to.hpp:49-53`
calls connecting a pipeline to itself undefined. It warns of nothing longer, but
a cycle through two pipelines deadlocks in the same way, and the assumption
excludes it too.

### SourceRegistry

A registration reads the count, fills the entry's scheme and then its factory,
and stores the count plus one; a search reads the count once and compares
entries one by one. `Stored` maps a scheme to what the fixed string of an entry
keeps of it. `Overlap` says whether two registrations may run at once; nothing
in the code protects that, and with `Overlap = TRUE` the property
`FoundStaysFound` is violated within eight states: both write the same entry.

### Uri

Both parsers as operators on sequences of characters, and `basic_uri::parse`,
which copies the text and places each part where the copy first reads like it.
The properties compare parts by their text, as `string_view` does.

### FixedString, Message, Expected

FixedString has the whole array with what earlier texts left in it, and `Copied` is
the loop that every constructor and assignment has, one character after the other,
because the view it reads may look into the string it writes. `text` is what the
string was given. Message has the two buffers, and the order in which `from_view()`
writes the one and reads for the other; a `memcpy` that overlaps may leave anything.
`WellUsed` says for which views into the message itself the result is determined:
keeping a part, cutting off its end, sending what is kept of the topic as the
payload. Taking the beginning off a topic in place is not among them.

Expected has the flag and the members of the union apart, and a member that does not
live is `Dead`. `Destroyed` and `Constructed` go by the flag alone, as the code does;
`misused` remembers a destructor that ran on a dead member or a constructor that ran
over a living one. A move is a copy followed by any write to the source
(`WriteMember`), which is all that C++ promises of an object that was moved from.

### Ownership

Places where pipelines live, with their boxes: `source_` (taken as an
`any_source`), `stages_` and `sink_`. A box has its pointers (`set`) and what is
in its storage (`obj`), and the two are kept apart: `Takes`, `GivesUp`, `Reset`
and `Assigns` do what the constructors and assignments do by the pointers alone,
and nothing in the model stops them from running a destructor on empty storage
or filling storage that is in use. `Assigned` is the assignment operator with the test
on the addresses that each box makes; `AssignToItself` goes through all boxes of a
pipeline by that test alone, although a pipeline assigned to itself would end at its
own test before. `Construct`, `AddStage`, `SetSink`, their
refusals, `MoveConstruct`, `MoveAssign`, `AssignToItself`, `PipeStage`,
`PipeRefused`, `PipeSink` and `Destroy` are the operations of a pipeline on all
of its boxes; `Run`, `InstallCallback` and `RunReturns` are the part of `run()`
that gives the source a pointer to the pipeline. `made`, `gone` and `built`
record what was handed in, destroyed, and asked for.

The model has applications treat moved-from pipelines as C++ programs do: they
are assigned to or destroyed. (One that was moved from keeps `stage_count_`
while its slots are empty, so `emit()` on it would call a null pointer.)

## 3. The runs

| Run | Module | Distinct states | Question |
|---|---|---|---|
| Spinlock | Spinlock | 112 | Does the lock exclude, for five threads? |
| PipelineSetup | MCPipeline | 1,124,000 | Is what was built what runs, on every error path? |
| PipelineThreads | MCPipeline | 2,275,000, up to symmetry | Are messages kept apart under concurrent emit, poll and stop? |
| PipelineRefines | MCPipeline | 410,000 | Is `emit()` the service its callers are promised, and do `run()` and `emit()` return? |
| RangePipeline | RangePipeline | 1,232,000 | Does a run go through its range, and the buffer keep what it can? |
| PipelineNet | MCPipelineNet | 418,000 | Do connected pipelines deadlock, or break the service? |
| SourceRegistry | MCSourceRegistry | 265,000 | Does a search ever see half an entry? |
| Values | MCValues | 301,000 | Do the types that hold values keep what they are given? |
| Ownership | MCOwnership | 22,000, up to symmetry | Does any move leak, double or mix up an object? |
| PipelineLostStop, PipelineLateConfig, PipelineUri | MCPipeline | | Violations, see section 6 |

**Spinlock.** `MutualExclusion`, `FlagMatchesOwner`, `SomebodyGetsIn`. The
interesting cases (two exchanges on a free lock, a failed `try_lock` under an
owner) need two or three threads; there are five. The proofs take any number.

**PipelineSetup.** The owner alone, and every builder call in every order until
one more than fits was made: two subscriptions, one config op, two stages, topics
and URIs that do and do not fit. `LoopRunsWhatWasAsked`: the loop is reached only
when each subscription, option and stage asked for is in force, in order.
`RunCleansUp`: no path out of `run()` leaves `running_` up, or leaves the source
connected without having asked it to disconnect; a source that refuses stays
connected, also over later runs that fail to connect. Two entries are
the fewest for which order and the end of a table both matter; `Excess = 1`
brings the refused call.

**PipelineThreads.** The owner runs a pipeline with up to two stages and a sink
while two clients emit one message each, poll and stop; clients are symmetric.
`OnePassAtATime`: while user code runs for a message, the calls since the lock
was taken are exactly that message's way through the stages. `SlotsAreReady`: no
thread ever calls a slot that is not assigned. Here the owner configures only while
no client is in a call (`LateConfig = FALSE`), so this is about the bounds of the loop
over the slots; the race is PipelineLateConfig's. `OneLatePoll`: once `running_` is
down a thread begins at most one more poll. It says nothing of polls after a loss of
connection; that the loop ends then is `RunEnds`.

**PipelineRefines.** Two messages from each of two threads, so that both a
thread's own order and the mixture of threads are visible. `SpinlockSpec`: the
pipeline uses its lock as Spinlock allows. `EmitServiceSpec`: it implements
EmitService; `ProgramOrder` follows and is checked as an invariant. Under fairness,
`RunEnds`: a loop that was told to stop or lost its connection returns from `run()`.
`EmitReturns`: every `emit()` returns, so no path through `process_message()` keeps
the lock.

**RangePipeline.** Two elements, a buffer of two, two runs of the owner (each sends
the range through `emit()`, so `MaxEmits` is four) and one client with one message.
Two elements tell the first from the last; two runs show whether the second starts
over; five messages overflow the buffer twice. `RunGoesThroughRange`: a run that came
through its loop has handed out every element in order, or none, and then because of
a `stop()` or `disconnect()` before its poll began; one in the middle of it cuts
nothing. `BufferKeepsFirst`: the buffer has the first messages that it can hold, in
the sink's order, with no gap for one that did not fit. `RunEndsByItself`: nobody has
to call `stop()`.

**PipelineNet.** Five pipelines: `a` prefixes into `b`, `c` remaps into `b`, `b`
prefixes into `d`, which is the application's, and `e` forwards into `d`. The one
in the middle, `b`, has a stage that rewrites topics (`Rewriting`), behind a prefix
as well as behind a remap. Two threads emit two messages each into any of them.
Chains of three, two ways into the same pipeline, and entry in the middle of a chain
are all there; a topic of two parts and two prefixes exceeds the limit of three, one of
one part does not.
`OneInEachPipe`: a pipeline works on one message at a time, also while its sink is
away in others. `NobodyWaitsInACircle`: no circular wait. The network is one without
cycles, as NetAssumption has it, so this is the side on which the code must not
deadlock. `TopicTellsItsWay`: a topic that reaches the application is what
application code last wrote, behind the prefixes of the pipelines left since, in order
and complete. `NetworkIsEmitService`, `EmitReturns`: as for one pipeline.

**SourceRegistry.** Two threads, three entries, four registrations, three schemes
of which one is cut to another. `FirstRegistrationWins`: a search calls the
factory first registered under the scheme, whole, and misses only if there was
none when it began. `FoundStaysFound`: what a scheme leads to never changes.
Registrations do not overlap here (`Overlap = FALSE`); with the race both fail. The
properties speak of schemes as they are stored: that a cut scheme is found by another
name is not their matter.

**Values.** Each type is explored by itself (`focus`) while the others stay as they
are. *Expected*: four objects, two of them `expected<void, E>`, and two values, so
that a value and an error can be assigned over each other and over themselves.
`FlagTellsMember`: exactly the flagged member lives and no constructor or destructor
was misused. `StandsForResult`: an object stands for the result it was given last.
*FixedString*: two strings of up to three characters, from texts of up to four and
from every part of themselves; three characters are the fewest of which two can be
moved up by one. `KeepsText`: a string reads as its text and ends behind it.
`OrderIsTotal`: `==` and `<` agree. *Message*: topics of up to three bytes, payloads
of two. `ShowsLastView`: a message shows what its last view read, and one that did
not fit changed nothing. *Uri*: every text of up to five characters over the delimiters and one letter,
alone and behind `a://`, and one text that is too long, through both parsers.
Five characters hold any three delimiters with text between them; each branch of
the parsers depends on the order of at most three. `PartsMakeTheText`: for plain
texts the RFC 3986 parser finds the split that the grammar allows.
`AuthorityIsRead`: an authority that can be read as userinfo, host and port is
read so, with bracketed hosts for the RFC parser. `ParsersAgree`: the parsers
differ only for brackets and for a query or fragment straight after the
authority.

**Ownership.** Three places, five callables, two stages, up to symmetry. Three
places give chains of moves and an assignment over a pipeline in use; five
callables fill a pipeline (source, two stages, sink) with one to spare for a
refused stage, a replaced sink or a second pipeline. `PointersTellTruth`,
`OneOwner`, `MovesKeepPipeline`, `PollsItsOwn`.

Named bounds: `MaxEmits` and `ClientEmits` (messages a thread sends), `Excess` (calls
beyond a table's end), `MaxRest` (the length of a URI behind its scheme), `MaxChar`
and `MaxByte` (the alphabets). All others are the
library's own capacities.

## 4. Fairness and deadlock

The only fairness assumed is weak: a thread that is inside a call goes on with
it. Stages, sinks, remap callables and the source's calls return, which the
library requires of them by running them under a spinlock. Nothing makes a
thread call anything, nothing makes a source hand out a message, a connection
need never be lost, and `stop()` need never be called: `RunEnds` speaks only of
loops that were told to stop or are disconnected. A range source is no exception but a
case of it: its `poll()` is the library's own loop (`PollStep`), so it does end.

Weak fairness of a spinning thread also says that a thread gets a lock that is
free for good. The spinlock has no queue, so under everlasting contention a
thread may starve; the model has finitely many messages (`MaxEmits`), after which
the lock is free. Without that bound only `SomebodyGetsIn` holds.

Deadlock checking is off in all runs but Spinlock's. In the others the system
really may stop: all messages have been sent and all calls have returned, the
table is full, the text is parsed, the callables are used up. That threads do not
stop by waiting for one another is stated as properties: `EmitReturns`,
`RunEnds`, `RunEndsByItself` and, as an invariant, `NobodyWaitsInACircle`.

## 5. What is proved

The proofs need no bound on threads, messages, pipelines, stages, places, callables,
registrations, elements of a range, or characters. They use the modules' own
assumptions on constants (`PipelineAssumption`, `RangeAssumption`, `NetAssumption`,
`RegistryAssumption`, `ExpectedAssumption`, `OwnershipAssumption`), which TLC
evaluates in the runs. Four theorems about Pipeline and the registry hold of an
application that keeps a rule the code leaves to it; they say so in their
statement (`LateConfig = FALSE`, `Overlap = FALSE`). Those about strings and messages
say that capacities are natural numbers and that characters are, too.

**SpinlockProofs.** `MutualExclusionHolds`, `FlagMatchesOwnerHolds`. Neither is
inductive alone: that no two threads are inside follows only because a raised
flag stops the second exchange, and that the flag is raised under an owner only
because there is no second one. The two together with the types are the
inductive invariant.

**EmitServiceProofs.** `ProgramOrderHolds`: the sink sees each thread's messages
in order and none twice.

**PipelineProofs.**

* `TypeCorrect`: no table is ever over its capacity. `TInv` adds that the stage a
  thread is at is one of those there are, and that whoever is in a call has sent a
  message.
* `RunCleansUpHolds`: the property says nothing of the states inside `run()`, so
  `RunFlags` ties `running_` and the connection to the owner's place: outside `run()`
  a connection is one whose `disconnect()` has failed.
* `LoopRunsWhatWasAskedHolds`: `AskedInv` says that, unless an error is pending,
  the tables hold what was asked; that the slots below the count are assigned but
  for one in the middle of `add_stage()`; and how far `run()` has handed them over
  at each of its steps.
* `PipelineUsesSpinlock` and `PipelineIsEmitService`: refinement, one step at a
  time. From these and the two modules above, `StagesAreExclusive` (no two threads
  in `process_message()`) and `ProgramOrderKept` follow without a further look at
  Pipeline's actions.
* `SlotsAreReadyWhenQuiet`: with `LateConfig = FALSE` nobody calls an unassigned
  slot. `QuietInv` says that while a builder call is under way nobody else is in a
  call. The assumption is needed: see PipelineLateConfig.
* `OneLatePollHolds`: `LatePolls` says that whoever has begun a poll since
  `running_` went down is no longer between its reading of the flag and its poll; it
  takes a new reading to begin another, and that finds the flag down.
* `OnePassAtATimeWhenQuiet`: `PassInv` tells, for each place inside
  `process_message()`, what has been called since the lock was taken: nothing, the
  stages below the current one, or all of them and the sink. That nobody else
  adds to it is `StagesAreExclusive`, and that the lock is up meanwhile
  (`LockedInside`) comes through the refinement from `FlagMatchesOwnerHolds`.
  `LateConfig = FALSE` is needed, because `add_stage()` in the middle of a pass makes
  the pass longer than what was called.

**RangePipelineProofs.**

* `RangeIsPipeline`: each action of RangePipeline is one of Pipeline's, so all the
  theorems above hold of a pipeline over a range.
* `RunGoesThroughRangeHolds`: `Position` says that what was handed out is always the
  beginning of the range up to `current_`; `BetweenPolls` that `run()` never looks at
  the source in the middle of it; `WhyItEnds` what must have happened when it
  leaves its loop: the range's end, a `stop()` or a disconnect by user code.
* `BufferKeepsFirstHolds`: the property is inductive once it is known that the
  buffer's slots and count are in range and that a sink is called with a message.

**SourceRegistryProofs.** For `Overlap = FALSE`, which is what the application must
see to: with two registrations at once both properties fail.

* `FirstRegistrationWinsHolds`: the i-th entry below the count is the i-th accepted
  registration, whole (`TableIsAccepted`); the one registration under way fills the
  entry straight behind them, in the order scheme, factory, count (`FillsTheNext`);
  and a search has met no entry of its scheme so far and looks no further than a
  count that is at most the present one (`SearchesGoOn`). The four together are
  inductive, and the property is what they say of a search that ends.
* `FoundStaysFoundHolds`, an action property: what was accepted is only appended to.

**PipelineNetProofs.**

* `OneInEachPipeHolds`, with `NInv`: the types, that hops go down along each
  thread's path (so no pipeline is on a path twice), and the property itself.
* `NobodyWaitsInACircleHolds` is the lock-order argument. A thread holds only
  locks of pipelines with more hops than the one it waits for. If everybody
  waited, whoever waits for the pipeline with the fewest hops would wait for
  somebody who waits for one with fewer still.
* `NetworkRefinesEmitService`: any number of connected pipelines implement what
  one does.
* `TopicTellsItsWayHolds`, for any set of pipelines whose stages rewrite topics, any
  remaps, and any topics they make: `TopicsTell` says of every place between two locks
  what the property says of the end, for the way since the topic was last written
  (`Tells`). A step that writes it makes that way empty (`WrittenTells`); a sink that
  keeps it makes the way one pipeline longer (`PrefixedTells`). `PrefixesOf` is a recursive
  function on ways; that it exists at all is proved first (`UnfoldingsExist`), and
  that it gets one prefix longer with one pipeline more is `PrefixesOfFront`.

**OwnershipProofs.** The lemmas on boxes come first: while pointers tell the
truth, a box that takes over or is assigned another *becomes* that other, and
what it leaves is an empty box. Each operation is then an exchange, a fill or a
reset of whole boxes (the `...Shape` lemmas), or nothing at all (`NothingToItself`).

* `PointersTellTruthHolds`: inductive together with the types (`BInv`).
* `MovesKeepPipelineHolds`: every operation leaves a pipeline in use built as
  asked (`KInv`).
* `PollsItsOwnHolds`: needs in addition that the place of a running pipeline is
  in use and that no operation touches it (`RInv`).
* `OneOwnerHolds`: `Owned` says that no two boxes hold the same object, no box
  holds a destroyed one, and whatever was handed in is held or destroyed.
  `FillOwned`, `ExchangeOwned`, `ResetOwned` and `RefusedOwned` keep it, and each
  operation is made of these. Two facts make that work: a free place has only
  empty boxes, and so has a pipeline beyond its stage count (from `KInv`).

**ValuesProofs.**

* *Expected.* `FlagTellsMemberHolds` and `StandsForResultHolds`. Every operation
  destroys, constructs or both, in one object (`DestroyedIsRight`,
  `ConstructedIsRight`); `Right` relates an object to the result it stands for, and
  in between the two an object is right for no result at all. Self-assignment and
  assignment between the two states are cases of `BecomesRight`.
* *FixedString.* `CopiedIsView` is the lemma the rest hangs on: when the loop of
  `Copied` reads character i of a view into the string it writes, it has written
  only what lies before that character, so it reads the old text. It is an induction
  over the loop's turns; `CopiesExist` shows that the recursive function in `Copied`
  is one. `KeepsTextHolds` follows for every operation, and `OrderIsTotalHolds` from
  it: `==` is equality of the texts, and of two texts that differ one is less at their
  first difference.
* *Message.* `ShowsLastViewHolds`: `MemcpyFills` and `TerminatedKeeps` say what a
  copy and the terminator leave alone, `ReadsTheSame` that a payload `WellUsed` allows
  still reads the same when the topic has been written.
* *Uri.* Every lemma about the parsers holds of any sequence over the eight
  characters that Uri tells apart; the theorems need only that `MaxRest` and
  `MaxUriLen` are natural numbers. `FindIs` and `LastColonIs` say what the searches
  find. `ParsedParts` says that whatever either parser returns is found in the text it
  was given, so `PlaceReads` lets `rebind_view` find a part that reads the same, and
  `FoundIsRead` makes a stored URI's parts the parser's own, whichever occurrence they
  were placed at. What is left is about the parsers. `ParsersAgreeHolds`: without a
  query or a fragment straight behind it the authority ends at the same place
  (`SameAuthority`), and without a leading bracket it is split alike (`SameSplit`).
  `AuthorityIsReadHolds`: in an authority of the form userinfo@host:port the first `@`
  ends the userinfo (`UserIsRead`) and the last `:`, or the first `]`, ends the host
  (`PlainHostIsRead`, `BracketedHostIsRead`). `PartsMakeTheTextHolds`: a text is what
  lies before the first of several characters, that character and the rest (`MadeOf`);
  so the authority is put together with scheme and rest (`HeadMakesIt`), and path with
  query and fragment (`PathQueryFragmentMakeIt`). Of `Plain` that needs only that no
  `?` stands behind a `#`.
* `EachByItself` carries these from the modules to MCValues, where they are checked.

Inductions over a loop or a sequence are written as arguments about the least
counterexample (`LeastNumber`, from the library's `WFMin`), because the induction
theorems themselves take an operator as a parameter, which the installed provers
cannot instantiate.

**Only model-checked.** Liveness (`SomebodyGetsIn`, `RunEnds`, `RunEndsByItself`,
`EmitReturns`), which is out of the prover's reach. Every other property of a passing
run is a theorem.

## 6. Where documents and code disagree

Three runs check a sentence of the documentation and find it violated.

* **PipelineLostStop**, `StopIsKept`. `README.md:116` says "stop() signals the
  event loop to exit". A `stop()` made after `run()` has begun and before line 179
  of `pipeline.hpp` stores true to `running_` is overwritten, and the loop runs on.
* **PipelineLateConfig**, `SlotsAreReady` with `LateConfig = TRUE`.
  `pipeline.hpp:27-29` says that every mutation of the stages and the sink happens
  under the lock. `add_stage()` and `set_sink()` take none: the count goes up
  before the slot is filled, and a replaced sink is destroyed under whoever is
  about to call it.
* **PipelineUri**, `SourceGetsOwnedUri`. `README.md:229` says "Owned URI storage
  prevents dangling". `connect_uri()` assigns a temporary, the defaulted
  assignment copies its view, and the view points into the temporary. `run()`
  hands that view to the source.

Smaller ones that the models show and no run of their own is spent on:

* `poll_once()` is offered for an external event loop (`README.md:122`), but it
  polls only while another thread is inside `run()`.
* `running_` is raised before the callback is installed, so another thread's
  `poll_once()` can reach a source that has none (`PollDiscards`).
* Both parsers take a `?` behind a `#` for the start of a query; RFC 3986 has it in
  the fragment. `PartsMakeTheText` leaves these texts out (`Plain`).
* The minimal parser leaves `?` and `#` straight after the host in the authority
  and splits a bracketed host at its last colon, as its short grammar suggests.
* The moves of a pipeline copy the URI's view as `connect_uri()` does, so a pipeline
  built with a URI and any `operator|` runs with a dangling one as well (`Move`,
  `CalledOrPiped`).
* A later error overwrites an earlier one in `pending_error_`, and nothing clears it: a
  pipeline that was once given an over-long URI never runs, whatever it is given next.

## 7. What is not modelled

* *Data.* QoS values; and, outside Message and FixedString, payloads and the bytes of
  topics. In a pipeline a message is named by who sent it and when, whatever a stage
  has made of its content; PipelineNet has what stages make of its topic.
* *Memory order.* The interleavings are sequentially consistent. The fields that
  are shared without a lock or an atomic are those of PipelineLateConfig, where the
  model already takes each write apart.
* *Exceptions.* Stages, sinks and sources that throw: the library returns errors
  and is built for use without exceptions. `connect_to` with a prefix is the one
  place that allocates.
* *The lifetime of config ops.* `config_fn` is the same box as a stage's.
* *What any_source forwards.* Each call goes to the source it holds, which is the one
  of Pipeline. An empty one refuses `connect()`, so its other calls are never made.
* *What a factory does with its URI.* The registry hands it an empty view when the URI
  is too long; nothing in the repository says what should happen then.
* *Overlapping polls.* `poll_once()` beside `run()` polls the source from two
  threads; what that does is the source's matter, and the model lets both deliver.
* *Not worth a model.* `fixed_string_literal`, the argument structs of
  `pipeline_ops.hpp`, the vtable's trampolines, `error_code`'s names, concepts and
  configurations: constants and pure forwarding.

## 8. Plan

Written so far, in this order: Spinlock; EmitService; Pipeline (builder and
`run()`, then `emit()`, then the clients); its refinements; PipelineNet;
SourceRegistry; Uri; Ownership; the moves in Pipeline; RangePipeline; FixedString,
Message and Expected; and the proofs of each.

To come, the most valuable first:

1. *The safety that the liveness properties rest on*, as theorems: which step is open to
   a thread that neither waits for a lock nor has returned.
2. *Ownership and Pipeline together*: that `Pipeline`'s view of a pipeline's boxes is
   what Ownership keeps.
