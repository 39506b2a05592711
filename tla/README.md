# Verification of corecpp

corecpp is a C++17 library: diagnostics (channels, appenders, a worker thread
fed through a queue), a command line parser, JSON and XML serialization, a
variant, containers, meta programming helpers and a unit test framework. This
directory holds TLA+ models of its parts, the TLC configurations that check
them and the TLAPS proofs about them. Paths below are relative to the root of
the repository.

    tlc -workers 2 -config WaitingQueue.cfg MCWaitingQueue.tla      # a run
    tlapm WaitingQueueProofs.tla                                    # the proofs about it

`PROJECT.json` lists the components, the runs with their properties, for every
property a mutant of the code that breaks it (the definitions marked *Mutant*
in the modules), the lines of the source behind every definition, the hazards
of the code and the theorems.

## 1. The system

| Component | State it keeps | Operations | Interacts with |
|---|---|---|---|
| `waiting_queue` (container/waiting_queue.h) | a deque, a mutex, a condition variable | emplace, pop, try_pop, pop_for, size, empty | any number of threads; the async appender |
| `async_appender` (diagnostic.h) | a queue of owned events, a worker thread, the wrapped appender | construction, append, run, destruction | channels call it, it calls the wrapped appender from its thread |
| `channel`, `event_producer` (diagnostic.h, diagnostic_manager.cpp) | a mutex and a shared pointer to a level and an appender | diagnose, set_level, swap | threads that log; its appender |
| `manager` (same files) | the default channel, a mutex | get_channel, default_channel, set_default | hands channels out by reference |
| `file_appender` (appender.cpp) | a stream, the size of what was written, the limit | append, roll, max_file_size | file system, clock; a program that dies and restarts |
| `periodic_file_appender` (appender.cpp) | a stream, the time up to which its file is used | append, roll | file system, clock, time stamps made by diagnose |
| command line (cli/command_line.h, cli/parser.h, command_line.cpp) | a cursor over argv, the values of options and parameters | parse_options, parse_command, parse_parameters and the readers of long, short and plain arguments | parsers of commands, nested in that of the program, share the cursor |
| JSON (serialization/json.h, json.cpp, serialization/common.h, `variant::serialize`) | serializer: `m_first`, indentation; tokenizer: a stream position; deserializer: the token at hand, `m_first` | serialize and deserialize for every kind of type; next, read | the two meet through the text only |
| JSON parser (json.cpp) | a stack of rules | push, end | tokenizer |
| XML serializer (xml.cpp, serialization/xml.h, serialization/common.h) | `m_started`, indentation | serialize, write_* | what the JSON deserializer has read is written again as XML (examples/serialization.cpp) |
| variant (variant.h) | an index and the storage of one alternative | construction, assignment, reset, get, visit, deserialize, destruction | constructors that throw, documents; rules and nodes of the JSON parser |
| unit test framework (unittest.h) | `m_setted`, `m_result`, `m_errors` of a fixture, the exit status | selection by the command line, setup, tests, groups of cases, assertions, teardown | tests, which fail and throw; the command line |
| ring_buffer, shared_vector; deferred, event, any, expected, ref_ptr, flags, decimal, uuid; algorithms and reflection; net/* | values | | |

**What is hard.** Concurrency is concentrated in diagnostics: waits give the
queue's mutex up in the middle of a critical section, a timeout races a
notification, the destructor of the async appender races callers of append and
the worker, channels are re-levelled and swapped while threads log, and the
manager replaces channels it has handed out. Failure and time are in the file
appenders, none of which looks at what a system call returned: the program may
die between two steps of a roll, rename or open may fail, the disk may be full,
files are named by a local time that repeats and runs back, and events come
later than they were built. Protocol is in the
two parsers: one cursor is shared by nested command line parsers, and in JSON
one flag, `m_first`, serves all levels of nesting, every reader has to stop at
exactly its last token, and a reader may be older than the writer. A variant
keeps an object by hand, with constructors that may throw between two steps of
an assignment; the unit tests have failures and exceptions that leave a case by
four ways, and members that all groups of cases share.

**What makes each part correct**: the queue is a FIFO that loses and repeats
nothing and leaves no popper asleep beside an element; the async appender
delivers what was accepted, once, in order, before its destructor returns; a
channel's decisions follow levels that were in force; channels live as long as
somebody has them; each event is in one log file, in order, and files stay
within their limit; each argument is read once, by the parser it belongs to;
what is serialized is read back as it was, and never as something else; a
variant destroys each object once and its index names what it holds; each
failure of a case is reported once and reaches the exit status.

## 2. The modules

| Module | Models |
|---|---|
| `BlockingFifo` | what a blocking queue promises: a call acts at one moment |
| `WaitingQueue` | `waiting_queue`, lock by lock; refines `BlockingFifo` |
| `AsyncDelivery` | what asynchronous delivery promises: a backlog that is delivered in order, then a closed door |
| `AsyncAppender` | `async_appender` on top of an instance of `WaitingQueue`; refines `AsyncDelivery` |
| `Channel` | `channel` and `event_producer` |
| `Manager` | `manager` |
| `FileAppender`, `PeriodicAppender` | the two file appenders |
| `CommandLine` | the command line |
| `JsonText` | characters, types and values that the JSON modules share |
| `JsonSerializer`, `JsonTokenizer`, `JsonDeserializer` | the three classes |
| `JsonGrammar` | `json.BNF` as a recogniser of token sequences |
| `XmlSerializer` | the XML serializer |
| `JsonStream` | composes them: values written one behind the other, the text perhaps cut, read back one by one, and written again as XML |
| `Variant` | `variant` |
| `UnitTest` | `test_unit`, `test_fixture` and `test_case_result` |
| `MC*` | the instances TLC checks |
| `WaitingQueueProofs`, `AsyncAppenderProofs`, `ChannelProofs`, `ManagerProofs`, `FileProofs`, `PeriodicProofs`, `CommandLineProofs`, `SequentialProofs` | the theorems about these modules; the last is about `Variant`, `UnitTest` and `JsonSerializer` |

### How state and actions correspond to the code

*WaitingQueue.* `m_container`, `m_mutex` and `m_condition` are the members, the
condition variable being the set of threads asleep on it. `pc[t]` says where a
thread is: `Call` enters a member function, `Lock` and `Unlock` are the lock
guards, `EmplaceBack` and `NotifyAll` the two statements of emplace, `Wait`
releases the mutex and sleeps in one step (what `condition_variable` promises),
`Timeout` and `SpuriousWakeup` end a sleep, and a thread that wakes has to get
the mutex again. `TakeFront` and `ReturnFalse` are the ends of the three pops;
`wait_for` looks at the predicate again after its time is over, which is why
`ReturnFalse` needs an empty queue. `push` (its parameter type is a trait, not
the element type), `pop_until` (hands a duration to a function that needs a time
point) and `remove`, `remove_if` (undefined without a match) have no callers and
are left out.

*AsyncAppender.* Every step of the queue inside append, run and the destructor
is a step of `WaitingQueue`; `AppendCall`, `Destroy`, `Join`, `PopCall`,
`Deliver`, `Throw` and `Exit` are what the class does between them. The class
template does not compile when it is instantiated as it stands; the model has
what its statements evidently mean. A thread that is still inside append when
the queue is destroyed is not followed (that is undefined). `Throw` is an
exception of the wrapped appender on the worker thread, which terminates the
program.

*Channel.* diagnose copies the pointer under the mutex (one step: it waits for
nothing inside) and then reads the level twice without it; `Admit`, `Reject`
and `KeepDetails` are those two reads. swap takes its two mutexes lock by lock.
A params object stands for its output, which never changes. The move operations
take no lock and are used before a channel is shared; they are left out.

*Manager.* The steps of `_default_channel` (check, make, reset, log, return) and
the two halves of `unique_ptr::reset` are apart. `m_channels` is never filled by
the code and is not in the model. `usage` distinguishes programs that only use
the locked entries from programs that set a default before their threads start;
calling default_channel first from several threads is a data race.

*FileAppender.* append and roll are cut into close, rename, reopen and write, so
that a crash, a change of the time or a late flush can come between. `disk` maps
names to events; a rolled file is named by its local time to the second, and
rename replaces what has that name. `Tick` and `SetBack` move the local time,
the second at the end of summer or when the clock is set back. `WriteOut` is the
buffer on its way to the disk, when it is flushed or the stream is closed: all
of it, or on a full disk what still fits (a prefix, cut between two events), the
rest being lost; that the library may try again later is left out. Opening with
`out | ate` truncates, and `m_file_size` is not set back by a roll, as in the
code. *PeriodicAppender* keeps `m_timestamp` and the name of the open file; an
event is the number of the call of append that brought it, and `appended` has
its time. The local time and the template the file names are made by are
arbitrary functions, so that names may repeat and need not be in any order. The
time of an event and the time at which roll reads the clock are unrelated.
`Advance` has the integer division that happens before `std::ceil` can round,
and `opener` remembers which event rolled last.

*CommandLine.* One step is one turn of a loop of the code; an argument is a
record of how it looks to the parsers (two dashes, long, short or a word).
`role` records what each argument was read as. The program and its commands
are levels, each with the options, commands and parameters of one parser, the
innermost without commands. `usage` and help texts are layout.

*JSON.* A serializer or deserializer is a call tree, so each has a variable
(`todo`, `calls`) with the calls that have yet to be made, innermost first; one
step makes one call of the class. That is the run-time stack of the code, and
makes `m_first` behave as it does there: one variable for all levels. `made` is
the stack of values under construction. Types are records `[kind, of, names]`;
a step of `deserialize` picks by kind what `deserialize_impl` picks by traits.
The tokenizer is a function of text and position: `next` and the loop of `read`
that calls it again past characters that are no token. The putting back of the
last digit at the end of a stream, the giving up of cut tokens and the passing
over of unknown properties are as in the code. Left out: exponents of numbers
(the serializer writes none) and characters that are not ASCII; floating point
numbers have one decimal; a whole number is added up in a `long`, which wraps
around in the model (in C++ that is undefined, and the usual build wraps); the
letters after the first of true, false and null
are one character, because none of them begins a token, so that it makes no
difference which of them a cut text still has.

*XML.* All that the serializer keeps from call to call is `m_started`, so one
step is one call of serialize from outside, which returns or throws after any
number of characters; `Content` is what the nested calls write. A scalar has an
overload of its own and starts no document. After an exception `m_started`
stays set, as in the code, and what follows has no header and no root. Left
out: the white space of `m_pretty`, and strings of 16- and 32-bit characters,
which the code writes as nothing.

*Variant.* `m_type_index` and `m_data` are the members, `m_data` being the
object that lives in the storage or `Nothing`; what the program does with the
index and what it does with the storage are apart, so that they can disagree.
`Replace` is the reset, the new index and the placement new of every
assignment; the index is set before the constructor runs, as in the code, and
stays when that throws. `move_assigns` and `nothrow` choose between the overloads and
between the exception specifications. An operation on a variant whose index
names an object that is not there is undefined and ends the behaviour, an
exception out of a `noexcept` function terminates it. The destructor has its
comparison the wrong way round, as in the code.

*UnitTest.* A step is an assertion that fails, an exception, or a turn of one
of the three loops (fixtures, tests of a fixture, cases of a group).
`m_result`, `m_errors` and `m_current_test_index` are shared by all groups of a
fixture and start with any value, as the class leaves two of them uninitialised.
What a test does inside and outside its groups of cases is
anything it can do (`StrayFailure` is an assertion outside of a group). An
exception of setup or teardown is caught nowhere (`Terminate`). `Sums` adds up
what the groups of a test have returned, as the test does with `operator+`. The
specification is called `SuiteSpec` because `SequentialProofs` extends `Variant`
as well.

## 3. The runs

| Run | Bounds | Shows |
|---|---|---|
| `WaitingQueue` | 3 threads, 2 calls each of any kind, 4 in all, 2 values, 1 spurious wake-up | `TypeOK`, `MutualExclusion`, `NoLostWakeup`, `ExactlyOnceInOrder`, `Linearizable`: the step-level queue implements the atomic one; `NoForgottenElement`, `TimedPopReturns` under fairness |
| `AsyncAppender` | 2 producers, 3 events, worker, owner, 1 spurious wake-up, a wrapped appender that may throw | `FlushedAtDestruction`, `ImplementsDelivery`, `DestructorReturns`, `EventuallyDelivered` |
| `Channel` | 3 threads, 1 call each, 2 channels, 2 levels, swaps in both orders and with itself | `JustifiedByParams`, `NoTornSwap`, `StuckOnlyByCrossedSwaps` |
| `Manager` | 3 threads, 2 calls each | `OnlySetDefaultDestroys`, `NoLeak`, `OneLivingDefault` |
| `FileAppender` | 5 events of two lengths, 3 local times, forth and back, 2 starts, full disks, failures and crashes anywhere | `Accounted`, `Chronological`, `SizeNotUnderestimated`, `RolledBeforeWrite` |
| `PeriodicAppender` | period of 3 ticks, 7 ticks, summer ending after the fourth, a template that repeats, 4 events of any times in any order, failing opens | `WithinAPeriod`, `OpenForLessThanAPeriod`, `EveryEventWritten` |
| `PeriodicAppender_assert` | the same with assertions | **violation** of `TimestampCoversEvent` |
| `CommandLine` | every line of up to 3 of 20 arguments, two levels, options of 4 types | `ReadInOrder`, `NothingOptionalBehindSeparator`, `OnlyMentionedOptionsChange`, `WellParsed`, `Terminates` |
| `JsonStream` | 289 pairs of a value and the type it is read as, of 13 kinds of types nested in one another, each alone and in front of a second one, plain and pretty, cut at every character; XML calls that throw anywhere | `ReadBackAsWritten`, `NothingRefused`, `CutIsRefused`, `OlderReaderNotMisled`, `WrittenInGrammar`, `XmlTellsApart` |
| `Variant` | 3 variants, 2 alternatives, 2 values, 4 objects, indices from -2 to 2 in documents | `Accounted`, `OnlyExceptionsBreak`, `AssignmentTakes` |
| `Variant_destructor` | the same | **violation** of `DestructorDoesNotThrow` |
| `UnitTest` | 2 fixtures of 2 tests, 2 groups of up to 2 cases, 2 failures in a group | `ReportedOnce`, `SuiteSound` |

Each property is stated in words where it is defined.

**Why the bounds are enough.** Two threads are what a race takes and a third is
what it takes for a notification to reach the wrong one, or for a bystander to
get stuck; two calls each let a thread come back to state it left behind, and
four in all are an element for each of two poppers, or two elements and a
popper that comes back. Three
events are one delivered, one in hand and one queued. Five events of
alternating length pass the limit and roll three times, in one second and in
three, with the local time running back in between, so that a rolled file is
replaced, outlived by an older name or put between two others. Three arguments are an option, its value and what follows, or a command,
its option and its parameter. The JSON values have, for every kind of container,
an empty, a one-element and a longer one in every kind of container, which are
the cases in which `m_first` and the token at hand differ. An integer of 8 bits
stands for the types that are narrower than `long`, which has 16 bits; its
smallest value is read through an overflow. Strings that are or contain a
closing bracket make a cut text look complete. Two of the strings differ
in nothing but an entity and the character it stands for. Three variants are a
source, a target and one that must not be touched; four objects are enough for
one to be replaced by one that is moved from a third. Two groups of two cases
are what it takes for errors of one to be seen in the other, two fixtures of two
tests for a status to be lost between them. Symmetry is used only where a
specification treats the members of a set alike, and never with fairness.

**Deadlock.** `CHECK_DEADLOCK FALSE` is in every configuration: the bounded
programs end, a queue may rightly keep a popper waiting for ever, and where a
real deadlock can occur, in `swap`, the property `StuckOnlyByCrossedSwaps` says
which threads can be part of it.

**Fairness.** `WaitingQueue` and `AsyncAppender` assume that a thread inside the
library is scheduled again and that a timed wait ends, the operating system's
part of the contract; weak fairness is enough because in these instances the
number of calls is bounded, so the mutex cannot be taken away for ever. The
bound on all calls together (`CallsInTotal`) is an action constraint; it only
holds back calls, for which no fairness is assumed, so it cannot hide a
behaviour in which something that must happen does not. No
thread has to make a call, no wait has to end spuriously, nobody has to destroy
the appender, and an appender that throws is not forced to. `CommandLine`
assumes that the parser, which is sequential, goes on.

## 4. The proofs

A run shows a property on one small instance, a theorem for every value of the
constants that satisfies the assumption of the module: any number of threads,
channels, events, options, levels, alternatives, any sizes, periods and limits.
No theorem has another hypothesis than the assumption named in its row, which
the runs evaluate too, but for the two about `JsonSerializer`, a module without
constants, which say themselves what they assume. All theorems are about `Spec`
(`SuiteSpec` of `UnitTest`, `JsonSpec` of the serializer), without fairness.

| Module | Theorems | From |
|---|---|---|
| `WaitingQueueProofs` | `TypeCorrect`, `MutexSafe` (`MutualExclusion`), `WakeupSafe` (`NoLostWakeup`), `OrderSafe` (`ExactlyOnceInOrder`), `PopSafe` (`PopGivesAValue`), `Implements` (`Linearizable`), `NoDeadlock` | `QueueAssumption`: `NoThread` is not a thread, the bounds are numbers |
| `AsyncAppenderProofs` | `DestructionFlushes` (`FlushedAtDestruction`), `Implements` (`ImplementsDelivery`), `NeverStuck` | `AppenderAssumption`: producers, worker, owner and `NoThread` are different; the null pointer is no event; there are finitely many events, the bound on calls being their number |
| `ChannelProofs` | `TypeCorrect`, `SwapSafe` (`NoTornSwap`), `DeadlockNeedsSwaps` (`StuckOnlyByCrossedSwaps`), `DecisionsJustified` (`JustifiedByParams`) | `ChannelAssumption`: there is a channel, and no two start with the same params |
| `ManagerProofs` | `TypeCorrect`, `BuiltinSafe` (`OnlySetDefaultDestroys`), `NothingLeaks` (`NoLeak`), `DefaultLives` (`OneLivingDefault`) | `ManagerAssumption`: types |
| `FileProofs` | `TypeCorrect`, `NothingVanishes` (`Accounted`), `InOrder` (`Chronological`), `SizeIsUpperBound` (`SizeNotUnderestimated`), `LimitKept` (`RolledBeforeWrite`) | `FileAssumption`: types; a message may have any size, zero too |
| `PeriodicProofs` | `TypeCorrect`, `RollsByWholePeriods` (`WithinAPeriod`), `FilesAreRolled` (`OpenForLessThanAPeriod`), `WrittenOnce` (`EveryEventWritten`) | `PeriodicAssumption`: the period is not zero, and no file has the name that stands for a closed stream; nothing about the local time and the template |
| `CommandLineProofs` | `TypeCorrect`, `OnceFromTheLeft` (`ReadInOrder`), `DashesEndOptions` (`NothingOptionalBehindSeparator`), `OnlyMentionedChange` (`OnlyMentionedOptionsChange`), `SuccessIsComplete` (`WellParsed`), `ParsingDescends` | `CommandLineAssumption`: the types of options, parameters and commands; every one of them is bound to a variable of its own; the innermost commands have no commands |
| `SequentialProofs` | `TypeCorrect`, `EveryObjectAccounted` (`Accounted`), `ExceptionsBreak` (`OnlyExceptionsBreak`), `AssignmentsAreTaken` (`AssignmentTakes`) | `VariantAssumption`: finitely many variants, at least one alternative |
| `SequentialProofs` | `SuiteTypeCorrect`, `FailuresReported` (`ReportedOnce`), `StatusIsRight` (`SuiteSound`) | `UnitTestAssumption`: there is a fixture, a test, a group, a case and a failure |
| `SequentialProofs` | `ValuesSeparated`, `CommasBetweenValues` | stated in the theorems: the values come from a set `D` that has the parts of each value it has (`WellFormed`), and their characters and those the serializer writes of itself are in `C` |

In brackets is the property of the run. Every proof has the same shape: an
invariant `IInv` that the initial states satisfy and that every action keeps,
one lemma or step for each action, and the property as a part or a consequence
of it. What had to be added to the properties to make them inductive is what
one has to know about the code to see that they hold:

*WaitingQueue* (`TypeOK /\ Sync`). `NoLostWakeup` survives a notification only
if the wait set is exactly the set of the threads that are blocked (`WaitSet`);
`PopGivesAValue` survives only if no thread that is late is a plain pop
(`LateIsInside`) and no thread that notifies is a pop (`NotifierEmplaced`).
`LateIsInside` is also what makes `ReturnFalse` a step of the atomic queue.
`OrderSafe` needs nothing but types and two lemmas about sequences. For
`Implements`, calls, returns, appends, takes, misses and measurements map to the
action of the same meaning, locks, waits, timeouts, wake-ups and notifications
to stutters; for notifications this needs `WaitSet` again.

*AsyncAppender* (`QueueInv /\ Roles /\ Working /\ Closing /\ Settling`). The
invariant of the queue and `ExactlyOnceInOrder` are taken from
`WaitingQueueProofs`, whose module is instantiated: the steps of the queue keep
what is proved there. To it come who calls what (`Roles`: only the worker pops,
only the destructor emplaces the null pointer), that the worker has delivered
what it took, but for the value in its hand (`Working`), that the null pointer
enters once (`Closing`), and that what a producer has logged has entered, but
for the event on its way (`Settling`). `ImplementsDelivery` then maps the
`EmplaceBack` of a producer to Accept while the null pointer has not entered and
to a stutter behind it, that of the destructor to Close, the call of the wrapped
appender to Deliver and the join to Finish, everything else to a stutter: that
the backlog does not change when the worker takes an event out of the queue is
the longest part of the proof.

*Channel* (`TypeOK /\ Locking /\ Exclusive`). While a swap is between its two
assignments both channels point to the same params; the others are in the
temporary, on the stack of the thread. `Exclusive` is therefore about what a
channel *owns* (`Owned`), which is the temporary for the second channel of a
swap that has not finished, and it is kept because a thread there holds both
mutexes (`Locking`). `JustifiedByParams` takes a second invariant, `Justified`:
each thread has seen the level that it acted on.

*Manager*. `Exclusion` ties the mutex to the places in the functions; `Making`
says what the thread inside has in its hands, and `OneBuiltin` that a second
builtin channel cannot be made because from the first one on there is a default
or somebody about to store one. `StartedUp` follows a program that sets its
default before it starts its threads.

*FileAppender*. `Sized` extends `SizeNotUnderestimated` over the steps of a roll
in which no stream is open. That no two files are interwoven needs nothing about
their names: a rename puts the live file, which is the newest, in the place of
whichever file it replaces, and what is written to the live file is newer than
everything. That the names are in order needs `Naming`: as long as the local
time has not run back, no file is newer than the time, nor than the one that
roll has chosen. `CutInTwo` and `StreamClosed` follow a buffer of which only a
part reaches the disk, and `Streaming` says that nothing is in the buffer of
a stream that is not open. The sum of the bytes of a sequence is a recursive
function, about which three facts are needed for sequences of any length (one
more at the end, two sequences in a row, a prefix). The library's induction
takes a predicate as parameter, which the provers cannot instantiate; here a
claim is proved for every number by choosing the least one for which it is
false (`LeastNumber`, from the well-foundedness of `<`).

*PeriodicAppender*. The arithmetic is one fact: what a division leaves is less
than the divisor. `OpenerWithinAPeriod` says that `m_timestamp` is less than a
period ahead of the event that rolled last, which is why an event that stays in
the open file is, too; `OpenedOrRefused` is why an event that is missing was
dropped. Both properties of `m_timestamp` hold whether the number of periods is
rounded down, as it is, or up, as `std::ceil` means it.

*CommandLine*. That only mentioned options change needs to know where the short
names that are left (`ClusterMentioned`) and the sequence that is being read
(`TargetMentioned`) come from; that nothing behind two dashes is an option, that
options are read again only behind a command (`SeparatorsPassed`, with
`ParametersLast`); that a successful parse is complete, an invariant for the
parameters in front of the one at hand (`GivenSoFar`) and one for what the
options were left at (`OptionsBehind`). The steps that read options share one
lemma (`OptionKeeps`), those behind the options another (`ParameterSideKeeps`).

*Variant* (`TypeOK /\ Absent /\ Accounted`). `Accounted` counts the objects in
all variants, and every step changes that number in one place or two
(`CountChanges`, from the library's facts on Cardinality). The two action properties are proved for each operation from
the definitions alone.

*UnitTest* (`SuiteTypeOK /\ InSequence /\ SetUp /\ Grouped /\ Remembered`).
`Outcome(s)` is the result that reports the failures `s`: all of them, and the
worst severity. `Grouped` says that the members have the outcome of what has
happened in the group that runs, and that a group that has returned has its
own: a stray assertion writes to the same members, but only between groups, and
the next group sets them back. So the result of a test is a sum of outcomes, and
`SumIsOutcome` says that the sum over any number of groups is the outcome of
their failures in a row. This and the facts about `FlattenSeq` are claims for
every number, proved through a least counterexample as above; `FlattenSeq`
itself is a recursive function inside the community module. `Remembered` follows
a failure on its way to the exit status: it is in what has happened to the
running test, then in its result, then in `res`, then in `ret`, and no reset on
the way is early enough to lose it. `InSequence` relates the tests that were run
to the iterators over fixtures and tests.

*JsonSerializer* (`JsonInv`, about `JsonSpec(D)`: one serializer writes values
of `D` one behind the other). There is one `m_first` and no stack of them,
although containers nest: that it is right again behind a container is due to
the order of the calls that write one. `Chained` says which call may follow
which (`Follow`), and that the object in front of a further entry of a map is
one into which an element was written; `CallsForWhole` shows it of the calls
that `serialize_impl` makes for a value of any type, and `ChainedConcat` that it
survives when they are put in the place of the call they stand for. With it
`Fits` is inductive: in front of an element, a property or an entry the text
ends in a bracket or a colon if `m_first` is set, and in a value if it is not
(`WellSeparated`). `EntryFits` closes the gap at an entry of a map: the object
that ends there began with `m_first` set, and only because something was written
into it is the flag false when the comma of the next entry depends on it.
`CommasBetweenValues` follows from it, since no character ends both a value and
an opening. A set `D` takes the place of the induction over types: the theorem
holds of the values of any type and their parts together, however deep; the
values of the run with their parts are such a set, and `JsonSpec` takes the
steps of `JsonStream` up to `Reopen`.

**Behind the liveness.** Three theorems say for every value of the constants what
the liveness properties rest on besides fairness. `Ready` lists the guards of
what a thread does by itself inside the queue. `NoDeadlock`: when no thread is
ready the mutex is free and whoever is inside sleeps in a wait beside an empty
queue (the holder of the mutex is always ready, and only waits sleep,
`SleeperWaits`). `NeverStuck`: when nobody has anything to do in the appender,
which includes that, all that entered ahead of the null pointer has been
delivered, and if the destructor has begun, the worker is gone, so that the join
returns. `ParsingDescends`: every turn of every loop of the parsers descends in
the lexicographic order of what is left to read and what is left to do before
the next argument is read (parameters, short names, the stage of the parsing),
which is well-founded. They are no liveness theorems: that a thread that is
ready does go on is fairness, and that a parser that is not at its end has a
next step is part of what TLC checks.

**Only model-checked.** Liveness under fairness: `NoForgottenElement`,
`TimedPopReturns`, `DestructorReturns`, `EventuallyDelivered` and `Terminates`.
The six properties of `JsonStream`, which compare what is read with what was
written: values, types and call trees nest without a bound, the operators of the
grammar and of the readers that follow them are RECURSIVE, and what they compute
for every value takes an induction over it. About JSON the theorems stop at
the serializer, which keeps its nesting in a sequence of calls.

## 5. Findings

- `PeriodicAppender_assert`: `m_timestamp` is moved to at or before the event,
  and the assertion two lines further on fails. Without assertions an event that
  is not a whole number of periods after the epoch leaves `m_timestamp` behind
  itself, so that the next one of the same period rolls again.
- `Variant_destructor`: the destructor resets when the index is not that of an
  alternative, the wrong way round. An alternative is never destroyed, and a
  variant that was read from a document with an index of size or more makes the
  destructor throw, which the comment in it says it avoids.

Without a run:

- Rolled files are named by the local time in seconds and `m_file_size` is not
  set back by a roll, so once the limit is passed every append rolls, and the
  second roll within a second replaces the first file. `Accounted` counts these
  events as overwritten and shows that no event is lost otherwise than in the
  ways it lists. At the end of summer an hour of names comes again: a file of
  the first such hour may be replaced, and the names are no longer in the order
  of the events, which `Chronological` allows from there on.
- A string that is cut short is given up after its quotation mark
  (src/json.cpp:356-361), and the characters behind it are read as tokens. If
  there is a closing bracket among them it ends the array or object: `["]"]` cut
  to `["]` is read as the empty array (include/corecpp/serialization/json.h:889-891),
  without an exception. `CutIsRefused` leaves out the cuts in a string with a
  closing bracket or brace, and no others.
- An entry of an associative array is written as an object of two bare
  elements, which is no object of json.BNF (`WrittenInGrammar` leaves
  associative arrays out; they are read back, though).
- Move assignment of a variant that has the same alternative as its source
  assigns the value to itself and ignores the source (`MoveAssignSame`).
- An unknown property written `{}` ends the object that is read, which is why
  `OlderReaderNotMisled` leaves it out.
- The XML serializer leaves `m_started` set when it is left by an exception; it
  names the elements of tuples and variants by numbers, which are no XML names.
- A bool option present without a value takes its declared default, even false;
  unsigned 64-bit values above the maximum of `long`, and the minimum of `long`,
  are only read back because the build wraps an overflow around; wide characters
  above 0xFF are written as decimal numbers.

## 6. Not modelled

Formatting and the console appender, terminal graphics, algorithms, reflection,
net/* and the small value classes: no state that outlives a call, or state one
unit test reaches. ring_buffer and shared_vector do not compile when they are
used, and nothing uses them. The same holds for the operations of variant that
section 2 does not name: emplace, get by position, assignment of a `const T&`
and copy assignment where every alternative can be copy-assigned. The JSON
parser (`push`, `end` and the rules of json.cpp): the test for a next rule
(src/json.cpp:772 and the three like it) is the wrong way round, a rule is
asked of a result that has none, and no sentence is accepted; a model of it
would have nothing to say but that, and nothing uses the parser.

## 7. Plan

The order was: the queue first, because everything concurrent rests on it; the
async appender, which composes with it; channel and manager; the file appenders;
the command line; JSON; variant, unit tests and XML. What is left, most
important first:

1. A composition of `Channel` with `AsyncAppender` and `FileAppender`: an event
   from diagnose to its file.
2. The JSON parser, if its test is ever turned round, against `JsonGrammar`.
