# A verification of producer_consumer

This directory holds TLA+ models of the producer/consumer library in `pc/`, the
TLC configurations that check them on small instances, and TLAPS proofs for
instances of every size. Paths are relative to the repository's sources.

## The system

The program is a bounded buffer shared by producer and consumer threads, with a
manager that adds and removes those threads while they run. It is small (about
350 lines of C++), and nearly all of it is concurrency.

| part | source | state | operations |
|---|---|---|---|
| `SharedBuffer` | `pc/src/sharedBuffer.cpp` | `buffer_`, `currentIndex_`, `quitSignal_`, `mutex_`, `quitCV_` | `produce`, `consume`, `stop`, `notify`, `isRunning`, `getCurrentIndex` |
| `IBufferActor`, `Producer`, `Consumer` | `pc/src/IActor.cpp`, `producer.cpp`, `consumer.cpp` | `quitSignal_`, `mutex_`, `stopCV_`, `thread_` | `start`, `stop`, `isRunning`, `rest`, `run` |
| `ProducerConsumerManager`, behind `IPC` | `pc/src/manager.cpp`, `IPC.cpp` | `sharedBuffer_`, two lists of actors, a mutex for each | `start`, add, remove, remove all, `stop`, `getCurrentIndex` |
| `BufferItem` | `testApps/src/bufferItem.cpp` | a Boolean | `fill`, `empty`, `operator bool` |
| shell | `testApps/src/main.cpp` | the items, `input`, the state of `std::cin` | read a command, call `IPC` once or five times, stop, delete the items |
| tests | `testApps/src/test.cpp`, `pc/src/valgrind_check.cpp` | the items | build a buffer, add actors, poll the index, stop, look at the items, check for leaks |
| vendored headers, googletest, scripts | | none of the system's | |

How they interact:

- The **thread of an actor** loops: ask the buffer whether it runs, rest for a
  delay, then `produce` or `consume`. A call that finds the buffer full (empty)
  waits on `quitCV_`, and *returns without having produced or consumed* when the
  wait is over.
- **Stopping an actor** takes three places: `stop()` raises its `quitSignal_`
  under the actor's mutex, wakes the waiters of the buffer through
  `SharedBuffer::notify`, wakes its own delay through `stopCV_`, and joins.
- The **wait predicate** of the buffer reads the actor's `quitSignal_` through
  `isRunning()` with only the buffer's mutex held, while it is written with only
  the actor's: the one place where no lock covers both sides.
- The **manager** holds the mutex of a list while it stops and joins an actor on
  it. `stop()` empties the producers' list, then the consumers', then stops the
  buffer and deletes it. An exception in `addProducer` releases the mutex and
  leaves what was already created to nobody.
- The **shell** and each **test** call `IPC` from one thread and own the items: they
  delete them after `stop()`.

What makes each part correct:

- `SharedBuffer`: index and items agree at every boundary; nobody sleeps on a
  condition that holds already without a wake-up on its way; a call lets go when
  it can be served, or its actor or the buffer is stopped.
- the actors: `stop()` always returns, however long the delays, and the actor
  starts no new round; a stopped buffer ends the threads by itself.
- the manager: the lists hold exactly the actors whose threads may run; nothing
  that uses the buffer outlives it; every call returns, and takes effect at one
  instant in between.
- the shell: the crews are what the commands typed make of them; an exception leaves
  exactly part of one batch behind; a 0 ends it, and the items go last.
- the tests: what they read while actors run still holds when they compare it.

What is hard: two mutexes and two condition variables per wait, a predicate read
without its lock, joins under a lock, a check (`isRunning` in `addProducer`)
that may be stale when it is used, and calls of several client threads.
`PROJECT.json` lists these hazards at their lines with the properties that would
notice.

## The modules

| module | models |
|---|---|
| `BoundedBuffer` | what a shared buffer promises: put, take, block, release, close and dismiss, each one step, and no index, lock or condition variable |
| `SharedBuffer` | the monitor. An operation is entered, takes `mutex_`, runs its body, returns; testing a wait predicate and going to sleep are two steps |
| `IActor` | the threads: `run()`, `rest()`, `start()`, `stop()` and the join. Extends `SharedBuffer`; each of its buffer steps is an action of that module conjoined with where the caller goes next |
| `Manager` | one session of the manager: both lists, their mutexes, all calls of `IPC`. Extends `IActor` in the same way |
| `Session` | what the manager promises its callers: two crews, oldest first, and calls that take effect at one instant; no lock, no join, no buffer |
| `Shell` | the command loop of the shell, on `Session` |
| `Scenarios` | the tests, as scripts that one client runs on `Manager` |
| `MCSharedBuffer`, `MCIActor`, `MCManager` | the same on small sets, with their symmetry |
| `SharedBufferProofs`, `IActorProofs`, `ManagerProofs`, `ShellProofs`, `ScenarioProofs` | the theorems about `SharedBuffer`, `IActor`, `Manager`, `Shell` and `Scenarios` |
| `SessionProofs` | that `Manager` implements `Session` |

State and code:

- `items`, `currentIndex`, `quitSignal`, `mutex`: the members of `SharedBuffer`.
  An item is the Boolean it holds. `actorQuit` is `IBufferActor::quitSignal_`,
  `actorMutex` its `mutex_`; `list`, `listMutex`, `life` are the manager's
  static members (`life` is whether `sharedBuffer_` points to a live buffer).
- `at`, `op`: where each thread is in which operation of the buffer. `"lock"`
  waits for the mutex, `"body"` holds it, `"sleep"` holds it after a failed test,
  `"asleep"` is blocked in `quitCV_`, `"woken"` waits for the mutex again,
  `"retest"` holds it again.
- `loop`, `stopping`, `target`, `job`, `kind`, `step`: program counters of
  `run()`, `IBufferActor::stop` and the calls of `IPC`.
- `lost`: the actors that `addProducer` or `addConsumer` created and put on no list
  because something threw. `Faults` says what may: `new` leaves nothing, `start()` an
  object without a thread, `push_back` one whose thread runs.
- `pc`, `input`, `failed`, `left`: where the shell's `main()` is, its `input`,
  whether `std::cin` has failed, the rest of a batch. `typed` is a history of what
  was read. `test`, `line`, `verdict`: a test, its next statement, its result.
- `event`: a ghost of the data race. From the write of an actor's `quitSignal_`
  until the `notify()` of the same `stop()` has gone through the buffer's mutex,
  nothing orders that write before the read in `isRunning()`, so the read may
  return the old value or the new one. That is the only undefined behaviour the
  build can show here: a Boolean is read whole.

A critical section without a wait inside it is one step once the mutex is taken;
so are `rest()`'s test and return, whose lock is released at once. Waking up is a
notification or spurious, and always has to take the mutex again. A timeout may
fire at any moment after the wait began.

## What is checked

Passing runs (TLC finishes with no error):

| run | instance | shows |
|---|---|---|
| `buffer_live` | 2 producers, 1 consumer, 1 client, 1 slot | `TypeOK`, `FilledPrefix`, `NoLostWakeup`, `NeverBothAsleep`, `Promise` (the monitor implements `BoundedBuffer`), `DismissedReturns`, `ServedOrOvertaken`, `OthersReturn` |
| `actor_stop` | 1 producer, 1 consumer, 2 clients, 1 slot | `ActorTypeOK`, `NoLostStop`, `LeftForGood`, `UsesTheBuffer` (the threads refine `SharedBuffer`), `NoNewRoundOnceStopped`, `StopReturns` |
| `actor_timed` | 1 producer, 1 consumer, 1 client, 1 slot, delays that end | `BufferStopEndsThreads`, `BufferMoves` |
| `manager_shared` | 1 + 1 actors, 2 clients, calls overlap `stop()`, adding fails in every way | `ManagerTypeOK`, `ListedOnce`, `StopsUnderLock` |
| `manager_session` | 2 + 1 actors, 2 clients, `stop()` alone, no slot, `new` and `start()` may throw | `NothingOutlivesTheBuffer`, `DrivesActors` (the manager refines `IActor`), `ActsAtOnce` (it implements `Session`) |
| `manager_calls` | 1 + 1 actors, 2 clients, `stop()` alone, no slot at all, `new` and `start()` may throw | `CallsReturn` |
| `scenarios` | 2 + 1 actors, 1 client, 2 slots, four tests | `ExpectationsHold`, `TestsEnd` |
| `shell` | up to 4 commands, 12 threads | `CrewsAsTyped`, `DiesHalfway`, `ItemsGoLast`, `QuitEndsShell` |

Because `Manager` refines `IActor`, `IActor` refines `SharedBuffer`, and
`SharedBuffer` refines `BoundedBuffer`, the safety of each lower module is the
safety of the whole program. `Session` stands beside them: `Manager` implements it
too, which is why `Shell`, whose batches add up to a dozen threads, can be checked
on it instead of on the threads.

`ActsAtOnce` maps the list of a kind to its crew, except that the crew is empty from
the moment a `removeAll` (or `stop()`) has locked the list: that is the instant the
call takes effect, although its last thread is joined much later. An `add` and a
single `remove` take effect as they return.

Runs that end in a violation, each of a sentence of the documentation:

- `stopped_buffer_moves`: "Stops the buffer from accepting and/or returning
  elements" (`sharedBuffer.h:48`). `produce` and `consume` look at `quitSignal_`
  only while they wait; a thread past the loop condition still fills or empties
  one item of a stopped buffer.
- `produce_without_adding`: "Adds an element to the buffer [...] If the buffer is
  full, this call will block until a consumer consumes an item"
  (`sharedBuffer.h:32-35`). A call that waited returns empty-handed once there is
  room, and its thread takes a whole delay before it tries again.
- `stop_leaves_somebody`: "Stops the shared buffer, the producers and the
  consumers" (`IPC.h:59`). `stop()` raises the buffer's signal last. An
  `addProducer` of another thread that locks the list after `removeProducers()`
  left it still finds the buffer running; its thread then runs on a buffer that
  is deleted. A program that calls `IPC` from one thread, as the shell and the
  tests do, never meets this (`StopAloneStopsEverybody`).
- `shell_repeats`: "1: Add a producer." (`README.md:35`), of a command that was
  typed. The loop does not look at the state of `std::cin`; at the end of the input
  the last command stays in `input` and is carried out again and again
  (`main.cpp:66`): `echo 1 | pcshell` adds producers until the system has no thread
  left, and the exception of `std::thread` ends the process. A number that does not
  fit an `int` leaves the shell spinning without reading, since `input` is never 0.

Every property of a passing run has a mutant: a plausible bug, written next to
the definition it replaces (`Mutant of ...`), under which the same run fails.

### Bounds

- `Producers`, `Consumers`, `Clients`: the sets of threads. One of each kind gives
  every interleaving of a producer, a consumer and a stopping client; a second of a
  kind adds competition among equals (for a slot, for a notification, for a list).
- `Size`: the slots. One slot makes every fill and every emptying a boundary case;
  two have a middle; none is the buffer on which everybody waits for ever. The
  initial buffers are all prefixes (`InitialItems`), as in the tests.
- An actor is added, started and stopped once: the sets bound how many there are in
  a session. A new actor is a new object in the code as well.
- A session is one `start()` and one `stop()`. After `stop()` the manager is as it
  was before `start()` (`NothingOutlivesTheBuffer`), so sessions do not affect each
  other.
- `OverlapStop` says whether other calls may run while `stop()` does. When they do,
  the model ends at the delete of the buffer: any later use of it is undefined.
- `manager_session` has no slot, because the manager never looks at the index: that
  buys a second producer, so that a list has an order and a removal that is not the
  last. What the slots do to the threads is checked below `Manager`.
- `Faults`, what may throw in an add: everything in `manager_shared`, where every list
  has one actor at most (that whoever stops an actor stops the oldest is what the
  theorem adds there). `manager_session` and `manager_calls` leave out `push_back`,
  whose lost threads would triple the states; `BufferOutlivesItsUsers` and
  `CallsActAtOnce` are proved with it.
- `CallsReturn` is checked with at most one actor per list, on a buffer without slots,
  where no thread leaves `produce` or `consume` unless it is stopped, and with no call
  that overlaps `stop()`. That is the hardest buffer for a call that joins; the others
  are covered below `Manager`, by `StopReturns` and `OthersReturn`.
- In `scenarios` a poll may time out whenever it looks, so the tries need no count;
  two slots give the poll a value to miss. The tests' hundreds of actors are two and
  one.
- `MaxTyped` bounds the commands before the 0. Four are enough for batches with a
  removal between them, and for three batches, which ask for more actors than
  `MaxThreads` (12) lets live.
  An element of `Producers` (`Consumers`) of `Session` is what a member of the crew
  may be, so one is enough for `Shell`, which only counts them.
- Symmetry is used in runs of safety properties only.

### Fairness

- Weak fairness for each thread's own steps: the operating system schedules it.
- Strong fairness for taking a mutex: between two steps of a waiting thread others
  may take and release it any number of times. `std::mutex` is not fair by contract;
  this assumes only that a thread is not passed over for ever, and no liveness claim
  about the code is possible without it.
- `Manager` states both at once, as strong fairness of all that a thread may do: a
  thread is at one place at a time and leaves it only by a step of its own (or by a
  notification, after which it contends for a mutex).
- No fairness for the delay of `rest()` (except in `actor_timed` and, for the three
  tests that wait for the index, in `scenarios`), for spurious wake-ups, for clients
  making calls, for the user of the shell typing, or for the poll of a test to run
  out of tries. So `StopReturns` and `CallsReturn` hold even if no delay ever ends,
  and the test that stops everybody while they rest ends. Where delays end, the
  timeout is strongly fair: `wait_for` fixes its deadline once, and a spurious
  wake-up does not put it off.
- `Shell` assumes that the calls of `IPC` return, which is `CallsReturn`.

`ServedOrOvertaken` is as much as a waiting producer is promised: it wakes up for
every free slot, but another may take it, again and again.

## What is proved

For all sets of threads, of any size, and every `Size` in `Nat`, zero included:

| theorem of `SharedBufferProofs` | states |
|---|---|
| `TypesAreKept` | `BufferSpec => []TypeOK` |
| `PrefixIsKept` | `BufferSpec => []FilledPrefix` |
| `NoWakeupIsLost` | `BufferSpec => []NoLostWakeup` |
| `NeverBothAsleepHolds` | `BufferSpec => []NeverBothAsleep` |
| `ImplementsBoundedBuffer` | `BufferSpec => Promise` |

| theorem of `IActorProofs` | states |
|---|---|
| `ThreadsUseTheBuffer` | `ActorSpec => UsesTheBuffer`, that is, `BufferSpec` |
| `ActorTypesAreKept` | `ActorSpec => []ActorTypeOK` |
| `NoStopIsLost` | `ActorSpec => []NoLostStop` |
| `ThreadsLeaveForGood` | `ActorSpec => []LeftForGood` |
| `NoNewRound` | `ActorSpec => NoNewRoundOnceStopped` |

| theorem of `ManagerProofs` | states |
|---|---|
| `ManagerDrivesActors` | `ManagerSpec => DrivesActors`, that is, `ActorSpec` |
| `ManagerTypesAreKept` | `ManagerSpec => []ManagerTypeOK` |
| `ActorsAreListedOnce` | `ManagerSpec => []ListedOnce` |
| `ActorsStopUnderLock` | `ManagerSpec => []StopsUnderLock` |
| `BufferOutlivesItsUsers` | `StopIsAlone` implies `ManagerSpec => []NothingOutlivesTheBuffer` |
| `StopAloneStopsEverybody` | the same and `"push_back" \notin Faults` imply `ManagerSpec => []StopStopsEverybody` |

| theorem of `SessionProofs` | states |
|---|---|
| `CallsActAtOnce` | `StopIsAlone` implies `ManagerSpec => ActsAtOnce`, that is, `SessionSpec` |

| theorem of `ShellProofs` | states |
|---|---|
| `CommandsAreCarriedOut` | `ShellSpec => []CrewsAsTyped` |
| `FailureEndsHalfway` | `ShellSpec => []DiesHalfway` |
| `ItemsOutliveTheirUsers` | `ShellSpec => []ItemsGoLast` |

| theorem of `ScenarioProofs` | states |
|---|---|
| `TestsAreSessions` | `AsTested` implies `TestSpec => ManagerSpec` |
| `TestsFindWhatTheyExpect` | `AsTested` implies `TestSpec => []ExpectationsHold` |

The first four of `ManagerProofs` hold whatever the set `Faults` and whether or not
other calls overlap `stop()`. `StopIsAlone` says that none does: `~OverlapStop`, or a
single client, as in the shell and in the tests. Without it the others fail, as the
run `stop_leaves_somebody` shows of what the comment promises. A `push_back` that
throws leaves a running thread on no list, which no `stop()` can reach.

`AsTested` is what the tests are: one thread runs them, `Faults` is empty (an exception
would end the test), and the sets of actors are finite, since a script that adds them
all has to end.

The only assumption is `ConstantsAssumption`: `Size` is a natural number,
producers, consumers and clients are different threads, and `Nobody` is none.
`ManagerAssumption` and `ShellAssumption` only type the constants of `Manager` and
`Shell`; no proof needs them.

The invariant `IInv` adds three facts to the properties. `HolderIsInside`: the
mutex is held by exactly the thread in a critical section, so at most one. `CallsMatch`: who
is where in which operation; only actors wait, so a notification finds every
sleeper. `EventIsPending`: a quit signal that was raised and not announced has a
`notify()` under way. `NoLostWakeup` then survives each step: a thread that goes
to sleep on a stale answer does so while the `notify()` is pending, and that
`notify()` cannot run its body before the sleeper has released the mutex; every
fill, emptying and stop wakes all sleepers in the same critical section that makes
their predicates true. `StepPreservesIInv` has one step per action.

The refinement maps `items` to the set of filled slots and a blocked call to one
between its failed test and its return. It needs `FilledPrefix` to know that an
index below the top means a slot is free (`WorkIsService`); `ScanFindsPrefix`
shows that the constructor's scan finds the index of a prefix.

For the threads, `ActorIInv` adds to `IInv`: a client has a target exactly while it
is in `stop()`, and no two have the same (`StopsMatch`); an actor's mutex is held
by its own thread exactly between a failed test in `rest()` and the wait, and by
the stopping client from raising the signal to announcing it on `stopCV_`
(`ActorHolder`); a thread is in the buffer only from within its loop (`InsideLoop`); it left with a
reason (`LeftWithReason`). `NoLostStop` is inductive only with `ActorHolder`:
`stop()` cannot raise the signal while a thread is between its test and its wait,
so a thread that is resting when the signal goes up will get the notification.

For a session, `ManagerIInv` says who is at which list: a mutex of a list is held by
exactly the client that is between locking and leaving that list (`HoldsItsList`), a
client is in `IBufferActor::stop` exactly while it removes the front of the list it
has locked (`StopsTheFront`), and one that is in no call is nowhere (`IdleNowhere`).
`ListedOnce` needs all of them: only the client that holds the mutex adds or
removes, so the actor whose thread was joined is still the front when the front is
erased. The same facts give that a client calls the buffer only when it is stopping
nobody, which is what `IActor` asks of it. For the deletion, `StopIInv` adds what
`stop()` has emptied by the time it is where it is (`StopInOrder`), that nobody else is
in a call meanwhile (`StopsAlone`), and that a client is inside the buffer only at the
steps that use it (`InTheBuffer`): the lists being empty, `ListedOnce` leaves no actor
running but the lost ones, and `InsideLoop` none of them in the buffer.

That `Manager` implements `Session` needs, besides, which call each step belongs to
(`StepsMatchJobs`). The mapping makes a crew empty from the moment its list is locked
by a `removeAll` or by `stop()`, and gives each client the lists its call has not come
to yet. `LockingTakesEffect` is then the instant at which such a call acts,
`AddingTakesEffect` and `RemovingTakesEffect` those of the others, and every other
step of the manager is shown to leave the crews, the calls and what is due as they
were (`StepTakesEffect`). `StopIsAlone` is needed where a call is made: `Session` lets
nobody call while `stop()` is called.

For the shell, `ShellIInv` says what the crews will be once the rest of the command
that is under way is done (`CarryingOut`): what is left of a batch, added to the crew, is
what the commands typed so far ask for. `CarriedOut` computes the latter by recursion
over the sequence of commands. The induction that its steps need
(`CarriedOutStepwise`) is made over sets of natural numbers (`SetInduction`, from the
well-foundedness of `<`), which needs no theorem with an operator parameter. That each
of the commands does what the menu says of it is `CommandsDoAsTheMenuSays`. For
`DiesHalfway` the shell is also shown never to have more calls to make than the batch
of the command that was typed last (`InABatch`): what the crew then lacks of what was
typed is at least one call and at most the batch (`FailureLeavesHalf`).

For the tests, the scripts are first shown to have the shape that the steps rely on: a
session is opened in the first line, closed in one other, and only looked at after it
(`ScriptsOpenAndClose`). `TestIInv` then ties the life of the session and the call that
is under way to the line (`LifeOfLine`, `CallOfLine`), and says why a poll is not stale
(`Undisturbed`): in the test that fills the buffer no consumer has been started, and
only a consumer moves the index down (`IndexMoves`), so an index that was seen at
`Size` is there when the items are looked at, and `FilledPrefix` says that all are
filled; in the test that empties it the other way round. That nothing is left is
`NothingOutlivesTheBuffer`.

Each inductive invariant was checked by TLC as an invariant of small instances before
it was proved.

Only model-checked: the liveness properties (`DismissedReturns`, `ServedOrOvertaken`,
`OthersReturn`, `StopReturns`, `BufferStopEndsThreads`, `BufferMoves`, `CallsReturn`,
`TestsEnd`, `QuitEndsShell`), because fairness is out of the prover's
reach. Every safety property and every refinement of a passing run is proved. The scan
of the constructor is defined by where it ends, not by recursion.

## What is not modelled

- A second `start()` without `stop()`, documented as undefined; calls before
  `start()` or after `stop()`; a `start()` that runs out of memory.
- Buffers with holes, which the constructor's comment excludes.
- How long anything takes: the elapsed time of `stop()` that one test measures, and
  the test of a fast producer among slow consumers (`test.cpp:131-147`), whose buffer
  fills up only because of the ratio of its delays.
- What happens after a use of the deleted buffer, or after an uncaught exception.
- Logging, the text of the menu, how valgrind counts leaks, the scripts.
- Third-party code: `pc/include/valgrind/` (7,467 of the 8,419 lines that the
  repository's sources have) holds the macros of valgrind's client requests, which do
  nothing outside valgrind, and `lib/` holds googletest. Headers of the program that
  only declare what is modelled from its definition are read, not mapped.

## Plan

What is left to prove are consequences of the refinements for the program as a whole:
that what `Promise` and `UsesTheBuffer` say of the buffer and the threads holds of
sessions and of tests, stated of `ManagerSpec` and `TestSpec`; and what an overlapping
`stop()` can leave behind at most.
