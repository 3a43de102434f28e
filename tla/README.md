# Specifications of data_structure

This directory specifies the parts of the repository in TLA+: the thread-safe
queues, semaphores and pools of `utilcxx/`, the double-array tries of `Trie/`,
the strings of `UnicodeString/`, configuration, singleton and helpers of
`base_utils/`, and what the repository's copy of spdlog does between a call and
a line in a file. TLC checks every module on small instances; TLAPS proves the
most important safety properties for all instances. `PROJECT.json` lists the
runs, the source lines each definition stands for, a mutation for each property,
the hazards and the theorems.

## The system

| component | source | state | operations |
|---|---|---|---|
| semaphores | `utilcxx/semaphore.h` | a counter; a mutex and a condition variable; `FastSemaphore` has an atomic counter in front of a `Semaphore` | `post`, `post(n)`, `wait`, `wait_for`, `wait_until` |
| blocking queue | `utilcxx/queue_c11.h`, `queue.h` | a `std::queue`, mutex, condition variable, `m_done` | `push`, `try_push`, `pop`, `try_pop`, `done`, `empty`, `size` |
| fixed blocking queue | same files | ring of raw memory, two indices, a count, a mutex, a semaphore of free slots and one of full slots | `push`, `try_push`, `pop`, `try_pop`, destructor |
| atomic blocking queue | same files | the same ring with atomic indices and count and no mutex | same |
| simple thread pool | `utilcxx/pool.h`, `pool_c11.h` | one blocking queue, workers | constructor, `enqueue_work`, `enqueue_task`, destructor |
| thread pool | same files | one blocking queue per worker, an atomic round-robin index | same; workers take from each other's queues |
| double array | `Trie/darts.h` | `base` and `check` arrays, sizes, `error_` | `build` (`fetch`, `insert`), `clear`, `open`, `save`, `save_dart`, `load_dart`, five searches |
| string dictionary | `Trie/trie_darts.h`, `str_darts.h` | a list of words, the double array over it | `init`, `insert`, `build`, `clear`, `save`, `load`, searches over tokens |
| unicode strings | `UnicodeString/` | UTF-8 bytes, cached length, cached cursor | assignment, `strip`, `split`, `find`, `replace`, `substr`, indexing |
| configuration | `base_utils/INIReader.h`, `config_reader.h` | the values of an INI file, one object per section | `load_conf`, `operator[]`, getters |
| singleton | `base_utils/singleton.h` | one pointer and a mutex | `instance` |
| helpers | `base_utils/base_utils.*` | none | splitting, joining, trimming, widths, comments |
| logging macros | `Logger/*.h`, `log_base.cc` | the default logger of spdlog | level, file, stderr |
| asynchronous logging | `spdlog/async*.h`, `details/thread_pool`, `mpmc_blocking_q.h`, `circular_q.h` | a bounded queue of messages with two condition variables, workers | posting with either overflow policy, flushing, destruction |
| loggers and registry | `logger-inl.h`, `details/registry-inl.h`, `backtracer-inl.h`, `cfg/` | a map of loggers, global settings, backtraces | create, register, drop, set, load levels, shut down |
| sinks | `sinks/`, `details/file_helper`, `tcp_client*` | open files and their names, a counter of duplicates, a ring, a connection | `log`, rotation, reconnection |
| patterns | `pattern_formatter-inl.h` | compiled flags, cached date and zone | `format`, `clone`, `set_pattern`, `add_flag` |
| fmt | `fmt/bundled/` | none | `vformat_to` |

The queues are built on the semaphores, the pools on the blocking queue: a
thread that calls one is inside the other. `StrDarts` derives from `TrieDarts`,
which owns a `DoubleArrayImpl` and is the only caller of its `load_dart`. The
logging macros are called from everywhere and call nothing back. A logger
formats its text with fmt and gives the message to its sinks in turn, each of
which makes a line of it with a pattern; an asynchronous one gives it to a pool
whose workers do that. `circular_q` is the queue of that pool, the ring of a
backtrace, of a ring-buffer sink and of a daily sink's file names.

What is hard in this code is the order of steps of several threads: between a
critical section and the notification after it, between the semaphore and the
ring it guards, between two atomic operations, between a worker's last look
and its sleep, and while a destructor closes what others still use. In the
tries it is arithmetic: where a family of children is put, when the arrays
grow, what a search may read. In strings and configuration it is what was
cached or remembered from the call before, in the sinks what an exception
leaves half done. The components are correct when

- no wakeup is lost and nobody is left asleep beside what he waits for;
- a queue is a FIFO, bounded or not, whatever the interleaving, and conserves
  its slots through exceptions and destruction;
- a pool runs every task once and its destructor waits for all of them;
- a trie answers as a search of the list of its keys, and is only built from
  lists it can represent;
- a string answers as its text, and a configuration as its last good file;
- of what is logged nothing is lost but what a policy says, and every such loss
  is counted; files keep the latest messages in order.

## The modules

Abstract specifications say what a component promises its callers, without its
locks or arrays; the detailed ones are shown to implement them, and components
that use one another are composed through them.

| abstract | implemented by | used in |
|---|---|---|
| `AbstractSemaphore` | `Semaphore`, `FastSemaphore` | `FastSemaphore` (its inner semaphore), `FixedBlockingQueue`, `AtomicBlockingQueue` |
| `AbstractQueue` | `BlockingQueue` | `SimpleThreadPool` |
| `BoundedFifo` | `FixedBlockingQueue`, `AtomicBlockingQueue` (one producer, one consumer) | |
| `AbstractPool` | `SimpleThreadPool`, `ThreadPool` | |
| `AbstractAsyncLog` | `AsyncLogging` | |
| `Dictionary` (operators on a list of keys) | `Darts` | `StrDarts` |
| `CircularQ` (operators on a ring) | | `AsyncLogging`, `Registry`, `DailyFiles`, `FilterSinks` |

In the concurrent modules `pc[t]` is the place of thread `t` between two steps.
A step is a critical section, an access to an atomic, the call of a semaphore,
or a notification. A critical section is one step where no method tries the
mutex (`Semaphore`, `FixedBlockingQueue`, `AsyncLogging`). `BlockingQueue` and
`ThreadPool` have the mutex as a variable (`owner`, `holder`), because
`try_push` and `try_pop` fail when somebody has it, and this decides which queue
a task goes to.

- `Semaphore`: `Post`, `PostN`, then `NotifyOne`, `NotifyAll`; `WaitCall`,
  `WaitForCall`, then `Take` or `Block`, `Expire` and `Fail`. Waking for no
  reason is `Spurious`.
- `FastSemaphore`: `FastPost` and `Decrement` are the `fetch_add` and `fetch_sub`,
  `PostInner` and `WakeUp` the calls of the inner semaphore after them.
- `BlockingQueue`: `PushCall` and `Call` enter; `Lock`, `TryPush`, `TryPop`,
  `TryFails` are the ways a mutex is taken or not; `Insert`, `Take`, `Block`,
  `PopFails`, `TryPopFails`, `Close`, `Look` are the critical sections.
- `FixedBlockingQueue`: `GetOpen`, `FixedInsert` or `PushThrows`, `PostFull` are the
  three steps of a push, `GetFull`, `Remove` or `PopThrows`, `PostOpen` those of
  a pop. `Destroy` is the destructor.
- `AtomicBlockingQueue`: `FetchAdd`, `Construct` or `MoveOut`, `Count`, then
  `Load`, `Desire`, `Swap` or `SwapFails` of the compare-exchange loop.
- `SimpleThreadPool`, `ThreadPool`: `Submit` and what follows it for clients and
  running tasks, the loop of a worker, `CallDone`/`CloseCall` to `Join` of the
  destructor. A task may submit others (`Parent`).
- `Darts`: `Build` starts; the calls of `insert()` that have not returned are
  `stack`. `ProbeTaken` and `ProbeFree` are one turn of its `while (true)`,
  `ProbeCores` the turn that grows by a division by 0, `Descend`, `InsertLeaf`
  and `Return` the loop over the children, `Finish` the rest of `build()`. Units
  that were never written are 0 and are not in `base` or `check`. One object
  builds list after list: `job` is the one it holds, and `refused`, no variable of
  the code, remembers that one failed, since `clear()` keeps `error_`. Lists that
  repeat a key are built. The searches are operators of the state.
- `StrDarts`: one action per operation; `array` is what `_array` was built from,
  and its answers are those of `Dictionary`, which `DartsIsADictionary` shows.
  `inits` counts the calls of `init()` on words that were there; it is no
  variable of the code.
- `UnicodeChar`: five bytes; `FromInt`, `FromText`, `SetText`, `Add`. `want` is
  the code the character was set to. `UnicodeString`: one record for the object
  (text, capacity, cached length, cursor); every call of the class is an action
  on it, and a property compares what it answers with the text alone.
- `IniConfig`: `ReadLine` is a turn of the loop of `ini_parse_stream`, with
  section and previous name as the reader's state, `load_conf` takes over a file
  that is read, `OpenFails` one that is not. `operator[]` of a section
  that is not there ends the process, so it is no action. What the lines of the
  file say is defined a second time for the property, from the lines alone and with
  no state of a parser (`Gives`, `Continues`, `ValueOf`).
- `Singleton`: the test outside the mutex, the mutex, the test inside, and the
  two writes of the construction in either order.
- `TextHelpers`: `Split` and `Rest` are the loop of `string_split`; the others
  are operators that a property composes.
- `AsyncLogging`: `Post` leads a producer into the queue (`Enqueue`,
  `WaitForRoom`, `NotifyPush`), a worker takes (`Dequeue`, `WaitForItem`,
  `NotifyPop`) and works through its sinks (`SinkLog`, `SinkFlush`); `Release`
  gives up a reference, `PostTerminate` and `Join` are the destructor, which the
  last one runs.
- `Registry`: one action per function of the registry and of a logger. A logger is
  a record with the name of its sink, and `formatters` has the formatter of each
  sink: `Clone` copies the record, so that a clone shares the sink, and
  `SetFormatterOf` changes the formatter of all that share it. `since`
  (what a backtrace has been given), `inTouch` (loggers whose settings are
  the registry's) and `renamed` are no variables of the code. `LogLevels` is the
  reading of `SPDLOG_LEVEL`.
- `RotatingFiles`, `DailyFiles`: `LogHere`/`Log` write to the open file,
  `LogRotating` rotates first, with every rename, removal and opening failing or
  not; `Construct` finds the files that `Destruct` has left. That of the daily sink
  looks at the clock three times, with time passing between; `missed` counts the
  file that its queue of names does not get when it is midnight then.
- `FilterSinks`: `Skip`, `Forward`, `ForwardThrows`, and the changes of the
  sinks below. `TcpSink`: a step is an answer of the network. `ConsoleSinks` with
  `PatternFormatter`: a character of a line is marked with the flag and the
  moment it comes from. `FmtFormat`: the two loops of `parse_format_string` over
  all strings of a few pieces of syntax.

`queue_c11.h` and `queue.h`, `pool_c11.h` and `pool.h` are the same code under
other names; a module stands for both.

## The runs

A run of a class with a small interface names the module itself and a
configuration `MC_*.cfg`; the others have an `MC_` module for what a
configuration cannot say. `MC_Utilcxx`, `MC_Libraries` and `Logging` join modules that do
not interact: `which` chooses one in each behaviour, so that a state space is
the sum of theirs and not the product. The names of `FastSemaphore` and
`FixedBlockingQueue` begin with `Fast` and `Fixed` where the classes beside which
they are proved have the same.

| run | instance | shows |
|---|---|---|
| `utilcxx` | semaphore: 3 threads, posts of 1 or 2, up to 3 tokens | `NoLostWakeup`, `NobodyStranded`, implements `AbstractSemaphore` |
| | fast semaphore: 4 threads, up to 2 tokens | `CountMeaning` (the comment of `semaphore.h:97`), implements `AbstractSemaphore` |
| | simple pool: 2 workers, 2 clients, 3 tasks | `AllRunWhenDestroyed`, implements `AbstractPool` |
| `blocking_queue` | 3 threads, 2 items | `NoLostWakeup`, implements `AbstractQueue`, so `done()` releases every `pop()` (`ReadMe.org:55`) |
| `fixed_queue` | 3 threads, 2 items, 2 slots | `SlotsConserved`, `NoOverwrite`, implements `BoundedFifo` |
| `atomic_queue` | 1 producer, 1 consumer, 2 items, 2 slots | `NeverPopsRaw`, `NothingLeaks`, implements `BoundedFifo` |
| `atomic_two_producers` | 2 producers, 1 consumer | `NeverPopsRaw` is violated |
| `thread_pool` | 2 workers, 1 client, 3 tasks, 2 rounds | `NoTaskAbandoned`, implements `AbstractPool` |
| `async_logging` | 2 producers, 1 or 2 workers, a queue of 2, a sink that throws and one that takes no debug messages | `NobodySleepsInVain`, `LossesAreCounted`, `OrderKept`, `FlushCovers`, implements `AbstractAsyncLog` |
| `darts_late_leaf` | 2 lists | `NeverCores` is violated |
| `libraries` | see below | `DartsIsADictionary`, `DartsStaysInside`, `BuildReturns`, `WordsAreFound`, `CharIsItsCode`, `StringIsItsText`, `ConfigurationIsTheFile`, `ArrayGrowsByLine`, `FormatsAgree`, `HelpersAgree`, `OneObject` |
| `logging` | see below | `RegistryAgrees`, `RotatingKeepsLatest`, `DailyRetains`, `LinesFollowThePattern`, `ColoursAreOwn`, `FiltersAccount`, `TcpIsWhole` |
| `daily_midnight` | the instance of `logging` | `OnlyTheLastRemain` is violated |
| `dup_example` | the instance of `logging` | `TheExampleSkipsThree` is violated |

A run that checks a contract checks it with its liveness. Where a property of a
joined run begins with a type invariant, that is the invariant of the module.

The bounds. Three threads let a third one come between a critical section and
its notification, which is what loses wakeups; `FastSemaphore` has four, so that
two sleep while two post. Each thread may take any role. Two items tell orders
apart. Two slots wrap the ring and are full with an item still waiting. Two
workers with two rounds give each the other's queue to look at twice. `MaxLen`,
`MaxCount`, `MaxPost` and `MaxWords` stop callers, not the code. `Wrap` is 2^32 in
the code and 3 here: no multiple of the number of workers, which makes the
sequence of queues jump at the wrap; 2^32 has this effect for every number of
workers that is no power of two.

The double array has lists of words over two letters, with the ends of words:
all lists of up to three words of up to two letters, ordered or not and with
repetitions, lists with values (negative ones included) and chains long enough
to grow the arrays from either end. An object builds any of them after any other,
with `clear()` between; while a file of a list is there, only that list is built
again. `Width` is 256 and `Initial` 8192 in the code,
2 and 60 here; a ratio of 20 at least is what the growth by 5% relies on. The
string dictionary has four words and up to three of them; `StartSize` is 30 in
the code. A `UnicodeChar` is set to the codes on both sides of each boundary of
length, and to the things next to them that are no characters. A `UnicodeString`
of up to three characters of one, two and three bytes has a short buffer of four
bytes, so that it moves to the heap and back. A configuration is read twice, from
files of up to three lines of twelve kinds, with names as long as the buffer.
`fmt` gets every string of up to four of its pieces and three lists of
arguments. The helpers get all texts of up to four of eight characters. Three
threads call the singleton twice.

The registry has a default logger and two of one name, and up to four calls:
enough to register, drop, replace and set in every order. Three rotated files
with messages below, at and above the size, and two failures, show a rotation
that fails after part of it is done. The daily sink keeps two files over four
days with one failure, messages that are late by half a day and a clock that goes
on by any number of half days between two looks of the constructor. The patterns are
all of up to three characters of the syntax, and every flag with every kind of
padding next to text; the clock stands before and after midnight, where names,
days and the zone change, and messages come late. The TCP client has two
addresses and messages in three parts. The asynchronous pool has a queue of two
places (8192 by default) and two messages of each producer, which fill it; one has
the level `off`, which reaches a sink and does not flush it.

Deadlock is not checked where threads may legitimately wait for ever: in a
`pop()` or `wait()` that nobody will answer, or after a destructor has run; nor
in the joined runs, where calls and messages are bounded.

### Fairness

- A thread that can take its next step is run in the end: weak fairness of the
  steps a thread takes by itself. This is the scheduler of the operating system.
- A thread that waits for a mutex gets it if it is free again and again: strong
  fairness of `Lock`. `std::mutex` does not promise it formally, but
  implementations let no thread starve for ever, and without it no property of
  a queue under load could hold. The same is assumed of a compare-exchange that
  is retried (`Swap`), and of a deadline that comes again and again (`Expire` of
  the semaphore).
- A token of a semaphore does not stay while somebody waits for it: weak
  fairness of *some* thread's acquisition, not of each. It is what the run
  `utilcxx` shows of the classes.
- No fairness is assumed of callers: nobody has to push, post, submit or log.
- Every task of a pool and every call of a sink ends. `build()` is one thread
  that runs on. The ten seconds after which an idle worker of the logging pool
  looks again are not relied on.

## Findings

1. `AtomicBlockingQueue` is no queue for several producers. The one whose
   `fetch_add` (`queue_c11.h:599`) came second may construct its item and post
   `m_fullSlots` first; a consumer then moves out of the first one's slot, which
   is raw memory. `ReadMe.org:77` presents the class as about the same as
   `fixed_blocking_queue`. Two consumers have the mirror image of it
   (`queue_c11.h:675`). With one producer and one consumer the class is right.
2. The double array divides by zero. `insert()` grows the arrays by
   `key_size_ / progress_` (`darts.h:167`), and `progress_` counts the keys that
   are complete. A long first key whose prefixes have many siblings fills the
   8192 units before it is complete. The comment at `darts.h:164-166` considers
   this and holds it to be impossible. A list with the word of 100 letters `a`,
   and each of its shorter prefixes followed by each of 158 other bytes, does it.
3. A daily sink that is made at midnight keeps a file too many. Its constructor
   looks at the clock for the name of the file it opens (`daily_file_sink.h:62`) and
   again for the files there are (`daily_file_sink.h:113`), where it goes back from
   that day as long as there is a file. If midnight comes between the two, the new
   day has no file and the search ends at once: the file that was just opened is
   never in `filenames_q_` and never deleted. The comment (`daily_file_sink.h:42`)
   has only the last `max_files` retained. `DailyRetains`, which the run `logging`
   checks and `LatestDaysAreRetained` proves, says what the code does keep to: this is
   the only file more (`missed`), beside those that could not be removed or opened.
4. The example in the header of the duplicate filter (`dup_filter_sink.h:26-33`) logs
   `Hello` three times and shows a note of 3 duplicates. The first of them is shown
   and only the others are counted (`dup_filter_sink.h:58`): the note says 2.
   `FiltersAccount` counts as the code does, so that each message is either shown or
   in a note.

Noticed while modelling, and in the models where they concern state, but not
runs of their own:

- Pools: a task given to `enqueue_work` that throws, or a thread that cannot be
  created (`pool.h:29,34`), ends the process; the task is used before it is
  tested for null (`pool_c11.h:39`).
- Tries: `clear()` keeps `error_` (`darts.h:259`), so that every build after a failed
  one returns the old error, and the words of `StrDarts`; lists that repeat a key
  are built, although `Trie.org:15` asks for lists without repetition and the message
  at `trie_darts.h:110` holds repeated keys for the cause of a failure; a
  second `init()` numbers words from 0 again (`str_darts.h:31`); `isMatch` tests
  `_is_build` the wrong way round (`str_darts.h:93`, operator `isMatch`);
  `match_token` may return an index inside which no word ends
  (`str_darts.h:140`); `allPrefixSearch` reallocates to too few bytes
  (`str_darts.h:130`); a second `build()` after a failed one copies from null
  (`trie_darts.h:102`).
- Strings: `set_char` writes its 0 one byte too far (`unicode_char.cpp:94`);
  replacing the empty string never ends, and `replace` counts its plain-string
  arguments in bytes; `string_split` by an empty delimiter never ends
  (`base_utils.cpp:60`); the comments of `Q2B` and `B2Q` are exchanged
  (`base_utils.h:86-89`).
- Configuration: after a load that fails `m_reader` is null and `Get` goes
  through it; sections of earlier files stay (`config_reader.h:140-159`);
  names longer than the buffer are cut (`INIReader.h:257`).
- spdlog: `set_level` leaves `log_levels_`, so a logger made later may have
  another level; after `drop` of the default logger the calls without a logger
  go through null; `LOG_TO_STDERR` throws the second time (`log_spd.h:40`);
  `swap` exchanges names that the registry's map keeps. A clone shares the sinks of
  its original, and `set_formatter` of the clone changes the formatter of both
  (`logger-inl.h:84-99,158-163`). The note of a duplicate
  filter is written twice when a sink below throws after it. A daily sink that
  rotates at another time than midnight may queue a file's name twice and delete
  the file in use. On Windows the first address that refuses ends Winsock, and
  the other addresses get no socket. A padded `%D` or `%c` claims another size
  than it writes, and truncation then cuts the text before it. `%I` shows 00 at
  midnight.
- fmt: the zero flag overwrites only the first byte of a fill
  (`format.h:2122`); `c` of an integer ignores the width (`format.h:1608`).

## The proofs

TLAPS checks the following for all values of the constants that meet the
`ASSUME`s of the modules: finite sets of threads, a ring of at least one slot,
at least one queue and one round in the thread pool, at least one token to a
post of the semaphore, items different from the marks for no item and no object.
`LoggingAssumption` says what the constants of the synchronous logging are: a name
for each logger, levels between `trace` and `off`, sizes of files and messages that are
numbers, a filter's duration that passes before the clock's last moment, payloads
different from the mark of an unused slot, TCP messages of at least one part, at least
one daily file that is kept.
(The theorems about the atomic queue with one thread on each side name what they
need as a hypothesis instead.)

| module | theorems |
|---|---|
| `SemaphoreProofs` | of `Semaphore` `TypeCorrect`, `NoWakeupIsLost`, `RefinesSemaphore`; of `FastSemaphore` `FastTypeCorrect`, `CountMeansSleepers`, `FastRefinesSemaphore`; of `SimpleThreadPool` `SimpleTypeCorrect`, `AllAreRun`, `PoolStepsImplement` |
| `BlockingQueueProofs` | of `BlockingQueue` `TypeCorrect`, `NoWakeupIsLost`, `IsAFifo`; of `FixedBlockingQueue` `FixedTypeCorrect`, `SlotsAreConserved`, `RingIsConsistent`, `NothingIsLeaked`, `NothingIsOverwritten`, `IsABoundedFifo` |
| `ThreadPoolProofs` | `TypeCorrect`, `QueuesAreLocked`, `NoneAbandoned`, `AllAreRun`, `PoolStepsImplement` |
| `LockFreeProofs` | of the atomic queue with one producer and one consumer `PopsItems`, `NothingIsLeaked`, `NeverAtOneSlot`, `OneEachIsABoundedFifo`; of the singleton `AllGetOneObject` |
| `CircularQProofs` | `PushAppends`, `PopTakesOldest` |
| `AsyncLoggingProofs` | `NobodySleeps`, `LossesCounted`, `OrderIsKept`, `FlushesCover`, `IsAnAsyncLog` |
| `LoggingProofs`, with the lemmas of `SinkProofs` | of the registry `RegistryIsConsistent`, of the rotating files `RotatedFilesAreTheLatest`, of the daily files `LatestDaysAreRetained`, of the filtering sinks `FilteredMessagesAreToldOf`, of the TCP sink `TcpStreamsAreWhole` |

`NoLostWakeup` of the semaphore and of the blocking queue is inductive with the
type invariant: while a thread sleeps, every token (item) is matched by a
notification to come or by a thread about to test. Each action moves one thread
from one group to another; the proof follows the sizes of the groups. For
`CountMeaning` the same counting is done in four lemmas, one per action. The
refinements map a step to the step of the contract that its thread takes then,
or to none; for the blocking queue the linearization points are the critical
sections.

In the ring none of the properties is inductive alone. `IInv` joins the types,
`SlotsConserved`, `RingConsistent` and `Quiet` (a destroyed queue has no caller).
That a push finds its slot raw needs the conservation of slots (`RoomToPush`: a
thread before its critical section holds a slot, so the count is below the
size) and the shape of the ring; that the shape survives needs the former. The
arithmetic modulo `Size` is stated once, in `ModSmall` to `WindowVisited`. With
the same invariant `IsABoundedFifo` reads the abstract queue off the ring: its
contents are the occupied slots from the pop index on, so constructing at the
push index appends and moving out of the pop index takes the head; `CallAt` tells
the abstract call of a thread from its place. A copy that throws is a call that
leaves without effect.

In the simple pool a task is in at most one place - being pushed, in the queue,
or with a worker - and in one of them or finished exactly if it was submitted
(`OnePlace`, `Accounted`). `Closing` says that workers leave only a closed and
empty queue, not all of them before it is empty; so when the destructor has
joined them, what was submitted has been run. The same invariant makes each step
a step of `AbstractPool`, with `StatusOf` as the status of a task.

In the thread pool a worker may leave while tasks are still put into its queue,
and the workers that look for them there may find its mutex taken and go on.
`Covered` says that a queue of a worker who has left is either empty or still
before some worker (`Sees`): on its way there in its rounds, or in a task after
which it starts again. It is inductive because whoever holds a mutex in the way
of a `try_pop` is itself still to look, which needs `Mutexes` (who holds what),
`Roles` and `Counters` (where in its round a thread can be) and `Closed` (a
worker leaves only after the owner's `done()`). `Told` is the same for a worker
that sleeps: somebody is about to notify its queue.

The places of a task (`TasksInv`) are those of the simple pool, with the queues of
all workers taken together: what one queue holds no other queue, worker or client
has. Most steps move no task (`Kinds`, `Calm`); the four that do (`Submit`,
`Insert`, `Take`, `Finish`) have a lemma each. Workers do not come back (`Gone`),
and by `Covered` the queues they all leave are empty: hence `AllAreRun`, and, with
`StatusOf`, every step is one of `AbstractPool`.

`LockFreeProofs` holds what is proved where no lock is taken. For the atomic queue
the hypothesis `OneEach(p, c)` names its one producer and its one consumer; more
producers are not excluded by the code, and then the theorems are false, which
the run `atomic_two_producers` shows. `IInv` says

- what an index may be (`IndexOf`): only its own thread moves it, so between the
  `fetch_add` and the compare-and-swap it is one more than the thread's local, may
  be `m_size`, and the swap that succeeds puts in that value reduced. This is
  why the loads between the two never see another thread's work;
- that the items are a window (`Ring`): it begins at the consumer's slot (`Front`),
  ends before the producer's (`Back`), and its `Length` is `m_count` put right by
  the threads that have moved an item and not counted it yet;
- that each slot is a token of `m_openSlots`, one of `m_fullSlots`, or with a
  thread on its way (`Tokens`). So a producer at its slot has room and a consumer
  an item (`RoomAndItem`), hence they never meet.

The refinement maps the window to the abstract queue (`ReadsTheRing`: the number of
slots that hold an object is the length of the window, so the mapping, which looks
at the slots only, reads it from the front). `Construct` appends and `MoveOut` takes
the head; all work on indices and counts before and after is a stutter.

The singleton needs that of two threads at most one is past the second test
(`Mutex`, `Making`) and what each thread knows by its place (`Known`).

`CircularQProofs` is about the ring of `circular_q.h`: that `push_back` and
`pop_front` do to its contents what they do to a sequence, for any capacity. In
`AsyncLoggingProofs` the queue is a sequence on top of it (`Line`). The invariant of
the pool follows a message from its producer to the sinks:

- `Roles` says what a thread may be doing and what it has in its hands then;
  `Life`, who has a reference to the pool in each phase; `Quiet`, that nobody has
  sent `terminate` before the destructor runs.
- `Ending`: the `terminate` messages are at the end of the queue, behind every
  log message, and once a worker has one there are only those. Without it a push
  that overruns could drop one of them, or a worker leave messages behind.
- `Passage`: a message is in one place only, and those of one producer are in the
  queue, with the workers and handled in the order of posting. It gives
  `LossesAreCounted` (`Counted`): what is dropped was a message that no other
  place holds, so `Lost` grows by one exactly when the ring counts one.
- `NoLostWakeup` counts as it does for the blocking queue, on both condition
  variables.
- `Outputs`: what a sink has written is handled or with the worker that is past
  this sink, and what a sound sink wants has been written by then. `Single` says
  what one worker adds: it handles the messages of a producer in order, each sink
  has them in order, and a flush that was handled covers what came before it.

`IsAnAsyncLog` uses the same invariant for every step under the refinement mapping
of `AsyncLogging` (`Asking`, `Busy`, `Pending`, `Overruns`, `Stage`): a worker's
critical section in `dequeue_for` is where the abstract log takes a request, the
producer's critical section is where it is asked, and `Finish` is where it is done.

`LoggingProofs` is about `LoggingSpec`, which runs one of six components: an
invariant `which = "..." => ...` for each, so that a step of one is none of the
others (`LoggingKeeps`).

- The registry. `RegInv` says what is in the map and what a logger object is
  (`Held`, `Objects`: a ring of the capacity it was enabled with, whose contents
  are the last messages since), that loggers yet to be made are fresh (`Fresh`),
  that names and map agree while no logger was renamed by `swap` (`Named`), and, for
  `GlobalSettingsReach`, that a registered logger which nobody set has the
  registry's settings (`Given`) and its sink the registry's formatter (`Formatted`).
  The objects (`LoggersInv`, `LoggersKeep`) and the sinks have lemmas apart. For the
  sinks it matters that whoever sets a formatter takes all that share the sink out
  of touch, or gives them the registry's (`GivenSinks`), and that a clone, which has the
  sink of its original (`ClonedSinks`), is not in touch before it is registered and
  given the formatter. Most calls change one logger (`OneLogger`) or all that
  are in the map (`AllLoggers`). That a backtrace is the last messages rests on
  `PushAppends` and on `LastOfAppend`.
- `TcpSink`, with any number of addresses, and both clients. `TcpInv` says where
  the sink is (`Stages`), which sockets are open and whether Winsock is started
  (`Opened`), that each wire is parts one after the other (`Chained`), that the wire
  of the present connection ends with a whole message or with exactly what is sent
  of the current one (`Ends`), and that no other connection has a part of the
  current message (`Origins`). So a send continues or begins a message rightly
  (`Extends`), and one that fails has told its error before its parts can be taken
  for a whole message (`NotWhole`, `ThrowStep`).

- `RotatingFiles`, with any number of files and any lengths (in `SinkProofs`). `RotInv` says that the
  files are `Arranged` (each in order, and those of a lower index later), what the
  sink knows of them (`Known`: an open file is at most as long as `current_size_`, and
  with none open the next message rotates first) and, while nothing failed, that
  they hold a final part of what was sent (`Retained`). What the loop of `rotate_()`
  leaves behind after any number of renames has a closed form, `Shifted`
  (`RenamedIsShifted`), and it moves no file past another (`ShiftedArranged`), so
  a rotation may fail at any step. The loop and the lengths are recursive
  functions over a finite index: `RecursionExists` and `Together`, from the well-founded
  order of the naturals, give that such a function exists and is the only one.
- `DailyFiles`, with any number of files and days (in `SinkProofs`). `DayInv` is the
  types (`DayState`) and, for a sink that rotates at midnight, `Midnight`: the names
  in the queue rise, are of files that are there and of days before the next
  rotation (`Queued`, kept by `QueueMoves`), so no name is in it twice and a file in use is
  not removed; the days that were opened are its end (`EndsWith`, `EndMoves`); and
  files it has let go of that are still there are no more than the failures
  and the file that the constructor missed (`FewLeft`, `LeftMoves`). A file that was
  missed is the first that was opened (`DaysNoted`), of a day that is over, and no
  name of it gets into the queue later (`MissedStays`). `PushedIs` says what the names found at the start make
  of the queue, as a recursive function over them. At another rotation time the
  property is false, as the comment of `DailyRetains` says, and not claimed.
- `FilterSinks`, with any payloads, durations and ring sizes (in `SinkProofs`).
  `FilterInv` says that one sink, the keeper, stays in the list whatever is added
  and removed (`OneKeeper`, `KeeperIsLeft`), that the ring holds the last of what it
  was given (`Belows`, `RingPushed`) and, while nothing was thrown, the `Account`:
  what the filter remembers is the last message that was forwarded, what the keeper
  was told and the present count of duplicates make up what was logged, and
  between two messages there are only notes. `DeliveredIs` and `KeeperGets` are
  about the loop over the sinks, `ToldAppend` about the sum over the notes, again
  by `RecursionExists`.

Only model-checked: all liveness (that of `ImplementsAsyncLog` included), the tries,
the strings and the configuration, and the patterns. The prover cannot treat liveness under fairness. Induction over a
counter can be done as above, for one fixed set at a time; the searches of the
trie and the loops of the parsers, some of them RECURSIVE operators over strings,
would need it for each of their cases, and stay with TLC.

## Not modelled

- The memory model: atomics are sequentially consistent. `FastSemaphore`'s
  release and acquire are enough for the order that the models rely on. (The
  singleton, which has no atomics, does have both orders of its two writes.)
- Threads that cannot be created and tasks that throw through `enqueue_work`:
  both end the process.
- `set_array`, `build()` on an array that is still there, damaged files, and the
  constructors and inserts of `TrieDarts` that `StrDarts` hides.
- `UnicodeString`: text cut in the middle of a character (the code walks past
  its end), replacing the empty string, a string assigned a part of itself, and
  the conversions of whole strings to wide characters.
- A copy or assignment of an item that throws under the mutex of `BlockingQueue`
  (`queue_c11.h:34,89`). (For the two rings it is modelled.)
- A short `fwrite`, which throws (`file_helper-inl.h:76-79`), and, in a rotation, a
  `remove` that fails together with the rename.
- `INIReader`: `GetInteger`, `GetReal`, `GetBoolean` (`strtol` and the like), and
  lines longer than 199 characters, which `fgets` splits.
- The directory functions of `base_utils`, `time_cost.h`, `ascii_escape_code.h`,
  the output of `log_trival.h` and `log_base`: file system, clock and terminal.
- spdlog: callbacks of `apply_all` that enter the registry again (its mutex is
  not recursive), the sinks for syslog, systemd, Android and the Windows event
  log (one call of the system each, without state), `set_color_mode`, which
  writes what other threads read without the mutex.
- fmt: floating point, pointers, user types, locales, `printf.h`, `chrono.h`,
  `compile.h`. They compute text and keep no state.

## Plan

Done, in this order: semaphores, blocking queue, the two rings, the pools, the
double array, the string dictionary; then strings, configuration, singleton and
helpers, asynchronous logging, registry, sinks, patterns and fmt; proofs of the
semaphores, queues (the atomic one for one producer and one consumer) and pools, of
the singleton, of the ring of `circular_q`, of asynchronous logging, the registry,
the rotating and the daily files, the filtering and the TCP sinks, with the refinements of those that
have an abstract specification.

What would come next: the invariant of `Darts`, that families stay inside the
arrays.
