# AppIO in TLA+

AppIO is a header-only C++ library (`src/AppIO/`) for small Linux programs: an
event loop, a configuration file, timers, and typed publishers and subscribers
over ZeroMQ, with a Lua binding (`src/bindings/lua/`). This directory holds
TLA+ models of it, the TLC runs that check them and the proofs TLAPS checks.

    tlc -workers 2 -config config_faults.cfg MCConfig.tla     # any run below
    tlapm Config_proofs.tla                                   # any *_proofs.tla

## 1. The system

| component | state it keeps | operations | whom it meets |
|---|---|---|---|
| `AppIO` (AppIO.hpp) | one `io_context`, the signal set, names, `_destructFunctions` | `instance`, `initialize`, `run`, `stop`, `addDestructor` | everyone: it runs all handlers and calls all destructor functions |
| `Config` (Config.hpp) | `*_config` (JSON), `_out`, `_pendingWrite`, `_self`; `config.json` on disk | `get`, `data`, `insert`, `restructure`, `commit`, the write's handler | couriers insert and commit in their constructors; users edit the file |
| `Timer` (Timer.hpp) | `_timer` (asio), `_self`, the callback | `createSingleShot`, `createInterval`, `cancel`, the wait's handler | its owner; `stop()` through the destructor it registers |
| `MessageCourier` | `_lastState`, `_typeName`, `_address` | base of the next two | |
| `Publisher` | a PUB socket | the constructor (enters itself in Config, binds), `send` | ZeroMQ |
| `Subscriber` | a SUB socket, `_buf`, `_subscriberDestructing` | the constructor (enters itself in Config, connects), `setCallback`, `onCallback` | ZeroMQ; a callback of the application; `stop()` |
| Lua binding | a Lua table made from the configuration at start | wraps the above; `commit` restructures from that table | Config, Timer |
| JSON conversions | none | `luaObjectToJson`, `jsonToLuaObject` | Lua binding |

There is one thread. Everything after start-up happens in handlers that
`run()` takes from asio's queue one at a time, so "concurrency" here is the order
of handlers, and what callbacks do in the middle of one. Six behaviours are
hard, and hardly touched by any test (the repository has examples, no tests):

1. **A write that is out while more is committed, and the end of the process
   around it** (Config). The file is overwritten in place, not replaced.
2. **Lifetime.** Handlers, callbacks and destructor functions hold a raw `this`;
   what keeps the object alive is a `shared_ptr` to itself that several paths
   reset (Timer, Subscriber, Config).
3. **A configuration that outlives the process and is written by two hands**:
   constructors and a user (Couriers).
4. **Delivery over PUB/SUB**, with silent loss, restarts of either side, a
   receiver that may stop listening for good, and several chains of receives on
   one buffer (PubSub).
5. **`stop()`**, which may come from inside a callback, any number of times, and
   calls functions that hold objects by a raw `this`, in the order those
   registered, freeing others on the way (AppIO).
6. **Two processes of one name** on one config.json, with nothing to lock it
   (SharedConfig), and **a second representation** of the configuration, a Lua
   table, behind conversions that are not inverse to each other (Lua).

`PROJECT.json` lists the hazards line by line, with the properties that cover
each, or why none does yet.

What makes each component correct:

- Config: a commit is written or overtaken by a later one; the file can always
  be loaded again unless a write was cut short; nothing is written that was not
  committed.
- Timer: the object is alive when its handler, callback or destructor function
  uses it; it fires until cancelled or stopped; it does not fire after; nothing is
  leaked.
- Publisher, Subscriber: what a user wrote for a subscriber survives and is
  used; a subscriber sees a publisher's values in order, and ends at the latest.
- AppIO: `stop()` releases everything, and when it uses something that is freed, it
  is settled before it begins; all of a process share one Config.
- Lua: what a script does not touch survives its commits; a script can start
  again on what a script wrote.

## 2. The modules

    ConfigStore   what a configuration promises            (abstract)
      Config        the code of Config.hpp                 implements ConfigStore
        MCConfig      its instance for TLC
        Config_proofs its theorems
      Couriers      constructors and a user, over ConfigStore
        MCCouriers, Couriers_proofs
    ConfigFile    documents and the text of config.json    (operators)
      ConfigFile_proofs
      used by Config, SharedConfig
    SharedConfig  Config.hpp in several processes
      MCSharedConfig, SharedConfig_proofs
    Timer         the code of Timer.hpp, with AppIO::stop()
      MCTimer, Timer_proofs
    AppIO         stop() and destruct() against all that registers
      MCAppIO, AppIO_proofs
    Feed          what publisher and subscribers promise   (abstract)
      PubSub        send() and onCallback() over ZeroMQ    implements Feed
        MCPubSub, PubSub_proofs
    Lua           the binding's table, commit and conversions
      MCLua, Lua_proofs

Couriers is composed with the *abstract* store: that Config implements it is
a theorem, so nothing of the write protocol has to be modelled twice.
Definitions called "Mutant of X" sit beside X. They are no part of any
specification: each is X with a bug, and shows that some property is
sensitive to that line of the code.

### ConfigStore, ConfigFile, Config

A document is a function from keys to values or `Absent`. The file is a
sequence of cells; document `d` is written as cells `<<d,1>> .. <<d,Size[d]>>`
over the start of what is there (`open(O_WRONLY)`, no `O_TRUNC`), so an older,
longer text leaves its tail behind, and a load takes the first complete value
(`operator>>` does not mind what follows).

| TLA+ | Config.hpp |
|---|---|
| `config`, `out`, `pendingWrite` | `*_config`, `_out`, `_pendingWrite` |
| `completion` | the queued handler of `async_write_some` |
| `exists`, `file` | config.json |
| `InitializeConfig`, `WriteDefaultConfig` | 107-111, 116-128, in two steps: a process can die between them |
| `OpenConfig`, `OpenConfigThrows` | 99-105, 113 |
| `Insert`, `Restructure`, `Assign` | 40-43, 36-38, and an assignment through the pointer of 32-34 |
| `Commit`, `WriteConfig` | 28-30, 71-85: noted, written, or thrown back |
| `HandleError`, `HandleWritten`, `HandleNoted` | 85-96: the ways through the completion handler |
| `WriteHandlerThrows` | 93, out of 77-83: the exception leaves `run()`, which ends the process or is caught by the application |
| `Stop`, `Exit` | AppIO.hpp:114-117 and the return of `run()` and `main` (examples/endtoend/main.cpp:30-31) |
| `Kill` | the process dies between any two steps |

`Faults` says what may go wrong: the process is killed, config.json does not open
(for reading or for writing), a write fails or stores less than asked, and `assign()`
or `dump()` throws (Config.hpp:81, 83: a string that is not UTF-8). The last comes
when `_out` is set, so it silences every later commit as a failed write does; a file
that does not open is found out before, and leaves nothing behind. `since`, `failed` and `torn` are
history variables; no action reads them.

Two facts about asio the model rests on: a regular file cannot be put into epoll,
so `async_write_some` performs the write before it returns and only queues its
handler (this is also why the local string it writes from, Config.hpp:83, is
still there); and `io_context::stop()` leaves queued handlers unrun.

`ConfigStore` has no file, no completion and no `_out`: a commit is stored at
once or *owed*, and something flushes what is owed while the loop runs.

### Timer

| TLA+ | code |
|---|---|
| `owner`, `self` | the two `shared_ptr`s; `Freed(t)` when both are gone |
| `timer` | `_timer` is not null |
| `wait` | the asio wait: armed, then its handler queued with or without `operation_aborted` |
| `running` | the timer whose owner is being called back |
| `destructors` | `_destructFunctions` |
| `Create`, `Drop`, `Cancel` | Timer.hpp:12-36, the owner's pointer, 24-28 |
| `Expire` | the clock; `Callback`, `Abort`: 43-52 and what follows it |
| `ReturnSingle`, `ReturnInterval` | 54-60, 62-70, after the callback |
| `Stop`, `Destruct` | AppIO.hpp:114-117, 32-37 |

`Create`, `Drop`, `Cancel` and `Stop` may happen at any time, in particular while
`running` is some timer: that is the application acting inside a callback.
The first use of a freed timer, or of a null `_timer`, is recorded in `fault`
with its place, and the model stops there because the rest is undefined.
The code does have such uses. The invariant `FaultsExplained` therefore does not
deny them, it *bounds* them: it says for each place what must have happened
before. Its useful reading is the contrapositive: a timer that is not
cancelled is safe from its own handler until the application stops, and
destructor functions meet freed timers only where a timer was cancelled, had
completed, or was released by an earlier stop.

### Couriers

Of a document only `_publishers` and `_subscribers` count. `NewPublisher` and
`NewSubscriber` are the constructors: `insert()`, which leaves a key that is
present as it is, then `commit()`. `NewSubscriberThrows` is the constructor of a
subscriber that an existing table does not list: `operator[]` enters a null,
the conversion to a string throws (Subscriber.hpp:33), and the null is in the
document for the next commit to store. Once stored it is final: nothing but a user
replaces it, and that subscriber's constructor throws in this process and all later
ones (`NullIsFinal`). `UserEdit` is a user with an editor, at
any time. An edit under a running process is overwritten by its next write, since the
file is read once; no property is about that certain loss, and `UserTargetKept` speaks
of what a start has read. Starting, flushing, stopping and ending are ConfigStore's
actions.

### SharedConfig

The same code as Config, per process, and one file. What Config has in one step
is taken apart where another process can come between: `InitializeConfig` asks
`exists()` (Config.hpp:109), `CreateConfig` opens and truncates (116-122),
`FillConfig` writes the default (123-127), `OpenConfig` reads. `End` is any end
of a process, at any step. Write faults are left to Config. `written` and `writer`
are history variables: what was written last, and by whom.

### AppIO

| TLA+ | code |
|---|---|
| `functions`, `position` | `_destructFunctions`, where `destruct()` is in it |
| `owner`, `self`, `captured` | the application's `shared_ptr`, `_self`, what the callback of a timer holds at present |
| `socket` | `_subscriber` is not null |
| `receive`, `running` | a subscriber's pending receive or queued handler; the one whose callback runs |
| `Get`, `NewSubscriber`, `NewTimer` | Config.hpp:12-22 and 46-54, Subscriber.hpp:10-37, Timer.hpp:12-36 |
| `Capture` | a callback (`std::function`, Timer.hpp:73) comes to hold something else |
| `Receive`, `Callback`, `Aborted`, `Return` | azmq; Subscriber.hpp:50-67 up to the callback, with an error, and after it |
| `Stop`, `Destruct`, `Destructed` | AppIO.hpp:114-117, 34-36 one function at a time |

Everything the application does (`Free`) it may do before `run()`, after it, and in
the middle of a callback. A subscriber's constructor registers before it can throw (Subscriber.hpp:18; 26,
where there may be no Config yet and none can be made; 33), so an object may be in
`functions` that never was.
As in Timer, the first undefined use is recorded in `fault` and ends the
behaviour, and the properties say what must have happened before it.
Of a timer's own handlers only that it lets go of itself is kept.

Two things these properties say of the code that its reader would not guess. A
callback that calls `stop()` is safe in itself, but `onCallback` then dereferences
the `_subscriber` that `stop()` has reset (Subscriber.hpp:65): `HandlersExplained`
allows "rearm" after a stop because the model reaches it.

And `stop()` can free an object and then call its function. `destruct()` lets go of
the timers one by one, and with a timer that nobody owns goes whatever only its
callback holds. What a callback was given when the timer was made is older than the
timer, so its function has been called by then. But a callback can come to hold
something younger: a mutable lambda that makes a subscriber on its first tick, and
whose subscriber then registers after the timer. `FirstStopSettled` draws the line
exactly: an object is *spared* (`Spared`) if it is there and held by more than
callbacks of unowned timers that registered before it, and the first `stop()` calls
the function of a freed object if, and only if, something registered is not spared
when it begins. So an application that wants a clean first `stop()` has to keep every
subscriber until then, to own one that a callback made, and to have had no
subscriber's constructor throw.

A callback holds one object at most, and never a timer: chains and cycles of timers
that hold each other are not modelled.

### Feed, PubSub

A message is its index in `sent`. `Send` puts it into the pipe of every joined
subscriber with room (`Capacity`, ZeroMQ's high-water mark) and silently drops
it for the others. `SetCallback` starts a receive, `MaxCalls` times; `Receive` is
azmq filling `_buf` and queueing a handler; `Take`, `GoDeaf`, `Throw` are the
three ways through `onCallback` (Subscriber.hpp:50-67): a value of type T; an
error (a message longer than `_buf`), which returns without another
`async_receive`; and a text that does not parse as a T, whose exception leaves
`run()`. It ends the process, or the application catches it and calls `run()` again:
then that chain of receives is over. Either side may end and start at any time.

With two chains of receives a handler may find in `_buf` what another receive
has written since. Only the bytes of its own length are read: a splice of two
texts, which the model lets parse as any value, or as none (`Found`).
`ImplementsFeed` allows exactly these steps (`Splices`, an action of one subscriber:
it takes the message at the head of its queue, with some other value) besides Feed's;
`HoldsTheLatest` holds in spite of them.
Assumed of ZeroMQ: a pipe keeps its order and loses only at its end or with a
process; a message in a pipe may still arrive after the publisher's end, or not.

### Lua

A document, and a Lua table, is a function from paths to kinds of value. The
operators `ToLua` and `ToJson` are `jsonToLuaObject` and `luaObjectToJson`
(JsonConversions.hpp:6-23, 25-41): nulls vanish, indices go up by one, an empty
table and a boolean become null, every table becomes an object, keys become
text. Two keys that read alike, `[1]` and `["1"]`, collide, and since the order
of `lua_next` is not specified, `ToJson` is a set. `Document` and `Value` say
which functions are documents and tables (`TypeOK`): every value but the whole
hangs under an object, array or table; the labels under an object are names, under
an array indices. `Nothing` is nil, and no document. `touched`, `added` and
`cleared` are history variables: the names this process's script assigned to, the
names its `insert()` added to the document, and whether the user's last edit left,
or a script has assigned since, a `"_binding"` that is no string.

| TLA+ | LuaBinding.cpp |
|---|---|
| `config`, `table` | Config's document; `configDataPtr`, the table made at 40 |
| `Open` | 37-40: load, insert `"_binding"`, take the snapshot |
| `Assign` | what a script does to the table of `data()`, 56-59 |
| `LuaInsert` | 60-63: into the *document*, not the table |
| `LuaCommit` | 51-55: the document becomes what the table converts to |
| `Flush`, `Close`, `UserEdit` | the write that was owed, the end, a user with an editor |

## 3. The runs

| run | expects | what it shows |
|---|---|---|
| `config_faults` | pass, 14743 states | under all five faults at every step: no commit is lost unless a write failed (`NoLostCommit`); a noted commit has a handler queued that will write it, and nothing stays noted with no write out (`NotedHasWriter`); the file can be loaded unless a write was cut short (`StartLoads`). And two things the code does badly, stated exactly: a file left empty stays so for ever (`EmptyIsFinal`); one write that fails, or throws in the middle, ends all writing of the process (`FailedWriteIsFinal`) |
| `config_store` | pass, 1464 states | killed at worst, Config implements ConfigStore, fairness included; what is committed settles in the file (`CommitsSettle`) |
| `config_stop` | violation | after an orderly `stop()` the file need not hold the last commit |
| `timer_lifetime` | pass, 68794 states | `FaultsExplained`; `_self` is held exactly while wait, handler or callback need it (`SelfWhileNeeded`); no callback after `cancel()` unless its handler was queued (`CancelSilences`); `stop()` leaves no timer holding itself (`StopReleases`) |
| `timer_fires` | pass, 2357 states | single shots fire and intervals keep firing, owned or not |
| `timer_scope` | violation | drop a single shot, let it fire, stop: its destructor function uses the freed timer |
| `couriers_entries` | pass, 28332 states | what a user wrote is kept and connected to, through restarts, kills and owed writes; only the first subscriber of a file lists itself, and the first publisher of a file stays the only one it lists (`FirstPublisherStays`, the exact extent of what `couriers_topics` shows); a null committed for a subscriber stops it until a user edits (`NullIsFinal`) |
| `couriers_topics` | violation | a second publisher is never entered in config.json |
| `shared_config` | pass, 5000 states | two processes: what is loaded is always a whole document, the one written last (`LastWriteWins`); a start fails only on a file whose creator has not filled it (`StartsExplained`); once that is over it never happens again (`SettledForGood`); a noted commit is written whatever the other does (`NotedIsWritten`) |
| `appio_stop` | pass, 1560309 states | the first `stop()` calls the function of a freed object exactly if something was not to be spared when it began (`FirstStopSettled`); undefined uses in a subscriber's handlers need its owner to have let go or a `stop()` (`HandlersExplained`); one Config per process until `stop()` (`OneConfig`); after a `stop()` only what the application holds is alive (`StopReleases`) |
| `lua_commit` | pass, 288194 states | no string or number a script left alone is lost (`FirmKept`); a script that edits nothing still wears the document down, in finitely many steps (`Erodes`); a document no script can start on is only written after the user or a script has cleared `"_binding"` (`StartsAgain`); what a script inserts is taken back by its own commit (`InsertNotCommitted`) |
| `pubsub_feed` | pass, 19900 states | the subscriber's values are the publisher's, in order (`ImplementsFeed`); at rest it holds the latest unless that very value was lost (`HoldsTheLatest`); it reads all it was sent (`ReadsItAll`) |

The three violations are disagreements between a sentence of the repository and
its code; PROJECT.json quotes both under "findings". One more was only read:
README.md:15-18 of the repository has the files in `~/.industry`, AppIO.hpp:73 puts
them in `~/.appio`.

**Bounds.** Config: two keys and one value give documents of length 1, 2
and 3, so a text can grow, shrink, and leave a tail; there is no bound on the
number of commits, edits, writes or restarts. Timer: two single shots and one
interval, so that one callback can act on a timer of its own kind and of the other
kind; every timer is created once, and everything else is unbounded; the
liveness run has one of each kind. Couriers: two publishers, two subscribers,
one target besides `""`. SharedConfig: two processes, the documents of Config
with one value; nothing is bounded. AppIO: two subscribers, so that one is dropped
while the other serves; one timer, older or younger than either of them or the configuration, that comes to hold any of these; two
configurations, one after the other; two `stop()`s (`MaxStops`), since the second
meets what the first has freed. PubSub: one subscriber (subscribers share nothing but
the publisher), three sends (`MaxSent`), pipes of two (`Capacity`), two
`setCallback()`s (`MaxCalls`), so that a pipe can be full, two handlers be queued
over one buffer, and values be repeated, skipped, foreign and too long. Lua: under
one user's name every kind of value and lists and objects of every kind, one level
deeper for an object in an object; a `"_binding"` of the user's that is null or a
string; edits that clear, replace, and
collide (`[1]` with `["1"]`); any number of sessions. `MaxSent`, `MaxCalls` and
`MaxStops` are the only bounds that cut behaviours off. The Timer and AppIO runs do
not check deadlock: after `stop()` or a fault the system may stop.

**Fairness.** Config: `WF(WriteHandler)` — `run()` executes a queued completion.
`Commit`, `Stop`, `Kill` get none. ConfigStore asks the same of its flush. Timer:
`SF` of `Expire` and `Callback`, since a callback of another timer, during which
neither is enabled, only postpones them and asio's queue is first-in first-out;
`WF(Return)`, the assumption that owners' callbacks return. PubSub: `WF` of
`Receive` and `Handle`, a subscriber's own loop; nothing is assumed of when
publishers and subscribers start, send, connect or end. SharedConfig: `WF` of each
process's `WriteHandler`, as in Config. AppIO and Lua have safety properties only.

## 4. The proofs

The proofs hold for all values of the constants allowed by the named assumptions
of the modules (`FileAssumption`, `ConfigAssumption`, `SharedConfigAssumption`,
`CouriersAssumption`, `TimerAssumption`, `AppIOAssumption`, `PubSubAssumption`,
`TextAssumption`, `LuaAssumption`): any
keys, values and text lengths, any subset of the faults; any sets of processes,
timers, subscribers and configurations, also infinite ones; any number of messages,
calls and stops; any documents and scripts. Every invariant and action property that
a passing run checks is proved.

**Config_proofs.** `NoLostCommit`, `NotedHasWriter` and `StartLoads` are not
inductive. The inductive invariant `IInv` adds to `TypeOK`:

- `NothingHeld`: a process that is down or starting holds no document, no write,
  no note: needed because `OpenConfig` sets only `config`, `since`, `failed`;
- `DocumentHeld`: a serving process holds a document, it is in `since`, and the
  file is not empty: needed so that what `WriteConfig` stores is in `since`;
- `OneWriteOut`: a queued completion, a note and a failure are possible only with
  `_out` as the code leaves it: from it follows `NotedHasWriter`;
- `FileEmpty`: a file that does not exist, or is being created, has no cells;
- `StartLoads` and `NoLostCommit` themselves.

The lemmas underneath, in ConfigFile_proofs, are about the file: `OverlayBegins` (a text written over
the start of any file is what the file begins with) and `StoredIsFirst`
(a file begins with at most one document, so `CHOOSE` in `Stored` is determined).
Theorems: `TypeCorrect`, `CommitsKept`, `NotedCommitsHaveWriter`, `Restartable`,
the action properties `EmptyStaysEmpty` and `FailedWriteEndsWriting`, and
`StoreRefinement`: if `Faults \subseteq {"kill"}`, every behaviour of Config
is one of ConfigStore's safety part, under the mapping given at the end of
Config.tla. For this the file must always be empty or begin with a document while no fault
cuts a write short (`Whole`, proved along the way).

**Timer_proofs.** The inductive invariant adds to `TypeOK`, `SelfWhileNeeded` and
`FaultsExplained`: `Unborn` (a timer not created has no references and no
wait), `LetGo` (`_timer` is null exactly for cancelled timers, and a timer that
let go of itself was cancelled, released or completed), and `Waits` (what the
state of the wait says about cancellation, and that a wait and a running
callback exclude each other). `FaultsExplained` needs `LetGo` to know why a
timer is free, and `Waits` to know why its handler still came.
Theorems: `TypeCorrect`, `FaultsAreExplained`, `SelfHeldWhileNeeded`,
`CancelledIsSilent`, `StopReleasesAll`.

**SharedConfig_proofs.** `FileAsWritten`: the file begins with the document
written last, or is empty since it was truncated. `Truncator`: an empty file was
truncated by a process that has yet to fill it or has ended. `FileFound`: whoever
is past `exists()` and not about to create the file has one. Theorems: `TypeCorrect`,
`LastWriteStored`, `FailedStartsExplained`, `SettlesForGood`.

**Couriers_proofs.** The promise is about config.json, but what is written there is
the document in memory, later: `TargetInMemory` says that what a user wrote is in memory
too, from the load on; `OneSomewhere` that of the addresses no user listed at most one
has an entry, memory included, and none as long as the document in memory has no
`_subscribers`; `MemoryHeld` that a process has a document. Theorems:
`TypeCorrect`, `UserIsObeyed`, `ConnectedAsEdited`, `OnlyOneListsItself`, and
`FirstPublisherListed`, for which `PublisherInMemory` says that from the load on
memory lists the publisher that the file lists, and neither more than one, and
`NullStaysNull`, for which `NullInMemory` says that a null of the file is in memory
too, and that no subscriber whose entry in memory is null is connected.

**PubSub_proofs.** For every subscriber: `InOrder`, that what was taken, what is queued and
what is in the pipe are strictly increasing indices, in this order; `LatestAhead`,
that unless the latest message was lost it is the last of the pipe, or the last
queued, or held; `BufIsLast`, that `_buf` holds the message queued last, which is
why the last handler is never spliced; `Gone`, that a process that does not run
has nothing pending and missed what was sent. Three lemmas carry the order over an
append, a move from pipe to queue, and a tail. Theorems: `TypeCorrect`, `LatestHeld`, and
`FeedRefinement`: every behaviour of PubSub is one of Feed, but for splices. For it
one has to know that a splice needs two calls (`OwnOrTwoCalls`), which is the count
of receives in `TypeOK`.

**AppIO_proofs.** `FirstStopSettled` needs two facts about the first stop:
`NoneDoomedSoFar` (of what `stop()` was not to spare nothing has had its turn, or
there would be a fault) and `AheadUntouched` (what lies ahead in `functions` is
spared now exactly if it was when `stop()` began, and a subscriber there has its
socket). A step of `Destruct` keeps the second because the object whose turn it is
comes before everything ahead: if it is a timer, `Spared` does not count on it for
them, and no other object's callback changes. `ResetSoFar` gives `StopReleases`.
`NotStopped` (before a stop no `_self` of a Config and no socket was reset) and
`ReceiversBuilt` give `HandlersExplained`; with `BuiltFirst`, `OneConfig`. Theorems:
`TypeCorrect`, `FirstStopIsSettled`, `HandlersAreExplained`, `OneConfigAtATime`,
`StopReleasesAll`.

**Lua_proofs.** `TypeCorrect` says that what the conversions and a script make are
documents and tables again, whatever was assigned, at any depth. The inductive
invariant `IInv` adds to `TypeOK`:

- `Roots`: a table begins with a table, and a document that is not null is an
  object, since `insert()` and the loader see only those;
- `NoTwins`: two paths of a table that read alike differ only under a name the
  script touched, so that elsewhere it does not matter which of them wins;
- `FirmHeld`: every string and number of config.json, and of the document in memory,
  that stands under a name left alone is in the table, under a path that reads as
  its own will: so whatever the next commit writes has it;
- `OwedHolds`: while a write is owed, every string and number of the table under an
  untouched name is in the document in memory. With `FirmHeld` it covers a write
  that comes later than its commit, from memory and not from the table;
- `AddedApart`: an untouched name in the table was not added by `insert()`, and is
  in the document, where `insert()` finds it and leaves it as it is;
- `BindingHeld`: as long as nobody cleared it, `"_binding"` is a string in the table
  and in memory, and config.json is not null and has no other `"_binding"`.

Theorems: `TypeCorrect`, `ScriptsStart`, `FirmIsKept`, `InsertsTakenBack`, and
`DocumentsErode`, for which `Pristine` says of a process whose script has done
nothing that memory is what the load left or what the table converts to. The weight
of a document is a sum of cardinalities; the proof maps the values of each kind
after a conversion into those of that kind before it (`RoundTrip`), shows that no
value becomes an array, a boolean or a wide number, and compares the sums
(`Lighter`): a document that loses no weight has neither arrays, where every path
reads as it stands (`ObjectsOnly`), nor anything else that the conversion changes.

The lemmas underneath are about paths and trees: `TreeClosed` (the paths of a tree
are closed under prefixes), `ReadsInjective` (two paths of one document do not come
to read alike on the way to Lua and back), `ToLuaFacts` and `ToJsonConverts`
(what a conversion returns, through `CHOOSE`), `PutTree` (an assignment keeps a
tree). They need induction over the length of a path. The library's induction
theorems take an operator, so these proofs argue by the smallest counterexample:
`Smallest`, that a set of numbers that is not empty has a least element, follows from
the well-foundedness of `<`, which the library states of a relation.

**Only model-checked:** liveness (`CommitsSettle`, `SingleFires`,
`IntervalKeepsFiring`, `ReadsItAll`, `NotedIsWritten`, the fairness in
`ImplementsStore`), which is out of the prover's reach.

## 5. What is not modelled

- `captureArgumentsFromLua` (LuaBinding.cpp:7-25): the pointers it returns refer to
  strings that are gone, so what `initialize` reads is undefined from the first
  call on; no choice of outcomes would say anything about the code. (Read with
  intact strings it would also hand over the arguments in reverse order, and cut
  from the first to the last character that is one of `.`, `l`, `u`, `a` instead of
  a suffix.)
- The Lua timers' conversion of seconds to nanoseconds; the timers are Timer's.
- The lifetime of the `AppIO` object, with which its functions die. Programs, couriers
  and configurations hold it; a timer does not, it asks for the instance twice in its
  constructor (Timer.hpp:31, 35). A program that holds none of these would get a new
  `AppIO`, with a loop of its own, from every `instance()`.
- Option parsing, paths and directories, console output: no state a property is
  about. `readConfigFile()` of Config: nothing calls it.
- The vendored sol2 header (`sol.hpp`, 25783 lines), of which the models use only
  that a table is iterated in the unspecified order of `lua_next`; the filesystem
  shim, a choice of header by the preprocessor; the examples, programs that use
  the library; the build files.
- Timers whose callbacks hold timers.
- Threads: nothing in the library or its examples starts one (the TODO at
  Config.hpp:14 says what would be missing).
- A write that fails or is cut short while a second process writes: each is
  modelled, not both at once.

## 6. What is left

1. PubSub with two subscribers of one process on one loop, and AppIO's `stop()`
   among their handlers: the two modules composed.
2. A two-sided statement of what a second `stop()` may do, beyond the fault it
   is recorded as.
