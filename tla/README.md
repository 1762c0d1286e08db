# Satku event tracker: specifications

TLA+ specifications of the Kerkesix event tracker: a web application that follows the walkers of
an annual walking event ("satku") from checkpoint to checkpoint. The pages send commands to a
hub, command handlers run them against event-sourced aggregates, events are stored in Azure
tables and published to query models and to the other pages. Paths below are relative to the
repository.

- [The system](#the-system)
- [Modules and how they follow the code](#modules-and-how-they-follow-the-code)
- [Runs](#runs)
- [Fairness](#fairness)
- [What is proved](#what-is-proved)
- [Findings](#findings)
- [What is not modelled](#what-is-not-modelled)
- [Plan](#plan)

Checking: `tlc -config X.cfg M` for a run (`M` is the MC module, the list is under Runs), `tlapm
M.tla` for the proofs of each of the modules named `..._proofs`.

## The system

| Component | State | Operations |
|---|---|---|
| Client command bus (`Web/wwwroot/js/JSBus`, `Ksx.Bus.ts`) | queues outgoing, sent and retry in localStorage; send loops and a timer per `Bus`; one SignalR connection | `send`, `sendMessages`, `ack`, `markSent`, delayed retry, reconnect |
| Command hub (`Web/Hubs/CommandBus.cs`) | table of executed commands; a list of running connections | `Command`: look up, execute, save, acknowledge |
| Aggregate repository, event stream (`Domain/Repositories`) | event table: a partition per aggregate, rows with an id and a timestamp | `Execute`, `CreateAndExecute`: read, replay, operation, append as one batch, publish |
| Happenings inventory (`HappeningsInventory.cs`) | list of happenings: key, default, started | `Create`, `ChangeDefault`, `Delete`, `Start`, `ValidatePersonUnlink` |
| Happening (`Happening.cs`) | who has started, completed, quit | validation of scans and removals, `Quit`, `RemoveQuit`, `AttendeeStarted`, `AttendeeCompleted` |
| Checkpoint (`Checkpoint.cs`) | in and out readings | `AddScan`, `ChangeScanTime`, `RemoveScan` |
| Checkpoint list (`CheckpointList.cs`) | checkpoints of a happening, by type | `AddCheckpoint`, `ChangeType`, `Delete`, `DeleteHappening` |
| Person (`Person.cs`) | attendance, deleted | create, update, link, unlink, delete |
| Event topic (`InMemoryEventTopic.cs`) | subscribers | `Publish`: events in order, subscribers side by side |
| Query models (`Web/QueryModels`) | static lists: dashboard, happenings, people, links, CSV, routing | one `When` per event; rebuilt by a replay at start |
| Destruction and speed calculators (`Web/Logic`) | none | estimates for the dashboard |
| Registration site (`Registration`) | table of registrations | register, confirm, delete |
| Pages (`Web/wwwroot/js/ViewModels`) | what the forms and lists show | create commands, follow events |
| Command line (`Cli`) | none | administration of tables |

**How they interact.** A page stamps a command with the server's time (`Ksx.Time.ServerTime`)
and stores it in its outbox. A send loop hands it to the hub over SignalR. The hub looks it up
in the table of commands and gives it to the first handler that knows it; the handler has the
repository read and replay a stream, run one operation and append the collected events. They are
then published within the same call: other handlers answer an event by running an operation on
another stream, so that one command may be a saga over several aggregates; query models update
their lists; one of them forwards the event to all pages. Then the command is saved and
acknowledged, and the page forgets it.

**What is hard.** Nothing orders two invocations, on one connection or on several, and an append
checks no version: what one request decides may rest on a stream that another is changing.
Streams are replayed in the order of timestamps, which some events take from the client's
command and others from the server's clock, so that a command that arrives late is replayed
before events that were decided without it. The networks are bad by assumption (the outbox is
there for them): connections break at any moment, acknowledgements are lost, commands are sent
again. A saga that breaks off is resumed by nobody but a client that repeats its first command.
The pages keep copies of their own: each loads its data once, applies the events that reach it
afterwards and shows at once what its own commands will do, and nothing tells it of an event it
missed or of a command that was refused. `PROJECT.json` lists these hazards with the line where
each bites and the properties that watch it.

**What makes each part correct.** The bus and hub lose no command, and one that is taken for
handled has taken effect, unless its handler failed before anybody looked
(`RedirectToWhen.cs:108`). The inventory holds a key once and has one default. A checkpoint
reads a person in once and out once, in this order, and its stream can be replayed. The
happening lets nobody walk who has not started, and nobody both quits and completes; whoever is
read at the finish completes. The lists of the server say what a replay of the streams would
say. A page shows what the server would tell it anew, once it has caught up; a scanning page
reads the person whose code was typed and sends them to no checkpoint ahead of the one they are
at; the address, the view and the menu agree.

## Modules and how they follow the code

### `HappeningsInventory`

The aggregate, and `AggregateRepository.Execute` around it, as a set of concurrent requests. A
request's `phase` goes from `Read` (`ReadAllEvents`) over one `ReplayEvent` per turn of the
replay loop and one action per operation (`Create`, `ChangeDefault`, `Delete`, `Start`,
`ValidatePersonUnlink`) to `AppendEvents`. `happenings[r]` is the list in request `r`'s
aggregate, `thenEvents[r]` the unit of work, `stream` the table's partition. `Throws` says which
events a `When` cannot handle; such a stream is *poisoned*: no request can read it.
`AppendEvents` is the table's batch: all rows or none, refused when the row key of a creation is
taken (it is the key as typed) and when the batch is empty. `Fold` is `OrdinalIgnoreCase`: most
comparisons use it, the row key and the `Find` of `When(HappeningSetAsDefault)` do not. `clock`
is the server's; the two events of a deletion may share a tick.

### `CommandDelivery` and `CommandJournal`

The queues, loops and connection of one page (`Submit`, `SendAll`, `RetryDelayed`,
`ResendUnacknowledged`, `Settle`), the old `Bus` of a broken connection, which goes on sending
(`SendAllOnOldBus`), and the hub method, cut at its awaits (`Lookup`, `Execute`, `Save`,
`Acknowledge`, each with what may fail). A handler's failure is told to the client
(`ExecuteFails`) or goes unseen (`FailUnseen`): `RedirectToWhen` waits for a task only if it is
neither cancelled nor faulted when it looks, and says "handled" either way, so that the command
is saved and acknowledged, with or without effect; `unseen` remembers it. `Disconnect`,
`Reconnect`, `Reload` and `CrashServer` come at any moment. Timeouts are steps that may be taken
at any time: none of the 200 ms, 30 s and 60 s is taken to be longer than another. Commands of
`Poison` always fail, those of `Unknown` have no type on the server, which acknowledges them
unhandled; the other failures count as one each, up to `MaxFailures`. Queues are sets: how a
message fares does not depend on its place.

`CommandJournal` is what both sides promise together, per command: accepted, taking effect at
least once before it counts as handled, unless a failure of it was *waived*, and forgotten only
after that, unless it is unknown. Poison is never handled but for a waived failure.
`JournalSpec` says that `CommandDelivery` implements it, under the mapping `Status`; `waived` is
`unseen`.

### `Checkpoint` and `CheckpointScans`

`Checkpoint` is the aggregate without the machinery: `Applied` and `Throws` are the `When`
methods, `ScanEvent`, `AddScan`, `ChangeScanTime` and `RemoveScan` the operations as functions
from a state to events, `Stored` the place a row takes among rows sorted by timestamp, `States`
the replay. A reading carries, beside the timestamp the aggregate compares, the time that is
shown for it. Rows that a replay does nothing with are not kept.

`CheckpointScans` lets clients give commands, each stamped when it is given, and the server
read, then execute, in any order and overlapping. Scans and removals keep the client's stamp,
changes of time get the server's (`Stamped`).

### `Happening` and `Walk`

`Happening` is the aggregate: its state as sets computed from its rows, its validations as
predicates. `Walk` composes it with `Checkpoint`. An invocation goes through the steps
*validating* (happening), *validated* (checkpoint read), *recording* (checkpoint appended,
events published) and *started* or *completed* (happening again); other invocations may come
between any two. `BreakOff` ends an invocation between two steps: a server that dies, a storage
error, or a subscriber that throws and so keeps the topic from the next event. The command is
then sent again, which `CommandDelivery` shows to happen.

Between reading the happening for `AttendeeStarted` or `AttendeeCompleted` and appending the
event nothing needs a state of its own: a second event of the same kind changes nothing.

### The report page: `Dashboard`, `ReportServer`, `ReportView`, `LiveReport`

`Dashboard` is `DashboardDenormalizer` as a function `Projected` from a state [visits, expected]
and an event to the next state. `ReportServer` is the server as such a page meets it: the
aggregates of `Happening` and `Checkpoint` execute one command at a time (`Execute`), and
`PublishedBy` are the events that `RouteEventsToClientDenormalizer` lets through. `ReportView`
is the page's own copy: `DataInit` makes it from the server's answer, `ViewApplied` applies one
event. Both build the same visits, in two languages.

`LiveReport` runs them side by side. The answer (`Answer`, `Load`, `Fail`) and the connection
(`Connect`, `Disconnect`, `Deliver`) are separate channels: an event may come before the data,
be in the data already, or be lost. `topic` is `jQuery.Callbacks`: a subscriber that throws
leaves it "firing", and nothing is delivered any more. `UserGives` are the forms, which work on
what the page shows and drop the seconds of a time (`FormatTime`, `ToServerTimeFromInputDate`);
`OthersGive` are other pages. `past` is a history of what has gone wrong, so that the properties
can say what they exclude.

### Scanning: `Barcode`, `ScanPage`

`Barcode` is the key reader: a buffer that a key lengthens, `Return` hands over and a timer of
50 ms empties. `ScanPage` extends the page of `LiveReport` with two such readers on the same
keys, one for barcodes and one for NFC tags, with the log and its rows, and with the
acknowledgement of a command, which is one more message to the page and may be repeated. The
report on the same page says where a person is scanned (`InferredPlace`,
`checkpointForScanRequest`).

### People and registrations: `Attendance`, `AdminPages`

`Attendance` is the server: a stream per person, whose rows are replayed in the order of
client's and server's timestamps (`Stores`, `PersonState`), and the lists `LinkPeople` and
`EditPeople`, told event by event. `AdminPages` has the page of registrations with its delayed
link (`LinkTo`, `SendLater`: 500 ms later, stamped 1000 ms ahead), the page of people, another
administrator, the estimate of the server's time and a clock. A tick stands for 500 ms.

### Routes and administration: `Routes`, `HappeningsPage`, `Site`

`Routes` is `Ksx.Routes`: the routes of the view models, the happening put before their urls
once, and Sammy's patterns, which are bound to the end of an address only. `HappeningsPage` is
the view for the list of happenings with the query model `EditHappenings` and the server, one
command at a time. A creation has three fates: it throws when there is such a happening
(`Fails`), the table refuses the key of a deleted one as a row key that is taken (`Refused`), or
it is stored. The happening then gets a stream of its own; where the key has one already
(`streams`), because a path was added to it before, that fails (`FailsLater`), and the list may
or may not get its row. A failure is given again, or goes unseen as in `CommandDelivery`. A
pasted document is a sequence of tokens. `Site` is the page: `LoadPage`, `OpenAddress`,
`SelectWalker` and what comes by itself (`LoadWalkers`, `Retry`, the answer with the
happenings). What only depends on who loads which page, the routes and where they lead, is
computed once (`Scripts`).

## Runs

States are distinct states. All pass runs finish their state space.

| Run | Configuration | States | Shows |
|---|---|---|---|
| `inventory` | 3 requests, 2 happenings one of which is typed in two ways, an empty or a two-row stream | 554,925 | uniqueness, one default, no resurrection under every interleaving; that streams stay replayable and keys unique ignoring case while requests do not overlap; that no operation loses the default |
| `delivery` | an ordinary and an unknown command, 2 loops, 2 connections, 1 failure | 398,313 | no command lost, no queue holds another's copy, a failure is taken for handled only when nobody looked at it, nothing is repeated but in trouble, no loop waits for nothing; the whole implements `CommandJournal` |
| `delivery_live` | an ordinary command and poison, 1 loop, 2 connections, 2 failures | 79,763 | every good command is handled and forgotten at last, though it fails twice and next to one that always fails |
| `delivery_unseen` | an ordinary command and poison, 1 failure | violation | a command is saved that has had no effect |
| `scans` | 4 commands of any kind (3 when requests overlap), any checkpoint type, threshold 2 | 2,413,560 | readings stay single, ordered by what the code compares and, for a passthrough, in step; streams stay replayable |
| `scans_typed` | 2 commands with typed times | violation | an out reading is refused that is not before the in reading |
| `walk` | 1 walker, start and finish, 3 commands, 1 broken invocation | 158,361 | nobody is scanned before they have started; nobody quits and completes; completions are lost by broken invocations only, starts never |
| `report` | 1 walker, one checkpoint of each type, 5 commands, 1 lost connection | 2,211,174 | the page shows what loading it again would show; what stops it from hearing anything; who is expected has left the checkpoint before, unless that is a passthrough |
| `scanpage` | 1 person with a barcode and a tag, 3 commands, 2 rows, 1 lost connection | 1,035,324 | a row is for a code typed in full; no checkpoint ahead of the server's; the same checkpoint once the page has caught up |
| `scan_log` | the same | violation | the outcome of a reading made elsewhere is shown in the row of another one |
| `admin` | 2 registrations, 3 people, 4 commands, clocks off by a tick | 2,563,222 | people are created before they are linked; the list says what a replay says; the page's links are the server's when nothing went wrong |
| `pages` | 9 addresses, 6 pages that may be loaded, 2 walkers, 3 happenings, 2 commands | 368,416 | the view is the address's, also after retries and the way back; the menu leads where it says; the list of happenings is what was asked for, as far as it was right when it was loaded; a pasted route is its lines |

**Why these bounds are enough to be of interest.**

- *Inventory.* The defects of an unversioned stream need one request that reads, a second that
  changes the stream, and a third that reads the result; the third also replays a two-event
  deletion against what the others appended. Requests are interchangeable, hence the symmetry.
- *Delivery.* Two connections give one old `Bus` beside a new one; two loops of one `Bus` are
  what `send` while the timer is not set gives; one failure is one more invocation of a command
  that took effect, and `delivery_live` has two. Its states leave the histories out
  (`NoHistory`), which no step and neither of its properties looks at. An `Unknown` command
  shares all its client steps with an ordinary one. The refinement was also run with a third
  connection and one loop (874,328 states): no error.
- *Scans.* Commands concern one person each and the aggregate looks nobody else up, but for the
  announcement of the first walker, which changes no reading. Four commands allow a scan in, a
  scan out, a change of either and a removal between them; the typed time 4 lies before, between
  and behind the stamps of commands, so that a reading out may be earlier than the time typed
  for the reading in, later than its command, or earlier than both. A delay of 1 or 2 is below
  or at the threshold. With requests that overlap, four commands were also run once without the
  constraint (10.6 million states): no error.
- *Walk.* Three commands are a start and a finish with a quit, a removal or a further scan in
  any order among them. Walkers who started earlier are initial states, so that the three may
  all come after the start. Walkers do not meet: every row is looked up by person. With a
  threshold of 1 a further scan after the first is an out reading or a double reading, never
  ignored for its time alone.
- *Report.* Rows are looked up by person on the page too, so that one is enough. Five commands
  bring a walker from the start through the pitstop or to the passthrough behind it, and leave
  one for a removal, a change, or a quit taken back, and `Minute` = 3 lets two commands share
  the minute that the forms round to. `FewWait` lets one command wait at a time: how they
  overtake each other is the subject of `scans` and `walk`. One lost connection loses events
  before, between and after the data.
- *Scanning.* The barcode is one key and the tag two, one more than the barcode, so that what is
  left in one reader may make up a code in the other; three keys more are the test code,
  punctuation and a key that resets. `FewRows` gives a row another one of the same person beside
  it, which is what the log confuses. Others only scan at the start. Three commands do not bring
  anybody to the finish: the run sees the first checkpoints of the route, `NeverAheadHolds` all
  of them.
- *Administration.* `NewPerson` has a person of its own for each row. A tick of delay, two of
  lead and clocks off by one reproduce 500 ms, 1000 ms and an offset of the order of the delay.
  `LittleTrouble` cuts executions in which a third thing has gone wrong: the properties exclude
  most of these.
- *Pages.* Addresses with and without a walker, one with an id that nobody has, one that needs a
  contributor and one of each way to write the root; three retries instead of 100. `OneThing`
  keeps the reader who looks at walkers and the administrator who edits happenings apart: they
  share the address and nothing else. It also cuts executions in which two things have gone
  wrong for the list of happenings, but for a command that is overtaken and one that is refused,
  which together leave a happening out of the list. Documents have points before, between and
  inside lines.

"While requests do not overlap" (the `Serial...` properties and `raced`, `overlapped`) is a
restriction the code does not enforce. It is what holds of the code today; with it removed these
properties fail, because nothing versions the append. The properties without it hold in spite of
that. The same goes for `past` and `mishaps`: what a property excludes by them was found by
leaving it out, and each is described under [Weaknesses](#weaknesses).

Every property has a mutant in `PROJECT.json`: a plausible slip in one mapped definition with
which the run reports a violation. The mutants stand before the definitions they alter, with a
comment that begins "Mutant".

## Fairness

Only `delivery_live` and `walk` use fairness, weak in both.

- The browser's timers fire (`SendAll`, `RetryDelayed`, `ResendUnacknowledged`) while the page
  is open, and `onclose` tries again to connect until it succeeds (`Reconnect`,
  `Ksx.Bus.ts:37-55`). An invocation that has begun goes on: the thread pool runs it
  (`CallStep`, per message, loop and connection).
- No fairness is assumed of users, failures, disconnections, reloads or crashes; the constants
  bound failures and connections.
- The liveness properties exempt a page with an old `Bus`. Its loop takes messages from the
  outbox as often as that of the new one, and weak fairness of timers does not say who comes
  first. This is a weakness of the code, not of the model: the old `Bus` is never stopped.
- In `Walk` a command that was given is invoked and what has begun proceeds or breaks off;
  broken invocations are bounded. That the command is sent again is what `delivery_live` shows,
  but for a failure that goes unseen.

## What is proved

`HappeningsInventory_proofs` proves, for any set of requests and keys, any case folding and any
earlier streams that satisfy the module's assumptions:

| Theorem | Property |
|---|---|
| `TypeCorrect` | `TypeOK`: types; a request replays what it read, and that stays in the stream |
| `KeysAreUnique` | `UniqueKeys` |
| `OnlyOneDefault` | `AtMostOneDefault` |
| `DeletedStaysDeleted` | `NoResurrection` |

Assumptions: `FoldAssumption` (folding is defined on keys), `InitialClockAssumption` and
`InitialStreamsAssumption` (earlier streams are what the table can hold: past events, one
creation per key, no deletion in the tick of a creation).

None of the four is inductive. The argument is the invariant `IInv`:

- `TypeOK`, `UniqueKeys`, `AtMostOneDefault` themselves;
- `TicksInv`: the stream is `Consistent`, collected events are in the past, a creation is
  collected alone, and no creation shares its tick with a deletion, whether stored or still in
  some request's unit of work. Two creations of one key may race up to the append: only the row
  key keeps the second out, and with it a second row of that key out of every later list;
- `ReplayInv`: of a request that replays, every row comes from a replayed creation, replayed
  events precede those to come, and a row is younger than every replayed deletion of its key.
  The last is why a deletion cannot be undone by what was appended in between;
- `IdleInv`: a request that has not begun has an empty list and no events.

The lemmas about lists (`AppliedRows`, `AppliedOneDefault`, `AppliedExactKeysUnique`,
`AppliedDeletion`) say what one event does to a well-formed list. All operations are then shown
to be instances of one `Outcome` (`OperationOutcome`): they leave a well-formed list and a batch
with ticks of its own. So the induction step has four cases: reading, replaying an event, an
operation, appending.

`CommandDelivery_proofs` proves, for any set of commands, whichever of them are poison or
unknown, and any number of loops, connections and failures:

| Theorem | Property |
|---|---|
| `TypeCorrect` | `TypeOK` |
| `OneCopyOnly` | `OneCopy` |
| `NothingLost` | `NoLostCommand` |
| `SavedAfterEffect` | `SavedTookEffect` |
| `RepeatedInTrouble` | `RepeatedOnlyInTrouble` |
| `NobodyBlocked` | `NoLoopWaitsForNothing` |
| `ImplementsJournal` | `JournalSpec` |

Assumptions: `MessageAssumption` and `BoundAssumption` (the bounds are numbers, of loops and
connections at least one). So the bounds of the run are no restriction for these properties; it
does not matter, either, whether failures run out. `SavedAfterEffect` says that no failure is
taken for handled that was thrown or waited for: a saved command has taken effect or is in
`unseen`. The inductive invariant `IInv` adds to them:

- `Awaited`: an invocation on the open connection is one that its loop waits for, and one that
  has returned is on the open connection. With it a loop that waits for nothing may send: no
  invocation of its last batch is left to be taken for a new one (`BatchSent`);
- `PhaseInv`: what the phase of an invocation says of its message: one that is about to be saved
  has taken effect or failed unseen; one that is about to be acknowledged has been saved or is
  unknown, which is why an acknowledgement loses nothing;
- `NoPoisonSaved`: what always fails is saved only when a failure of it went unseen, which the
  journal's `Handle` asks for;
- `UntroubledInv`: a message that never was in trouble has one invocation at most, and once it
  has taken effect it is saved or that invocation is about to save it.

The hub's steps change the set of invocations in one way (`Moves`), all other steps start
invocations or end them (`OutsideHub`); each part of the invariant needs its own argument for
the one or the other only. For the refinement, an acknowledgement that takes a message out of
all queues is `Forget`, the first row in the table `Handle` unless the page has forgotten the
command already, a failure that goes unseen `Waive`, and the steps that move a message from
queue to queue leave the journal alone.

### The inventory, while requests do not race

`HappeningsInventory_proofs` also proves

| Theorem | Property |
|---|---|
| `SerialStreamsCanBeReplayed` | `SerialStreamsReplay` |
| `SerialKeysAreUnique` | `SerialKeysUnique` |
| `TheDefaultIsKept` | `DefaultIsKept`, an action property, of racing requests as well |

The first two have a hypothesis beside the specification, `InitiallySerial`: the streams that
were there before were written by requests that did not race, either (`WrittenSerially`).
Streams that race could have written, which the assumptions of the module admit, refute both;
the streams of the run satisfy it. The invariant `Serial` speaks of events, not of lists:
between two creations of a key, ignoring case, lies its deletion, and what makes an event throw
(`HappeningSetAsDefault`, `HappeningStarted`) names a key that is alive at its time. A stream
with these two can be replayed, whatever the set it is replayed from; `RowsKept` ties the list
of a request in the middle of a replay to the events behind it. `DefaultIsKept` needs nothing of
this but its own premise, a list whose keys are unique ignoring case (which the second theorem
gives where nothing races): `Delete` removes every row of the key and looks at the first only.
If that is the default, another row, when one is left, is made it in the same batch.

### A checkpoint, whatever arrives late

`Checkpoint_proofs` and `CheckpointScans_proofs`, for any people, any number of commands, any
typed times and any threshold:

| Theorem | Property |
|---|---|
| `TypeIsCorrect` | `TypeOK`: types; the rows are sorted by timestamp |
| `SerialStreamReplays` | `StreamReplays` |
| `NobodyIsReadTwice` | `SerialOneReading` |
| `NobodyLeavesBeforeComing` | `SerialOutAfterIn` |
| `PassthroughReadsBoth` | `PassthroughInStep`, of overlapping requests as well |

`NobodyLeavesBeforeComing` is about the times that the aggregate keeps: the command's until one
is changed. Of typed times it says nothing; `SerialTypedOutAfterIn`, which does, is
model-checked.

These properties are about what a replay of the stream comes to, and a row that arrives late
takes a place among others: what is replayed after it was decided without it. The state before a
step says little about the state after it. So the invariant speaks of the rows alone, and the
lists are read off them:

- *From rows to lists.* `Live` are the rows that add a reading of a person and are not followed
  by a removal, `IsReadTime` is the last change of time behind such a row, or its own timestamp.
  `ReplayedRows`: a replay gets through if and only if every change of time has a live row
  before it (`Replayable`), and then a list holds one reading for each live row, in their order,
  the first at its time (`ReadsFrom`). This is an induction along the stream, for one list at a
  time (`ListOrigins`, `ListReads`); a *side* is the three kinds of rows that add to, remove
  from and change a list, so that in and out are one argument.
- *A row that takes its place.* `Shifts` is the embedding of the old rows into the new ones.
  What it does to a side is told by `ReadsStored`, `ReplayableStored`, `OneStored` and
  `ReadAtStored`, summed up in `SideStored`: wherever the row goes, it takes nothing from other
  people; it makes nobody read who was not, but for a row that adds; and, as long as nobody is
  added twice, the time of a first reading stays but for that person's own scans and changes.
  Rows that remove or change must come last for the stream to stay replayable: this is where
  `late` is needed, and why the server's clock on changes of time is.
- *Operations.* `Does` says what `AddScan`, `RemoveScan` and `ChangeScanTime` are in terms of
  rows: nothing, one row under a condition on the readings (`Done`), or the two removals of a
  passthrough.

The inductive invariant is then

- `KnownSerial`: without overlaps the request under way has read the stream as it is;
- `KnownReplays`: `StreamReplays` itself;
- `KnownPaired`: in a passthrough's stream, and in what its requests have read, in and out are
  added and changed by the same rows, and removals come in pairs with nothing added between
  (`Paired`). It holds of overlapping requests, because both rows of a pair have one timestamp
  and are stored together;
- `KnownReadings`: between two rows that add a reading of a person one removes it (`One`);
  whoever is read out is read in, at no later time (`OutNeedsIn`, `InOrder`); at the start
  nobody is read in. None of these has "if the stream can be replayed" as a premise, although
  the properties have: a stream that cannot be replayed refuses every request, so its rows stay
  as they are.

### A walk

`Walk_proofs`, for any finite set of walkers, any checkpoints and any bounds:

| Theorem | Property |
|---|---|
| `TypeIsCorrect` | `TypeOK`, which no run checks by itself |
| `NobodyIsScannedBeforeTheStart` | `ScannedAfterStart` |
| `NobodyQuitsAndCompletes` | `SerialQuitOrCompleted` |
| `ReadingsCompleteTheWalk` | `NoCompletionLost` |
| `CompletedIsReadAtFinish` | `SerialCompletedAtFinish` |

`PersonAssumption` says that the walkers are finite in number, which the choice of those who
started earlier needs. The parts of the invariant say what an invocation knows at each of its
steps:

- `KnownStarted`: what was read of the happening is still in it (nothing is ever taken from a
  stream), and an invocation that was validated, or has read a reading, belongs to somebody who
  has started. This is why overlaps do no harm here;
- `KnownQuit`: alone, an invocation decides on the happening as it is, and what it has validated
  stays so until it has recorded it;
- `KnownFinished`: as long as nothing breaks off, a reading at a finish, recorded or read,
  belongs to somebody who has completed or of whom an invocation is about to say so. Second
  scans, which announce nothing, are harmless for this reason only;
- `KnownAtFinish`: alone and unbroken, an invocation finds nothing but scans in at a finish, and
  none of them taken back.

### The report page

The first part of `ScanPage_proofs`, for any route, any people, any commands of others and any
bounds:

| Theorem | Property |
|---|---|
| `WhoIsExpectedHasLeft` | `ExpectedHasLeft` |
| `TopicIsStuckOnlyBy` | `TopicStuckOnlyBy` |
| `ReloadShows` | `ReloadShowsTheSame` |

Assumptions: those of the modules, that a route is a sequence of checkpoint types, a minute has
commands in it, the bounds are numbers, and the people finite in number.

The dashboard hears of events only, and takes an expectation back when it finds the visit that
an event is about. Whether it does is decided by the aggregates, so the invariant of the first
theorem ties the two:

- `OneVisit`: nobody has two visits at a checkpoint, or the one that is found could be another
  than the one that left;
- `OutIsRead`: whom the dashboard shows to have left a checkpoint has a reading out there.
  Without it a removal of a reading in, which takes the whole visit, could take one that has
  left, and the expectation behind it would stay. The aggregate removes the reading out first
  (`Ready`), but for a passthrough, whose two readings go at once: this is where the proof fails
  for passthroughs, and how the weakness below was found;
- `HasLeft`: `ExpectedHasLeft` itself, with the checkpoint before being one;
- `TypeInv`: that a time is never null, of typed times too, or a reading out would not be one to
  the dashboard (`TypedTime`).

What a command does at a checkpoint is taken from `Checkpoint_proofs` (`Does`): nothing, one row
under a condition on the readings, or the pair of a passthrough. `RowProjected` applies a row to
the readings and projects it to the dashboard; the pair is two rows. All that events do to a
dashboard is of the form `Changes`: other visits at one checkpoint, and fewer expectations or
one more behind it.

The second invariant is `QuitBackOnWire`: an event that takes a quit back is on its way only
after a quit was taken back. The rest is in the types: the wire is a sequence of events of the
server whatever is lost, and nothing but `AttendeeQuitRemoved` makes an Attendee throw.

`ReloadShowsTheSame` compares two ways of making a page: by loading it, and by having loaded it
and heard everything since. Dashboard and page are cut into *cells*, what each knows of one
person at one checkpoint (in, out, quit). An event changes one cell of the dashboard and one of
the page, by one function `CellAfter`, whichever of the two programs applies it; visits are rows
with a person each (`VisitsOK`), so equal cells are equal visits. Then

- `Leads(x, y, w, c, p)`: the events on the wire that are about this cell, applied in their
  order, take x to y. For a page that is loaded and has missed nothing, the wire leads each of
  its cells to the dashboard's (`Agrees`); at the end of the wire they are equal;
- `Settles`: while the page waits for its data, events are on the wire which the data will have
  in it already. Hearing them again has to leave a cell of the data as it is, and does because
  what an event writes is what the dashboard has written already, for a passthrough both times
  at once. It fails where an event takes something away that came back since, and these are what
  `past` remembers (`Excluded`);
- `CellInv`: the dashboard's cell is the readings of the aggregate, which is why an event on the
  wire finds the visit that it needs on the page (`Sound`, `Meets`). The invariant is
  `ServerCells` for the server and `PageInv` for the page.

### Scanning

The second part of `ScanPage_proofs`, for any people and keys, any codes that satisfy the
module's assumptions, and any bounds:

| Theorem | Property |
|---|---|
| `RowsAreRead` | `WholeReading`, an action property |
| `NeverAheadHolds` | `NeverAhead` |
| `SamePlaceHolds` | `SamePlaceWhenCaughtUp` |

A reader's buffer holds what was typed last since `Return`, whatever its timer has dropped
(`KeyInv`). What is handed over is therefore a suffix of what was typed, and `RowsAreRead`
follows from what the readers take for a code. The steps of `ScanPage` are steps of
`LiveReport`, or give commands, or are about acknowledgements (`ScanStep`), so that its
invariants hold of a page that scans as well.

The other two have the hypothesis `ScansOnly`: the other pages scan and do nothing else, as in
the run. A reading that is removed or changed elsewhere may put a person back, and a page that
has not heard of it is ahead, which is no fault of the page. With it nothing is ever taken away,
and `CellsKnown` says: the cells of the page, or of the data on their way to it, are behind the
dashboard's, and the readings on the wire are known to the dashboard. A person whose cells are
behind is inferred at no later checkpoint (`PlaceBehind`). `SamePlaceWhenCaughtUp` needs
`PageInv` in addition.

### People and registrations

`AdminPages_proofs`, for any people and registrations, delays, leads and errors of the clock:

| Theorem | Property |
|---|---|
| `AdminTypes` | types of the pages and the server (`TypeInv`) |
| `CreatedBeforeLinked` | `CreatedFirst` |
| `ListAgreesHolds` | `ListAgrees` |
| `RowsAgreeHolds` | `RowsAgree` |

Assumptions: those of the modules; `NewPersonAssumption` says that a barcode that the server
draws for a new person has not been drawn before (`RegistrationQueryController.cs:48`).

*Creation before link.* The page relies on two numbers: the link is sent 500 ms after the
creation and is stamped 1000 ms ahead. `ClocksHold` says what these must be good for: a command
that is not late is handled within less than the delay, two estimates of the time differ by less
than the lead, and none is wrong by as much as the lead is longer than the delay. The clocks of
the run satisfy it. The invariant `CreatedInv` has to follow a creation to the list:

- `InTime`, `OneCreation`, `NothingBefore`, `UndoneCreated`: a creation on its way is not late,
  the only one of its person, and nothing is stored of the person before it;
- `LaterReady`: a link that waits is about somebody who has been created with a smaller
  timestamp, or it waits longer than the creation will take (`WaitsFor`); `SentReady`: one that
  was sent is about somebody who has been created;
- `RowOwns`, `RowsCreated`: whom a row shows has been created or is about to be, for this row.
  Without it a second click could link somebody whose creation is still on its way for another
  row;
- `AllLinkedLast`: no row of a stream takes a place before the creation.

*The list and a replay.* `LinkPeople` is told event by event, the aggregate replays rows in the
order of their timestamps. As long as no row takes the place of another and no command fails, a
new row is the last (`PutAtEnd`), and a replay of the longer stream is one `When` behind the
replay of the shorter (`StateAfter`). The invariant is stronger than `ListAgrees`: nobody
attends twice (`ListTrue`).

*The rows of the page.* They show what will be. `HeadsFor(p, r)`: by the list and the commands
on their way, person p is linked to r or will be. `AgreeInv` says that the row of r shows
exactly those who head for it (`RowsTrue`), and nobody is linked while they are unlinked
(`OneWay`), unless a creation is on its way that fails for ever (`Doomed`): then the page never
catches up. The first attempt at this proof failed, because two other administrators can link
two people to one registration: the list has both, the page one of them. The run's bounds left
no room for it. The model now counts this among what others did (`past`), and the weaknesses
below name it.

### The page

`Site_proofs`, for any keys, documents, walkers, addresses, retries and bounds:

| Theorem | Property |
|---|---|
| `ListInvariant` | what the list of happenings and the commands on their way have to do with each other |
| `PageAgreesHolds` | `PageAgrees` |
| `MenuLeadsHolds` | `MenuLeads` |
| `AddressShownHolds` | `AddressShown` |
| `PathIsLineHolds` | `PathIsLine`, for documents that are `WellFormed` |

*The list of happenings.* The page changes its rows when it gives a command, the server when it
handles it. `ListInv` says of the rows what they will be right about, apart from the keys about
which the list was wrong when it was loaded (`dead`): those of deleted happenings, which it
keeps, and those it missed:

- `RowsPromise`: a key has a row if and only if it is `Coming`, there or about to be created,
  and not about to be deleted, and one row only;
- `DefaultPromise`: what the commands on their way make the default (`WillBe`) is what the page
  has chosen, or nothing is, or a happening that the list missed; and none of them deletes what
  is the default when its turn comes;
- `Hopeless`: a creation that will be refused is on its way, of a key that was ever created or
  will be by another command. It counts as a mishap when it is handled, and until then the rows
  may be wrong.

`ListTypes` has what the server's steps need: a key is in the list and among the rows once,
every happening has been created, and the row that is marked is that of the default, if it has
one. A key that was deleted cannot come back: its creation is refused by the table. What can
happen is that a happening is created whose key has a stream, because a path was added to it by
a command that came first: the list may miss it, and so may the page.

*The menu.* No two views' urls end alike (`EndingTells`), putting the happening in front changes
no ending (`WithHappening`), so that no two items of the menu have one url (`MenuUrlTells`) and
marking by url is marking by name. Every navigation yields a menu of this kind (`NavigatedIs`),
whatever the address is.

*The address.* `DeclaredIs`: Sammy finds the view that was declared for an address. It needs
`Unmistakable`: no pattern fits a longer address, apart from "/". Sammy binds its patterns to
the end only, so that `/x/h/about` would be taken for `/h/about`; no link of the pages is of
this kind, and `MCSite` asserts it of its addresses. `WalkerAddress`: the address that `Url`
makes for a walker leads back to that walker. The invariant `ShownInv` is then: the view is the
address's, and the view of walkers waits for a timer, or has selected who its address names, as
long as retries are left (`ShownPromise`).

*The route.* What is made of a pasted document are the points of its lines, in order
(`ParsingKeepsLines`), if the document is `WellFormed`: each `<LineString>` has one pair of tags
for its coordinates before it ends, and between these a separator behind each point. Without
that the code does otherwise: two points without a separator between them make one part that is
no pair. `MCSite` asserts it of its documents. Both sides are joined from parts (`Joins`, which
`FlattenIs` says the library's `FlattenSeq` computes), one part for each position. The proof
goes from one end of a line to the next: what has been taken so far is `Closed` and has the
points that were wanted so far (`LevelOn`), which says nothing of positions within a line, where
the code has taken all and the definition only a part. `SplitIs` says that splitting a tidy text
gives its points. The invariant `PathInv` is that whatever has coordinates, on the server, on
the page or on its way, has those of a document that was pasted.

### How lists are reasoned about

The replay is a fold, and the library's induction is stated for operators, which the provers do
not instantiate. `UpTo` (`Checkpoint_proofs`) states it for sets: the property of the first n
rows is turned into the set of all n that have it. `Recursion` says in the same way that a
function defined by recursion over 0 .. n is there. For this the folds of the model (`Removed`,
`States`, `AllStored`, `AllApplied`, `AllProjected`, `PublishedBy`, `PersonState`) are recursive
functions, and `Stored` names the place that a row takes, instead of filters of the library.

TLC has also checked the inductive invariants that it can evaluate, on instances like those of
the runs (for the commands' delivery on the run itself; for the rows of a checkpoint on three
commands and two typed times: 296,566 states; for the report on four commands of every kind:
593,568 states; for the list of happenings on four commands: 237,911 states; for its routes on
the run itself; for the rows of registrations on two people, one registration and four commands:
1,101,605 states). `PageInv` and `ScansInv` speak of all cells and of functions on the wire, and
are checked through what follows from them only.

### What is only model-checked

- `EventuallyHandled`, `EventuallyForgotten` and `EventuallyStarted`: fairness and `ENABLED` are
  beyond the prover.
- `SerialTypedOutAfterIn`: it needs the time shown for a reading beside the one compared, which
  the argument about rows (`ReadsFrom`) does not follow.

Every other invariant or action property of the passing runs is a theorem as well, and so is the
refinement.

## Findings

- `delivery_unseen`: `RedirectToWhen` does not look at a task that has failed already, although
  it waits "to be able to properly catch errors": a command whose append was refused is saved
  and acknowledged, and never sent again.
- `scans_typed`: the out reading is compared with the timestamp of the command that made the in
  reading, not with the time typed for it, and refused. Conversely one that is earlier than that
  time is accepted when it is not before the command.
- `scan_log`: the log takes the last acknowledged row of a person for the row of the event that
  comes, whatever reading it answers. The outcome of a reading made on another page is shown in
  it, too.

### Weaknesses

What the models showed besides. One comment is contradicted, which no run states:

*Streams and delivery.* Keys are unique to the list ignoring case, to the table exactly: two
overlapping creations get both in. "Only one message for the user can be running at the time"
(`CommandBus.cs:73-74`), but the list of running connections is a field of the hub object, of
which there is one per invocation, and holds ids of connections: a page that is loaded anew
sends a command again that the server is still executing. An acknowledgement removes a message
from outgoing and sent; the old `Bus` may have moved it to retry, and a handled command is sent
again: none is lost by this, and the server recognises it. Removals that arrive late can leave a
checkpoint that no request can read any more, which `StreamReplays` excludes.

*Scans.* At the start a person is read again and again (`Checkpoint.cs:104-105`). This is also
what makes a broken start recover: with the double reading refused, `EventuallyStarted` fails.
At the finish, where it is refused, an invocation that breaks off before `AttendeeCompleted`
loses the completion for good; `NoCompletionLost` says that nothing else does. Forms drop the
seconds, and what is typed is the beginning of a minute: a scan out typed in the minute of the
scan in is refused as coming before it.

*The report page.* An event before the data, or a quit taken back, stops the page from hearing
of anything until it is loaded again (`TopicStuckOnlyBy`). A changed time is not shown: the page
reads a field that the event lacks. Those who have quit or completed are pushed to arrays that
are read by id, so nobody is ever found there (`IsListed`). The dashboard does not handle
`AttendeeQuitRemoved`, and a quit at a checkpoint without a visit is not kept. When a reading is
removed at the second checkpoint, the expectation there is not restored
(`DashboardDenormalizer.cs:304`). When a scan is removed at a passthrough, the visit is gone
with the first of the two events, the second finds none (`DashboardDenormalizer.cs:161`), and
the walker stays expected at the checkpoint behind: this is why `ExpectedHasLeft` speaks of the
other types only. A passthrough whose in and out are one minute is offered
"ChangePassthroughScanTime", which the server lacks. Somebody who has left the last checkpoint
is scanned at none (`ReportViewModel.ts:94`): the command names no checkpoint and fails whenever
it is sent.

*People.* A link waits in memory only: a page that is closed within 500 ms has created a person
and not linked them. Nothing delays an unlink: handled before the creation it stores a row in
the person's stream, and the creation fails for ever. Linking to a new person after an unlink
sends the creation again, which fails for ever, too. All lists of people but that of the first
row go on offering who was linked since. Two other administrators can link two people to one
registration: the list has both, a page shows one. A deleted person stays in `LinkPeople`, and
the server does not ask whether a deleted person attends. A refreshed list of people is not what
the table shows.

*Routes and happenings.* A retry that fires after the reader has gone elsewhere changes the
address or the selection (`late`); the retries are never reset. After an address without a view
the item of the last view stays marked. A list of happenings asked for twice is not bound twice.
A creation that throws is sent for ever. The key of a happening that was deleted can never be
used again, as the table keeps its row key: its creation is refused and sent for ever, or
refused unseen. One whose stream exists, because a path was added to the key before, fails after
it took effect, and the list may miss the happening. The row of a deleted happening stays in the
list (`dead` in `PageAgrees`): the list looks for the id of the event
(`EditHappeningsDenormalizer.cs:49`). A document that begins with `<LineString>` is taken for
bare coordinates; one that breaks off inside a line loops for ever; parsing twice wraps the
pairs up once more.

## What is not modelled

- *Checkpoint list* (`CheckpointList`, the saga of a deletion): only that a happening with
  checkpoints is not deleted. No page gives the commands that create checkpoints.
- *Registration site*: a web application of its own, see the plan.
- *Calculators*: estimates in floating point, shown and not stored.
- *Controllers, authentication, HTML, command line, third-party code*: they hold no state of the
  system, or are run by hand.
- *Of the query models*: the CSV files, names, estimated times, and the replay of all events
  when the server starts.
- *Of the pages*: walking times and speeds, which a page computes when data comes; maps, charts,
  notifications; two tabs of a browser that share the queues in localStorage; the addresses of
  browsers without pushState.
- *Inside a component*: telemetry and logging; `Checkpoint.RemoveQuit`, which no handler calls;
  `UpdateContactInformation`; continuation tokens; a browser that is closed between two writes
  to localStorage.
- *Clocks*: `CommandDelivery`, `CheckpointScans` and `LiveReport` stamp commands with the
  server's time at the moment they are given; `AdminPages` also with an estimate that is wrong.

## Plan

Done: stream, delivery, walk, then the pages and lists that follow them.

Next modules, in order:

1. *Life cycle of a happening*: `CheckpointList`, `HappeningCreated`, `CheckpointValidated`,
   `DeleteHappening`: a saga over inventory, list and happening. Properties: one start and one
   finish; no checkpoint in a deleted happening; a deletion that is validated is carried out.
2. *Registration*: register, confirm and delete over one table with ETags, and the e-mail that
   may fail between.
3. *Start of the server*: the replay of all events into the query models while commands are
   already accepted.
4. *Calculators*: destruction and speed over bounded inputs, against a reference definition.

Theorems: those of the new modules.
