# linknx, modelled and verified in TLA+

linknx is an automation server for KNX/EIB buildings: it holds the values of
group objects, listens to the bus, lets XML clients read, write and watch
objects, and runs rules (conditions that switch actions) and timers. This
directory holds TLA+ models of it, TLC configurations that check them on
small instances, and proofs checked by TLAPS. Source paths are relative to the
root of the repository; its C++ is in `src/src/`.

The whole program runs on GNU Pth: **cooperative threads**. Control changes
hands only in a call that may block (`pth_*`, the EIB client, a socket), so code
between two such calls is atomic, and every model here puts its action
boundaries exactly at these calls. That makes data races impossible, and makes
the question "what may have changed while this call was blocked?" the one to ask
everywhere.

Contents: [1 Inventory](#1-inventory), [2 Modules](#2-modules),
[3 Runs](#3-runs), [4 Fairness](#4-fairness), [5 Proofs](#5-proofs),
[6 Where the code disagrees](#6-where-the-code-disagrees),
[7 Not modelled](#7-not-modelled), [8 Plan](#8-plan).

## 1. Inventory

| Component | Source | State | Operations | Interacts with | What is hard | What makes it correct |
|---|---|---|---|---|---|---|
| Rule | `ruleserver.cpp` 190-540 | `flags_m`, `prevValue_m`, four action lists | import, update, initialize, evaluate, execute lists, cancel | condition (listener), actions, RuleServer | evaluation blocks in its condition; overlapping evaluations; yields while cancelling | edges are seen exactly once; a cancellation reaches everything |
| RuleServer, start-up | `ruleserver.cpp` 20-190, `linknx.cpp` | `rulesMap_m`, RuleInitializer thread | import and delete rules, initialize all | KnxConnection::isReady | rules are configured before the bus is up; a failed import leaves parts behind | every rule is initialised, after the bus is up; it hears its triggers |
| Change dispatch | `objectcontroller.cpp` 190-560 | `value_m`, `init_m`, `readPending_m`, listener list | setValue, onWrite, onResponse, onUpdate, read | rules, clients, timers, storage, bus | the listener loop blocks half-way; reads nest on the bus thread's stack | nobody is left with an old value; storage agrees with memory |
| Object registry | `objectcontroller.cpp` 3180-3420 | id map, address map, `refCount_m` | import, delete, get, telegram dispatch | rules, clients | requests that fail half-way, counts that leak | telegrams reach the right objects; nothing dangles |
| Action threads | `ruleserver.cpp` 540-640, `threads.cpp` | `tid`, `should_stop` | execute, cancel, sleep, exit | Pth | two runs of one action share this state | a run can be cancelled, a cancelled run ends |
| Actions | `ruleserver.cpp` 640-1550 | loop counters, `running_m` | Run, cancel | objects, other rules, services | long loops with sleeps and unsigned counters; groups wait for and cancel sub-actions | groups take their sub-actions along; loops end where they should |
| Timer queue, tasks | `timermanager.cpp` 250-820 | `taskList_m`, `nextExecTime_m`, `value_m` | addTask, removeTask, checkTaskList, reschedule, onTimer | rules, objects | a fired task blocks while the queue changes; late tasks | sorted and complete queue; timers on exactly in their periods |
| Calendar search | `timermanager.cpp` 820-1330 | none | findNext, TimeSpec, exception days | objects, sun | month ends, wildcards, week days, summer time | the first date that fits is found; none is passed over |
| Conditions | `ruleserver.cpp` 1567-2500 | references, counters, last value | evaluate, onChange | objects, timers | short circuit with blocking operands; times taken before a wait | settled values; time counted neither too long nor forgotten |
| Value codecs | `objectcontroller.cpp` 560-3180 | raw values | parse, format, set, write, telegram | storage, other installations | fixed widths, rounding, limits, texts shorter than values | senders, receivers, storage and log have the same value |
| KnxConnection | `knxconnection.cpp`, `eibclient.c` | socket, `stop`, partial telegram | Run, checkInput, write, import | eibd | telegrams in two parts, nested dispatch, reconnection, stop | no telegram is misread or overtaken; the link comes back; stop returns |
| XML server, clients | `xmlserver.cpp` | `notifyList_m`, `msgbuf_m`, `connections_m` | requests, notifications, execute, accept, disconnect | everything | clients that hang up; requests in pieces; a client that replaces its own server | requests in order and answered; notifications end with the present value |
| IO ports | `ioport.cpp` | socket, listeners, receiving thread | send, receive, connect, import | actions, conditions | listeners that leave inside the loop; reconnection; joins | one run per message; the thread exists as long as listeners do |
| Configuration | `importXml`/`exportXml` everywhere | everything configured | write, save, load | everything | each attribute is read and written by different code | what was saved loads and restores the same; writing back what was read changes nothing |
| Persistent storage | `persistentstorage.cpp` | files, tables, time series | write, read, writelog | objects | order of writes; formats | (in `Dispatch` and `BusObject`) |
| Services, main | `services.cpp`, `linknx.cpp` | singletons | start, stop | everything | start and stop order | (configuration and start only) |
| Sun, Lua, gateways, logger, ticpp, b64 | several | none | none | none | floating point, pure I/O or third party | configuration only, or not modelled |

`PROJECT.json` lists the same components with their status, and under `hazards`
the places where the code is exposed to something a test would hardly reach,
with the properties that would notice.

## 2. Modules

| Module | Models | State and actions, in terms of the code |
|---|---|---|
| `EdgeTrigger` | what a rule promises | abstract: the remembered level and what the last step started |
| `Rule` | `Rule`, `RuleInitializer` | `prevValue`, `active`, `initMode` are the members; `pc[a]` is where a call waits. `EvaluateBegin`/`EvaluateEnd` and `Initialize`/`InitializeEnd` are the code before and after `condition_m->evaluate()` |
| `RuleLists` | `Rule::executeActions`, `Rule::cancel`, `ActionList` | extends `ActionThread`; `enabled` is the active flag, `visiting[c]` where a `Rule::cancel` stands in the order of the actions: it yields at each that it stops. `found` (what it found running) and `intact` (no two runs of the action have come into each other's way) are history |
| `Dispatch` | `Object::setValue`, `onUpdate`, `onWrite`, `onResponse`, `read`; the and, or, object and threshold conditions; `Rule::evaluate` | `calls[t]` is the stack of a thread, `cpu` the thread that runs; one action per stretch of code between calls that may block |
| `ActionThread` | `Thread`, `Action::execute/cancel/sleep` | `tid`, `raised` (`should_stop`), `at[a][k]` where run k of action a is; several runs of an action share `tid` and `raised` |
| `GroupAction` | `RepeatListAction`, `ConditionalAction` | extends `ActionThread`; the constant `Overlap` says whether an action may be executed while it runs; `round`, `current` are the loop variables of the two `Run` methods |
| `Actions` | the `Run` methods of all other actions, as sub-actions of a group | extends `GroupAction`; `pos` is how far a run has come, `level` and `lamp` what it sets, `telling` whose change still goes through the listeners, `running` is `running_m` of a cycle |
| `TimerManager` | `TimerManager`, `PeriodicTask`, timer conditions | `taskList`, `exec`, `value` are the members; `Fire` .. `FireEnd` is a `checkTaskList` whose `onTimer` blocks |
| `TimeCounter` | `TimeCounterCondition`, `FixedTimeTask`, the poll of `TimerManager::Run` | `counter`, `lastTime`, `lastVal`, `execTime` are the members, `queued` is membership in the list; `start[c]` is the time an evaluation took before it waited; `tells` counts the changes of the object whose listeners are being told while it is not yet the rule's turn (`Switch`, then `Tell`) |
| `Calendar` | `DateTime`, `TimeSpec` and its subclasses, `ExceptionDays`, `PeriodicTask::findNext` | operators for the search; `now`, `next`, `spec` for a timer that uses it |
| `ObjectController` | the registry, notification lists, write requests and rules as far as they hold objects | `objectMap`, `refCount` and what each client (`notify`, `writing`) and rule (`uses` in its condition, `acts` in its actions) points to; `stray` (references nobody will give back) and `broken` (objects whose own last request failed) are history |
| `Datapoints` | the `<Type>ObjectValue` and `<Type>Object` classes | no state: texts, telegrams, numbers and comparisons as operators |
| `BusObject` | one `Object` in several installations, with its storage and log | `value`, `known` (`init_m`), `stored`, `logged`; `Set` is `setValue` with the telegrams it sends, `Restart` is `importXml`; `Written`, `Read` and `LogEntry` are what files, tables and the time series database make of a text |
| `KnxLink` | the thread of `KnxConnection` on the socket of `eibclient.c` | `life` is where `Run` stands, `wire`/`inside` the parts of a telegram, `half`/`framed` what becomes of a head that arrives byte by byte, `reads` the stack of `Object::read`s inside each other, `event` the event a read waits with |
| `XmlClients` | `XmlServer`, `ClientConnection` | `phase[c]` is where `Run` of a connection stands, `msgbuf`/`msg` its buffers, `listeners` the list of the object, `at[t]` the iterator of a thread in its loop |
| `IOPorts` | `IOPort`, `RxThread`, the three port classes, `RxCondition`, `TxAction` | `rx` and `tx[t]` are where the threads stand, `own` is `sockfd_m` or `fd_m`, `sock` the life of each socket, `kind` which port it is and how it connects; `raced` and `lost` count the sockets that a double connection or a new configuration leaves behind |
| `ConfigXml`, `ConfigRules`, `ConfigObjects` | `importXml`, `updateXml`, `exportXml` of everything | no state: one table per class, with one row per attribute that says what both functions do with it |
| `Configuration` | `<write><config>`, `<admin><save>`, start | `live` is what is configured, `saved` the file, `hears` the listeners of each rule's condition, `leaked` references nobody returns |
| `RuleProofs` | - | the proofs about `Rule`, `RuleLists` and `Actions`, see section 5 |
| `ObjectProofs` | - | the proofs about `ObjectController` and `BusObject`, and about the conversions of `Datapoints` |
| `TimeCounterProofs`, `DispatchProofs`, `KnxLinkProofs`, `TimerManagerProofs`, `IOPortsProofs`, `XmlClientsProofs` | - | the proofs about the module each is named after |
| `MC*` | - | instances for TLC |

An operator with the comment "Mistake:" is not part of a model. It is what the
code would do with a plausible bug, and the properties were checked to notice it.
`TypeOK` says what the state of a module consists of; it is the starting point of
inductive invariants, and the runs, whose properties are about what types do not
show, leave it out. A property that is a conjunction of named parts is listed
under its own name; the parts are defined above it.

How they compose. `Actions` extends `GroupAction`, which extends `ActionThread`;
so does `RuleLists`. `Rule` says when a list is executed and `RuleLists` what becomes of
its actions; the first does not depend on the second, and the second allows a list to be
executed at any time, so each is complete without the other.
`BusObject` extends `Datapoints`, and takes from `Dispatch` only that a change is
sent, then stored. `Configuration` extends `ConfigObjects`, `ConfigRules`
and `ConfigXml`. `Rule` and `Dispatch` look at the same rule from two sides:
`Rule` abstracts the condition to a value that arrives some time later, and keeps
everything the rule does with it; `Dispatch` keeps the conditions, the objects
and the threads, and of the rule only `prevValue_m`. What `Rule` proves about the
order in which evaluations conclude, `Dispatch` completes by what the last of
them found. `KnxLink` completes `Dispatch` on the other end: it keeps what a
nested read does to the socket and to the telegrams on it, and abstracts what the
listeners do with them. `TimerManager` takes occurrences as given, `Calendar`
computes them.

### Faithfulness: assumptions and abstractions

* *Rule.* The condition returns any value after any time. One rule; it is neither
  deleted nor given a new condition (that is in `Configuration`). Which lists are
  started is what counts here; their cancellation is in `RuleLists`.
* *RuleLists.* An action works, sleeps and ends at any time. A list may be executed, and
  the rule switched on or off, at any time, the walk of a cancellation included.
  The bound `MaxRuns` lets a list be
  executed only while each of its actions has fewer runs.
* *Dispatch.* Switching objects with default flags, one per address, active
  rules. A threshold measures one switching object (two levels), and another resets it. The run lets only the first operand of a condition be unread.
* *ActionThread.* A raised semaphore wakes all sleeping runs at once, because
  `pth_sem_inc` yields and the scheduler looks at all events. An action has several
  runs at a time in `RuleLists`, and one in `Actions` (`Overlap = FALSE`,
  `MaxRuns = 1`): what a second run does to a group is not modelled there; section 6
  says what it does to a cancellation.
* *GroupAction, Actions.* The period of a repeat action covers a run of its
  sub-actions. All sub-actions share one number and one lamp. What a listener
  does when the level changes is one step of its own, which may come late.
  Levels fit an unsigned int of `UIntSize` values; the index of `DimUpAction` wraps
  around at that size, the product inside its increment (`ruleserver.cpp:651`)
  is not wrapped.
  Sending a mail or a short message is one step, since it holds up the program.
* *TimerManager.* A time specification is the set of its occurrences. Objects
  a timer depends on have values, so that `findNext` does not block. No
  `initval`. "One minute late" is `Late` units, and occurrences are multiples of
  it, as those of the code are whole minutes.
* *TimeCounter.* Seconds are units; one counter over one object, as the condition
  of a rule or its first operand. A read takes `ReadLimit` seconds at most, which is 1
  in the code; the reset delay may be 0. The object changes in one step (`Switch`) and the
  rule is told in another (`Tell`), any time later, since other listeners come first and
  may block; up to `MaxTells` changes are on their way. The timer manager is on
  time; after it found an empty list it sleeps `Long`. One other task, never
  due, comes and goes.
* *Calendar.* Years of a few short months, days of a few short hours, and a
  week of three days: the search goes field by field, and only compares and
  carries. `mktime` and `localtime` are modelled with the change of the clocks.
  A search that leaves the years of the model is `Beyond`. Sunrise is a table.
* *ObjectController.* The configuration of one object is one step, since
  nothing in it blocks. `MaxFailures` bounds the requests that fail half-way;
  `Polite` restricts clients to unregistering what they registered. Deleting a
  rule gives back the references of its condition, and leaves those of its actions
  (`stray`); so does a copy-value action that is replaced, and a request that is
  refused leaves those it had taken.
* *Datapoints, BusObject.* A text is what its digits, words or characters denote
  and a telegram the sequence of its data bytes. The bytes of the wide integers
  have `Byte` values (4 in the run, 256 in the code), so that all telegrams of up
  to four bytes can be enumerated; the others have bytes of eight bits. Two byte
  floats are in hundredths, four byte floats have `Bits` bits of mantissa of which
  `Shown` decimal digits are printed; strings have `Room` characters.
  Inputs are texts the type accepts, numbers within its range and telegrams
  that follow the datapoint type. `Agree` allows one step to
  percentages and angles, whose texts are shorter than the values, and one
  rounding for the telegram and one to the precision to floats that have one: with
  a precision of 0.1 an installation that sets 2623.9 sends 2621.44, and the
  others keep 2621.4, which has the smaller exponent.
  A file is read up to a byte 255. The time series database takes a text for a number, a
  Boolean, a quoted text or nothing (`Field`), and refuses what is not of the kind its field has; it is
  given no strings and no integers of eight bytes, and the two words of a switch are
  both Booleans or both not. Two decimals of its log are those of `Cent`.
* *KnxLink.* A telegram is a head and a body, good or bad; what the listener does
  with it is to begin reads or nothing. `eibd` always finishes what it began to
  send, or closes the connection. A head is read in one piece or byte by byte. In the
  second case the code stores the second byte past its array and takes one that was never
  read for the size (`framed`): from there on whatever arrives may be taken for
  telegrams, a telegram that never ends may be waited for, or the program end (`crashed`), up
  to a new connection. Between the bytes, the second one is always on its way.
* *XmlClients.* One object, of Boolean value. A request is one body character
  and the end character; the socket gives them in pieces of any size up to
  `ReadSize`. Using freed memory is `crashed`.
* *IOPorts.* Messages are the expected one, another, or an empty one. Sockets are
  numbered and not reused while open; those of UDP and serial ports that a new
  configuration overwrites stay open (`lost`), as does one that is in use when
  `permanent_m` changes. A serial device can always be opened. Requests of
  the administrator come one at a time; ports are not deleted. Joining a thread that
  connects for every message, while the peer refuses, does not end. A thread that never yields again is `hung`: nothing runs any more.
* *Configuration.* XML is a tree of tags and attributes, a number is in
  thousandths, a text a sequence of pieces. A table row says what `importXml` and
  `exportXml` do with one attribute, so the two cannot be forgotten, only found
  not to fit. Elements come one by one, and refused ones leave what the code had
  done up to the exception.

## 3. Runs

| Run | Instance | States | Shows |
|---|---|---|---|
| `RuleOverlap` | 2 callers and the RuleInitializer, all init modes, activation and deactivation; and 2 actions in the first and the last list, up to 2 runs of each, a thread that cancels | 205,026 | a rule implements `EdgeTrigger` on the order in which evaluations conclude; one configured before the bus is up is initialised; a cancellation stops what it found running, unless two runs of an action have come into each other's way (`ImplementsEdgeTrigger`, `EventuallyInitialised`, `CancelStops`) |
| `Dispatch` | 2 objects; an and-, an or- and a threshold rule over both; a blocking client; 2 threads and the bus thread; up to 4 nested calls | 2,421,562 | when everything is quiet, each rule remembers the truth of its condition, the threshold its reference, and the storage the present values (`RulesSettled`, `StorageSettled`) |
| `TimerQueue` | a pulse moved by an object, a period with an end, one with a duration, a repeating duration; 9 time units | 492,624 | the queue is sound; no occurrence is overslept; timers are on exactly in their periods, and begin as they should (`QueueSound`, `FollowsSchedule`, `FirstScheduleRight`) |
| `TimeCounter` | threshold 3 s, reset after 2 s off, 2 evaluations that wait 1 s, 2 changes the rule is not told of yet, 15 s | 1,909,944 | the time counted is too long by nothing but what was told or read late, the rule becomes true and is reset in time, and the counter never drops out of the list (`NeverEarly`, `InTime`, `Pending`) |
| `Calendar` | 3 years of 3 months of 2 or 3 days; 4 hours of 2 minutes; fixed, variable and solar specifications with free fields, week days, exception days, offsets | 81,170 | the search finds the first date that fits, from any start; no occurrence is passed over while the timer fires or its object changes (`FindsFirst`, `NoneMissed`) |
| `Objects` | 2 objects, 2 addresses, 2 clients, 1 rule with condition and actions, counts up to 2, one request that fails half-way | 183,547 | no stale address, nothing dangles; only an object whose own last request failed is missing in the address map; the usage count is the number of pointers and of references left behind in the known ways (`NoStaleAddress`, `EveryAddressReached`, `CountsPointers`, `NothingDangles`) |
| `Datapoints` | 26 datapoint types, 2 installations, files, tables and a time series database; texts and numbers at the limits of each type, all telegrams of one byte and of the small wide integers | 8,481 | all installations have the same value, its stored text is accepted and restores it but for what the database mistakes, the log tells the same as far as its decimals do, a copy by number is exact but for some dates, and comparisons follow the numbers (`Agreement`, `StorageAccepted`, `LogTellsStored`, `NumbersStandForValues`) |
| `KnxLink` | 2 telegrams in two parts, one head byte by byte, 2 nested reads of 2 tries, 2 failures, 1 new URL | 1,055,808 | no telegram is misread, doubled or overtaken, before a head in pieces; a lost link comes back unless the program ends; stopping the thread returns (`TelegramsInOrder`, `LinkRestored`, `StopReturns`) |
| `XmlClients` | 2 connections with 2 requests each of every kind, 2 changes by the bus, 1 failed restart, pieces of up to 3 characters | 117,735 | requests are handled in order and answered; an answered success is one; registered clients end with the present value; nothing dangles (`AnswersRight`, `NothingDangles`, `Informed`, `Answered`) |
| `Actions` | a repeat (2 rounds) or conditional action with 2 sub-actions in 7 pairings, 3 dim configurations, a cancelling thread; one run of an action at a time | 465,255 | a group outlives its sub-actions, loops run their course (a halted cycle stays halted, dimming completes or yields to an override), every execution ends (`GroupOutlivesSubActions`, `LoopsRunTheirCourse`, `EveryExecutionEnds`) |
| `IOPorts` | 5 kinds of ports, which may turn into each other where the code allows it, 2 rules, 1 sender, 6 sockets, 2 messages, 3 requests, 1 fault | 523,064 | a rule runs once per message, nobody is left out, the receiving thread is there when it should, open sockets are in use but for those that new configurations and double connections leave, messages are received, requests end (`OneRunPerMessage`, `NothingLeaks`, `Received`, `RequestsEnd`) |
| `Config` | elements that use every row of the tables, on a configuration with clock, light, dimmer and rule; 2 writes, then save and restart | 23,866 | all pointers have the right class; rules hear their triggers; what was saved loads; a restart restores it; writing back what was read changes nothing (`PointersHold`, `HearsTriggers`, `RestartRestores`, `RewriteChangesNothing`) |

Why these bounds are enough. Two callers (and the initializer) already give
every order of "read before the wait, write after it"; a third repeats the
pattern. Two runs of an action can end in either order, beside a cancellation of
it that has begun; the run explores `Rule` and `RuleLists` side by side, one
of them in each behaviour, since neither depends on the other. Two objects and rules over both give each short circuit and each
overtaking of one change by another. The nesting bound 4 lets a read open
inside a read with a dispatch in between. The clock of the timers runs past two
starts and ends of every timer, that of the counter past two expiries and
resets; two evaluations can overtake each other, and two changes be told
together. The small
calendar has a leap day, months of different lengths, and both changes of the
clock inside its range, and every start is tried. Two addresses and two objects
give a move, an exchange and a shared address; usage counts up to 2 let one of two
holders, of any kind, go while the other stays. A byte of four values has a sign bit, a carry into
the next byte and a highest value, which is what the conversions of integers
depend on. Two nested reads let the limit of either pass first; two telegrams
let one be thrown away or misread before another, and two failures let a new connection be lost
or refused once more. Two connections give one in a listener
loop while the other registers, leaves or stops the server. Two sub-actions let
one disturb the other, and two rounds restart both. Two listeners are enough for
one to leave while the loop stands on the other. Two writes give a configuration
and an update or deletion of it.

Deadlock is not checked where the system may stop: when the inputs a
bound admits are used up (`KnxLink`, `XmlClients`, `Actions`, `IOPorts`, `TimeCounter`), at
the end of the calendar, and after a restart from the saved file.

## 4. Fairness

Safety needs none; `Calendar`, `Config`, `TimeCounter`, `TimerQueue`, `Objects`,
`Datapoints` and `Dispatch` state none. Liveness assumes only what the
scheduling of the code gives:

* `Rule`: `RunInitializer`, since the RuleInitializer thread polls `isReady()`
  every second until it is true (that the connection gets ready is not assumed);
  `Finish`, since `Object::read` waits a second at most for each object. `MCRule` assumes the same of
  the behaviours in which `Rule` moves.
* `KnxLink`: `Thread` and `Joined`, a ready thread is scheduled; `Expire`, time
  passes; `Daemon`, eibd answers a request to open the socket, or fails, and
  finishes what it began to send, or closes the connection. That telegrams arrive
  is not assumed.
* `XmlClients`: `Run(c)` and `BusAdvance`, the threads of connections and of
  the bus are scheduled. This includes that clients read what is written to them:
  one that does not holds up every thread that notifies it.
* `Actions`: the runs of the group and of the sub-actions (`GroupRun`, `SubStep`),
  whose sleeps end by their timeout; the rest of a cancellation (`StopEnd`);
  `Listening`, a listener that blocks returns.
* `IOPorts`: the receiving thread, the sender, and the request that waits for
  the thread to be joined. That the peer sends or accepts anything is not assumed.

Environment steps (changes, telegrams, cancellations, configuration, failures)
are never fair.

## 5. Proofs

| Theorem | Says | Under |
|---|---|---|
| `RuleProofs!RuleTypeOK` | `Spec => []TypeOK`; the next theorems rest on it | any callers |
| `RuleProofs!RuleImplementsEdgeTrigger` | `Spec => ImplementsEdgeTrigger` | any callers |
| `RuleProofs!CancelStopsEver` | `ListsSpec => []CancelStops` | any lists, actions, runs of each at a time, and cancelling threads |
| `RuleProofs!GroupOutlivesSubActionsEver` | `ActionsSpec => []GroupOutlivesSubActions` | any actions and cancelling threads; one run of an action at a time (`MaxRuns = 1`, `~Overlap`) |
| `RuleProofs!LoopsRunTheirCourseEver` | `ActionsSpec => LoopsRunTheirCourse` | the same, and `StepsFit` |
| `ObjectProofs!NoStaleAddressEver` | `Spec => []NoStaleAddress` | any objects, clients, rules, addresses and failures |
| `ObjectProofs!EveryAddressReachedEver` | `Spec => []EveryAddressReached`: of the objects whose own last request did not fail | the same |
| `ObjectProofs!CountsPointersEver` | `Spec => []CountsPointers`, references left behind (`stray`) counted | `Polite` clients, any failures |
| `ObjectProofs!NothingDanglesEver` | `Spec => []NothingDangles` | `Polite` clients, any failures |
| `ObjectProofs!AgreementEver` | `BusSpec => [](Covered => Agreement)` | any installations, types, texts, numbers and telegrams; `BusConstants` |
| `ObjectProofs!StorageAcceptedEver` | `BusSpec => [](Covered => StorageAccepted)` | the same |
| `ObjectProofs!LogTellsStoredEver` | `BusSpec => [](~(storage = "influxdb" /\ type.class = "float32") => LogTellsStored)` | the same |
| `ObjectProofs!NumbersStandForValuesEver` | `BusSpec => [](Covered /\ type.class # "string" => NumbersStandForValues)` | the same |
| `TimeCounterProofs!PendingEver` | `Spec => []Pending` | any evaluations, changes, threshold, and delay, 0 included; `ShortReads` (`ReadLimit <= 1`) |
| `TimeCounterProofs!NeverEarlyEver` | `Spec => []NeverEarly` | the same |
| `TimeCounterProofs!InTimeEver` | `Spec => []InTime` | the same |
| `DispatchProofs!DispatchTypeOK` | `Spec => []TypeOK`, call stacks included | any objects, rules and threads, any depth of nesting |
| `DispatchProofs!StorageSettledEver` | `Spec => []StorageSettled` | the same |
| `DispatchProofs!RulesSettledEver` | `Spec => []RulesSettled` | the same, and `FirstOperandsWait` |
| `TimerManagerProofs!QueueSoundEver` | `Spec => []QueueSound` | any tasks, occurrences and dependencies |
| `TimerManagerProofs!FirstScheduleRightEver` | `Spec => FirstScheduleRight` | the same, and `Regular` |
| `TimerManagerProofs!FollowsScheduleEver` | `Spec => []FollowsSchedule` | the same, and `ShiftsStand` |
| `KnxLinkProofs!TelegramsInOrderEver` | `Spec => []TelegramsInOrder`, which promises little from a head in pieces to the next connection | any telegrams, nested reads, failures and heads in pieces |
| `XmlClientsProofs!AnswersRightEver` | `Spec => []AnswersRight` | any clients, requests and pieces |
| `XmlClientsProofs!NothingDanglesEver` | `Spec => []NothingDangles` | the same |
| `XmlClientsProofs!InformedEver` | `Spec => []Informed` | the same |
| `IOPortsProofs!OneRunPerMessageEver` | `Spec => []OneRunPerMessage` | any rules, senders, sockets and requests |
| `IOPortsProofs!NothingLeaksEver` | `Spec => []NothingLeaks` | the same, and any kinds of ports |

Otherwise the assumptions are the named `ASSUME`s of the modules, which TLC
evaluates in every run. Hardly any property is inductive as it stands. What each
proof adds, and why:

* *`RuleImplementsEdgeTrigger`* is a step simulation under `level <- prevValue`:
  the ends of evaluations map to `Sample`, initialisations to `Reset`, commands to
  `Force`, all else to `Quiet`. It needs nothing but the types, because the code
  reads and writes `prevValue_m` in one stretch after the wait.
* *`CancelStops`* is about the end of a walk. `ListInv` says it of every step before:
  what a cancellation found of the actions it has been at is told to stop, over or
  executed again (`VisitedTold`). A walk passes over an action without thread id;
  that this is right (`Cancellable`), and that the action somebody is stopping has
  its semaphore raised (`StopsRaised`), holds for `intact` actions only. Two runs that
  came into each other's way may have no id, and the code keeps no promise
  about them (section 6).
* *Actions* (`ActionInv`). A group that is cancelling, or has gone, has left no
  sub-action behind that it did not tell (`Parented`). For that a live run has an
  id or was told (`Reached`): `StopEnd`, `RunExits` and `CancelAction` clear the id, so
  who is going to clear that of the group must have told it to stop (`StopsKnown`). All of it is
  about the one run an action has.
* *`LoopsRunTheirCourse`* (`LoopInv`). That the last value is reached needs to know
  where a dim action is: between its two values, the level being the
  value it set last while nobody else sets it (`DimInv`). `StepsFit` says that
  the last value and one step fit an unsigned int: on the way up the code
  does not look (section 6). The pairs of the run fulfil it.
* *`NoStaleAddress`*: `IInv` says of every entry that its object exists and has this
  address; an object that is created again must find none. `EveryAddressReached`
  needs the reverse (`Complete`) of every object but those that are `broken`: a
  failed request takes entries of its own object out, and none of others.
* *`CountsPointers`* and *`NothingDangles`* share `CountInv`: the count is the
  number of pointers and of `stray` references, and 0 for an object
  that does not exist. A reference left behind keeps its object for good, which is a leak, but
  protects the actions that still point to it. `Polite` is needed, since to unregister without a registration
  takes away the reference of another. The counting rests on lemmas about the
  cardinality of the sets of holders when one of them comes or goes.
* *`Agreement`* and *`StorageAccepted`* share `BusInv`: there are two values, the one
  that was set and what the others received of it, and every installation has one
  of them or one of those read back, and has stored the text of a value that
  reads back as its own or as what its own reads back as (`Held`). Without the
  storage in the invariant a restart could bring back an old value. That all
  these are the same to the users (`LotAgrees`) rests on one lemma per class
  (`IntCodec`, `SwitchCodec`, `StepCodec`, ..., `StringCodec`): what becomes of a
  value that is written and read back, or sent and received. For the integers
  it comes down to sums of digits in any even base (`BytesAddUp`), for
  percentages and angles to the rounding of the text, which loses one step at
  most (`ScalingTextNear`, `AngleTextNear`). A float of two bytes is rounded to a
  multiple of a power of two when it is sent and to one of the precision when it
  is set; that neither rounding is done twice (`CarriedExactly`, `NearestExactly`),
  and that the telegram is read as what it was written from (`FloatReceived`),
  rest on a table of the powers of two, division towards zero (`TowardsZero`) and the
  least exponent that will do (`Exponents`). `Covered` are the types and storages
  for which this is so: all classes but floats of four bytes, integers of eight and
  strings of Latin-1 (`Plain`), and not strings of any bytes in files or colours in
  the time series database (`Faithful`), which lose some of their texts (section 6). `BusConstants` says what the
  code leaves to the configuration and to the other devices: that numbers and
  telegrams are in the range of the type (`InRange`; section 6), that the
  range of a float has zero in it and is not left when its ends are rounded to the
  precision (`Floats`), and that a switch has two words that are told apart.
* *`LogTellsStored`* (`LogInv`) needs only which texts
  the storage and the log of a class take: both have the same text, or one of
  them never has any (`SameTexts`). In the time series database one of them misses some of the
  values of percentages, angles, colours and characters, which the property leaves out
  (`LogLags`), and the log rounds floats of four bytes to two decimals: that
  these two texts agree as far (`LogRounds`) is checked by the run only.
* *`NumbersStandForValues`* needs that held values are values of the type. Dates and
  times are in the order of their numbers (`DatesOrdered`, `TimesOrdered`), though
  the months of a date number have 31 days and its years 400.
* *`Pending`*: an evaluation that waited puts the counter into the list only if it
  is due later than now, so a wait has to be short (`Waits`); and the timer manager
  takes the task out, which is right only if it finds the counter reset or at its
  threshold: while the reset is awaited, the task must not be due before it
  (`DueForReset`). `ShortReads`: a read takes a second at most (the limit in
  `Object::read`). For any reset delay of a second or more nothing is left out. With the
  delay 0, the default, the counter drops out of the list after an evaluation that waited
  and found the object changed (section 6): `Pending` and `InTime` are about the
  states without one since the last reset (`waited = 0`).
* *`NeverEarly`* and *`InTime`* (`JInv`): the counter plus what is not counted yet is
  neither ahead of the time the object was on or the rule not told that it changed
  (`trueTime`), by more than evaluations that found a change have `waited`, nor behind the time since
  it was switched on (`Counting`); the last evaluation has seen the object as it is, unless
  the rule has still to be told (`InStep`); the timer manager wakes in time for what is queued (`Polling`).
* *Dispatch.* Types first: stacks are sequences of open calls. `StorageInv`: what is not
  stored yet is the object of an open update, which stores the value it finds then,
  not the one it was called with. `RulesInv`: a rule that does not know its condition
  is being evaluated, or is still to be notified in some open loop. For that an
  evaluation that has looked at an operand must not have waited since
  (`EvaluationsInv`), which is true if all operands but the first have values
  (`FirstOperandsWait`, `LaterKnown`). It is not an artefact of the proof: without
  it the property is false (`ruleserver.cpp:1629`, listed as a hazard).
* *`QueueSound`* (`QueueInv`). That no timer sleeps over its next occurrence is true
  of the waiting tasks; the one that fires is in front still and will be
  rescheduled, or was rescheduled meanwhile (`FiringKnown`). A timer without
  duration is on only while it fires (`PulsesEnd`).
* *`FirstScheduleRight`* and *`FollowsSchedule`* (`AtRest`, `ScheduleInv`): the next change
  of a timer with an end is one of its ends if it is on, one of its starts if it
  is off, and up to then it is on as it should be (`Waiting`); while it fires it
  stays in front, less than a minute after its time (`Turning`), so that the search
  from there passes over nothing. `Regular` is what the guess of the first schedule
  relies on: starts and ends that come again, periods that do not touch, a start
  before each end. `ShiftsStand` says that times are whole minutes, and that no
  object moves the timer. The run's schedules fulfil both; section 6 says
  what happens to others.
* *`TelegramsInOrder`* (`StreamInv`). While the size of a telegram is known (`framed`), heads and bodies alternate from what was read to
  what is still to be sent (`Framed`), a head and the body behind it belong together
  (`Paired`), in the order of the bus (`Ordered`); each telegram is on its way,
  handed over, or thrown away, the first behind the others (`Accounted`). Only a
  head in pieces ends this (`OnlyByPieces`), until the next connection.
* *`AnswersRight`* has two halves. `StreamInv`: what was handled, what is in the
  message, in its buffer and on the socket, is together what was sent, in order.
  `TruthInv`: once an action was deleted too early the request is not answered with
  success.
* *`XmlClients!NothingDangles`* (`LivesInv`): one thread at a time replaces the server,
  and knows of every connection that is not told yet.
* *`Informed`* (`InformedInv`): a registered client that has not heard of the value has
  a thread in its loop that has not come to it, or will have one. The list
  changes under the loop: what `removeChangeListener` does to a position is in
  the lemmas about `ListenersBut`.
* *IOPorts* (`PortInv`). The rules that are owed a message are ahead of the position
  of the walk (`OwedAhead`), whichever listeners come and go. Every connection
  that is being made has somebody who waits for it (`Awaited`), so the open sockets that
  nobody holds (`Loose`) are no more than the double connections and the configurations that
  leave one (`SocketsInv`).

What stays with TLC, and why:

* Liveness and all that needs `ENABLED`: `EventuallyInitialised`, `LinkRestored`,
  `StopReturns`, `Answered`, `EveryExecutionEnds`, `Received`, `RequestsEnd`.
* `Configuration`, `ConfigRules` and `ConfigXml` are about trees and use recursive
  operators, which the provers cannot be used with.
* `Calendar` searches with recursive functions, and what they compute needs
  induction over data.
* `BusObject` for the other types: a float of four bytes is scaled by powers of two
  and ten, for which the provers have no arithmetic, a text in Latin-1 is put together by a
  fold, and so is the number of a string. Integers of eight bytes do lose their
  upper half (section 6).

## 6. Where the code disagrees

What the models brought to light. The properties of the runs leave these cases
out, by the inputs of a run or by a named exception; the models themselves
behave as the code does.

*Rules and dispatch.* After one read request that nobody answered,
`readPending_m` stays set, and later requests are not sent
(`objectcontroller.cpp:432`), although ChangeLog:59 offers an action to send
them. `Rule::cancel` does nothing on an inactive rule (`ruleserver.cpp:467`), so
one that is switched off while its actions run can no longer be cancelled; one
switched off while its initialisation waits still runs a stateless list. The
last transmission a source condition looks at (`lastTx`) changes without an evaluation.

*Actions.* When an action is executed again while it runs, its runs share `tid` and
`should_stop`. The run that ends first clears `tid` (`threads.cpp:27-28`), and `Stop`
then returns at once (`threads.cpp:54-55`); a run that begins while `Stop` yields is
forgotten behind it (`threads.cpp:58`). Such a run is out of reach of any cancellation,
although `threads.h:74` has `Stop` stop the thread, and ChangeLog:58 has the
cancel action cancel all ongoing actions of a rule. `CancelStops` excepts exactly these runs
(`intact`). Executing an action also resets the semaphore a stopped run has not seen yet. All
this includes sub-actions longer than the period of their repeat action. A dim action with duration 0, or with
equal values, divides by zero (`ruleserver.cpp:651`, `670`). On the way down the
index is tested before it wraps around (`ruleserver.cpp:683`), on the way up it is
not: with a last value nearer to the end of an unsigned int than one step, the
index may pass it and begin again (what `StepsFit` excludes). A set-string
action whose text does not fit its object throws out of its thread
(`ruleserver.cpp:963`), and the program ends.

*Timers.* A timer with one last period, configured inside it, begins switched
off: `findNext` says 0 for "never", and `stop < start` fails; one whose end never
comes again begins on. So does one configured before its first start if an end is
nearer, and one inside a period that reaches, or overlaps, the next begins off
(`timermanager.cpp:754`; what `Regular` excludes). A task more than a
minute late is skipped. The timer manager that found its list empty sleeps up to
ten seconds whatever is added. A time counter without a reset delay, the default, whose
evaluation waits is "not rescheduled", and reset by the next evaluation only. An object tells
its listeners one after the other (`objectcontroller.cpp:470`), and one of them may
block: a rule that is told late that the object is off has counted this time too
(`trueTime`, `waited`), so it may become true early. As a later
operand of and/or, a time counter is not evaluated when the first decides, and counts wrong.

*Calendar.* (names of the exceptions) With exception days, the hour after the one
that summer time skips is passed over (`LostHour`). A timer for a minute of every
hour of one day of the month goes astray on the last day of a month
(`HourlyOnDay`, `AfterMonthEnd`). In the hour that comes twice the search may say
"never" (`Repeated`). A solar timer with a date finds the first day of the next
month or year only (`WithoutDate`). A negative offset longer than the time between
occurrences loses some (`OffsetWithinPeriod`).

*Objects.* A refused deletion has already removed the object from the address map
(`ObjectController`); a reconfiguration that does not mention the listeners resets
the address for read requests; unregistering without a registration (`Polite =
FALSE`) takes away someone else's reference. The actions of a deleted rule, a copy-value
action that is replaced, whose destructor gives nothing back (`ruleserver.cpp:739`), and requests that are refused
half-way, leave references behind (`stray`): `Rule::~Rule` deletes the condition only
(`ruleserver.cpp:195`), and the lists delete nothing (`collections.h:31`). The objects can
never be deleted afterwards: "Object still in use" (`objectcontroller.cpp:3283`) of a count
meant to prevent the removal of objects in use (ChangeLog:25). An update of an object whose type is
not supported uses a null pointer (`objectcontroller.cpp:244`).

*Values.* "Off" under control (2.001) is sent as 0x82, and received as "on". A 64
bit number with bit 31 set loses its upper half when it is received. Numbers a
formula sets and telegrams are not checked against the range of the type. A
negative number given to a time is "now", and sent as 31:255:255. A telegram
that brings characters its string type refuses ends the program
(`objectcontroller.cpp:3119`). The time series database refuses colours with
letters, of which it takes some for powers of ten, and takes
the characters t and f for Booleans; its log refuses percentages and angles with a fraction, has two decimals of floats of four bytes where
the storage has eight digits (`persistentstorage.cpp:480`), and t or f for control (`464`).
A file is read up to a byte 255 (`persistentstorage.cpp:111`), which a string of bytes
may have. The file of a value is written in place (`persistentstorage.cpp:97`):
a stop in between loses it.

*Bus connection.* A bad telegram closes the connection, which comes back after a
minute. `isReady_m` is never reset. A read in progress does not look at the stop
semaphore, and delays `Stop` by its limit. When the head of a telegram arrives byte by
byte, the second byte is stored at `&head + con->readlen` (`eibclient.c:324`), which is
behind the array, and the size is made of a byte that was never read: what follows is
misread, or waited for, or the program ends. Outside the model: two threads may
interleave the two writes of one request (`eibclient.c:272`), and a connection is
freed while another thread may be blocked in it.

*IO ports.* Two threads that connect a permanent port at the same time open two
sockets, one of which nobody keeps (`raced`). A new configuration of a UDP or
serial port overwrites the old socket or device without closing it (`ioport.cpp:272`,
`614`), and one that changes `permanent_m` (`ioport.cpp:408`) leaves a socket that is
in use to nobody (`lost`). A thread that connects for every message does not look at
its semaphore while the peer refuses, so the request that joins it waits. An empty datagram, or the end of a
serial line, ends the receiving thread. When the peer of a permanent TCP port
closes the connection, the thread reads the same socket again at once and for
ever, without yielding (`ioport.cpp:457`): nothing else runs (`hung`).

*Configuration.* What a restart changes is defined by `Tarnished`: percentages lose
up to 0.4 %, numbers keep six digits, bytes above 0x7f of a telegram are written
with six more digits, the path of the log files and the names of the databases
are written under names nobody reads. What does not load is defined by
`Unloadable`: rules without actions, texts that name an object, or actions that
name a port, that is gone, initial values the object refuses, an unknown log
level. `Rule::updateXml` imports the new condition before it deletes the old one,
whose destructor then unregisters the triggers both share
(`ruleserver.cpp:222`; `HearsTriggers` excepts them), so that the modified rule
hears of them no more, although ChangeLog:247 has added support for modifying rules. Deleting a rule leaks the
actions, and with them references; replacing an action list deletes actions that
may be running.

## 7. Not modelled

* The deletion of a rule while it is evaluated, or while the RuleInitializer
  iterates over the map (a use of freed memory whatever follows).
* The order in which services stop at the end of the program, and status
  requests: they change nothing that a property here is about.
* Sunrise and sunset (floating-point astronomy), the Lua interpreter, regular
  expressions of messages, libcurl, libesmtp, the database clients.
* The vendored libraries (ticpp, tinyxml, b64, argp) and the greater part of
  `eibclient.c`, which linknx does not call.
* Of the values: characters of Latin-1 with code pages other than UTF-8, dates
  outside 1990-2089, and, among the inputs of the run, 64 bit integers and
  numbers and telegrams out of range.
* Conditions compare, source and script: only as they are configured.
* Read telegrams of other devices and stateless objects.

## 8. Plan

1. Proofs: `Calendar` with its searches bounded, and floats of four bytes in
   `BusObject`.
2. An abstract specification of the change dispatch ("rules and storage follow the
   last value, eventually") and the refinement by `Dispatch`, with liveness under
   the fairness of `KnxLink` and `XmlClients`.
3. The life of a rule with deletions, once the code keeps it alive while it is
   evaluated.
