# A verification project for the Home Automation Hub

The Home Automation Hub (HAH) is firmware for a small Linux box: daemons that
speak xAP, a text protocol broadcast over UDP, to one another and to other
hosts. Its own code is under `src/userapps/hah`; the rest of the repository
(kernel, vendor and open source programs, Arduino sketches, a phone
application) is third-party code or runs elsewhere. These TLA+ modules model
the parts of the daemons where order, time and concurrency matter; TLC checks
them on small instances and TLAPS proves the main results for all instances.

Contents: [Inventory](#inventory), [Modules](#modules), [Runs](#runs),
[Fairness](#fairness), [Proofs](#proofs), [Disagreements](#disagreements),
[Not modelled](#not-modelled), [Plan](#plan).

## Inventory

Every daemon is one process around the library **xaplib2**. Its event loop
(`rx.c`, `xapProcess()`) waits in `select()` for at most a second, calls back
the listeners of the sockets that are ready and then the timers that are due.
All state is in linked lists that callbacks may change while a loop walks them.

| part | state | operations | talks to |
|---|---|---|---|
| xaplib2 start (`init.c`) | receive port, socket, heartbeat timer | `discoverHub`, `xapInit`, `heartbeatHandler`, `termHandler` | the hub, by heartbeats and stops |
| xaplib2 loop (`rx.c`) | list of socket listeners | `buildSelectList`, `readSockets`, add and delete a listener | every callback |
| xaplib2 timers (`timeout.c`) | list of timers with interval and end | add, delete (by handle, by function), reset, expire, dispatch | callbacks of every daemon |
| xaplib2 filters (`filter.c`) | list of filter callbacks | add, delete, compare, dispatch | BSC endpoints, daemons |
| xaplib2 parser (`parse.c`) | the parsed frame | parse, look up, rebuild | everything that reads xAP |
| xaplib2 BSC (`bsc.c`) | endpoints: state, text, time of last report | command, query, event, info timer, add, delete | filters, timers, the daemon's `cmd` and `infoEvent` callbacks |
| xap-hub (`hub.c`) | list of ports: interval, credit, alive | heartbeat, stop, relay, sweep | every daemon of the box |
| iServer (`main.c`, `tokenize.l`) | clients, parser state, filters, frame counters | connect, parse, filter, forward both ways, disconnect, status page | TCP clients, the UDP network, the transmit thread |
| iServer queue (`queue.c`) | linked list, mutex, condition | push, pop | main and transmit thread |
| xap-livebox | endpoints of the AVR board, 1-wire sensors with two timers each | serial input, 1-wire reset, control socket | serial line, BSC |
| xap-serial | serial ports, each with a listener | setup, close, send, receive | serial lines |
| xap-currentcost, xap-urfrx, xap-xively, xap-sms, xap-googlecal, xap-twitter, xap-mail | readings, decoder contexts, cached data streams, messages, calendar entries | input from a device or a service, output to another | devices, web services |
| xap-plugboard (Lua) | filters, timers, endpoints, radio nodes | the library's operations in Lua, reapers | scripts |

What is hard, and what makes each part correct:

* **Hub.** Daemons and hub share nothing but datagrams. Credits are counted by
  sweeps, not by clocks; sweeps, heartbeats and reads are each late by their own
  amount; ports are reused; daemons and the hub crash. *Correct*: a daemon that
  announces itself stays connected, one that is not is connected by its next
  heartbeat, a dead one does not stay for ever.
* **Timers.** The walk arms timers from the time it began while callbacks take
  time and change the list. *Correct*: no timer is forgotten, none comes early
  by more than the walk's length, the walk never stands on freed memory.
* **Queue.** Two threads, a mutex, a condition signalled after the unlock.
  *Correct*: a FIFO, and no sleep through a wakeup.
* **iServer.** Clients leave in the middle of a walk, with filters registered
  and packets queued; their memory is reused at once. *Correct*: no filter or
  listener of a freed client, each client gets what it asked for and nothing is
  decided by what others asked for, gone clients are deleted.
* **Packets.** The parser cuts a packet up in place and a packet may end
  anywhere; wildcards are in the message for targets, in the filter for sources
  and classes. *Correct*: no half-read entry counts, and a callback runs for
  exactly the messages that are meant for it.
* **1-wire sensors.** Three kinds of timers run against one another, and a reset
  replaces everything between two readings. *Correct*: one filter and one timer
  of each kind per endpoint, connected sensors known, silent ones unknown,
  listeners not off by more than the hysteresis, as far as the code gets.
* **Serial ports.** Setting up a port is a dozen calls any of which may fail, and
  runs inside the walk over the listeners that it changes. *Correct*: files,
  locks, ports and listeners agree, a line is kept, the loop goes on if the
  devices let it.
* **Plugboard.** Lists are walked by index while callbacks remove entries, and
  destructors share variables. *Correct*: no timer is lost, a device that has
  left is reported.
* **BSC.** Reports for three reasons postpone one another; one command has many
  sections. *Correct*: bounded silence, the last report is true, a command does
  what it says.

`PROJECT.json` lists these points line by line under `hazards`, with the
properties that cover them or the reason why none does yet.

## Modules

### XapHub, HubLease: the hub and the daemons that register with it

`XapHub` models `hub.c` together with the part of `init.c` every daemon runs.
`port`, `bound` and `sinceBeat` are a daemon's receive port, whether its socket
is bound and the age of its last heartbeat; `is_alive`, `interval` and `timer`
are the fields of `struct hubEntry`, indexed by port because entries are never
unlinked; `rxq` is the hub's socket. `age`, `joined` and `away` are history: how
long a port has been silent, whether the hub has heard this run of a daemon, and
for how long a daemon has been without the hub. `hubRelay()` has no state of its
own: it sends to the ports that are alive.

| action | code |
|---|---|
| `xapInit` (with `discoverHub`) | a daemon starts and takes the first free port |
| `heartbeatHandler`, `hubHeartbeatHandler` | the heartbeat timers |
| `termHandlerInSelect`, `termHandlerInCallback` | a signal sends a stop; only in `select()` does it also end the daemon |
| `Crash`, `HubStop`, `HubStart` | processes end and start |
| `xapRxBroadcast` | one packet: own heartbeat, stop, heartbeat or other |
| `reapHubConnections` | the sweep |
| `Tick` | a second passes |

Packets wait at most `D` seconds in the socket, timers are served at most `S`
seconds late, and a packet that finds the buffer full is lost. Heartbeats carry
`by`, the daemon that sent them, which only the history looks at.

`HubLease` says what the hub promises without credits and sweeps: a connection
is a lease, granted and renewed only by a heartbeat, given up only by a stop;
silence ends it not before `2H - R` seconds and not later than
`(R + S)(2H + R)/R`.

### TxQueue, FifoQueue: the iServer's queue

A thread is `idle`, asking for the mutex (`lock`), inside (`locked`), asleep on
the condition (`waiting`) or between its unlock and its broadcast
(`broadcast`). The critical sections are single steps on the real pointers
`head`, `tail`, `next`; `chain` is history. `FifoQueue` is the abstract queue.

### IServer: the gateway

`pc`, `at` and `tmp` are the main thread's place in `readSockets()` with the
two pointers of `LL_FOREACH_SAFE`. A client is the heap cell of its struct, so
that a cell freed by `delClient()` and handed out again by `addClient()` is the
same cell. The parser takes one token per step (`parseText`, `parseTag`,
`login`, `addFilter`, `delFilter`, `xapMessage`), the transmit thread pops and
sends in two. Callbacks that nothing can interleave with are one step, but those
that wait for a peer are two: the web and policy handlers, which read a request,
and `incomingXapPacket`, whose `send()` blocks when a client does not read. In
between `pc` is `blocked`. Names
are abstract: `Garbled` stands for any text run together from two, `Empty` for
none, and the sets `SubAddressed` and `Sourced` say which names contain a colon
or parse as a message with a source. A packet from the network matches an
arbitrary set of filters. The queue is the sequence that `TxQueue` is proved to
implement.

### XapTimeout: timers

`due` is a timer's end relative to the clock and `lag` how long the present
walk has taken, so that the model needs no absolute time. `ttl = 0` is a `due`
that is not after the walk's `now`. `todo` is what the walk has still to come
to: timers added during a walk are put in front of it and are not in `todo`.
Between walks at most `S` seconds pass, in a walk at most `L`.

### BscEndpoint: commands and reports

`value` is the state and text of each endpoint, `due` its info timer (the same
relative time as in `XapTimeout`), `age` the time since its last report. A
command is a sequence of sections `[id, state, text]` in which anything may be
missing (`None`); `After` goes over it, section by section, as the loop of
`bscIncomingCmd()` does. The daemons' callbacks enter in two ways: an
`infoEvent` callback of a `Denying` endpoint may refuse an event (the ones of
`xap-livebox` and `xap-currentcost` never refuse an info), and `cmd` is what a
`cmd` callback makes of a state: nothing, but for `cmdURF()` of xap-livebox, which
makes it unknown when the `.ini` file has no key for it (`Missing`). The other
callback that changes an endpoint, `infoEvent1wire()`, is in `OneWire`.

A report that is too long for its buffer is not sent, but before that
`bscInfoEvent()` goes on writing behind the buffer (`bsc.c:284-291`): either of
the two may be what happens (`Fits`, `bscInfoEvent_Overflow`, which ends the
daemon).

### XapParse, XapFilter, XapRx: from a packet to callbacks

`XapParse` has the five states of `parseMsgF()` as operators on a byte, and
`parsedMsgToRawF()`, which is how the models get packets to parse. A byte is a
letter, `=`, `{`, `}` or `nl`, any control character. `XapFilter` extends it with
`xapFilterAddrSubaddress()`, the lookup of a value and a chain of filters. The
loop over two pointers is a recursive function of the place in the pattern, whose
values are functions of the place in the address. Next to it stands what
addresses mean, as sequences of fields (`Covers`). `XapRx` extends `XapFilter` and
is the machine (`RxSpec`): a message arrives, is parsed byte by byte, ends at any
byte, and the endpoints whose chains it passes are called.

`BodyAssumption` says which bodies arrive: what a daemon writes, without control
characters or braces in a name and without a second target. Empty sections are not
counted against the room for entries (`parse.c:102`): what comes behind one that
takes the last place is written behind the array, over the library's three lists.
The parser is then in state `OVERRUN`, and `filterDispatch_Overrun` ends in `down`,
with the usual endpoints called or none. `EntriesAreComplete` says that no other
message does this.

### OneWire: the sensors of xap-livebox

`list`, `filters` and `timers` are the library's lists restricted to the 1-wire
endpoints, in their order, because deletions take the *first* timer they find.
`sensor` is an endpoint with its `struct tempSensor`; `bus` the sensors that are
plugged in and `owed` the answers the board still owes. `ini` is the section of
the file as last read: a reset reads another. Readings are in tenths. `Kept` is
what `prevValue[6]` keeps of one: of a text of six characters or more, such as a
pressure, nothing behind the point. `"?"` is a value of its own, which the
comparison with the hysteresis takes for 0, as `atof()` does.

| action | code |
|---|---|
| `resetOneWireEndpoints` | the web interface's reset, with the deletion of every endpoint, its filter and both its timers, and all new ones |
| `serin_1wire` | a reading, of an assigned sensor or of one that is not |
| `msg_action`, `bscIncomingQuery` | the control socket, a query |
| `bscInfoTimeout`, `timeoutCheck1wire`, `timeoutReport1wire` | the timers |
| `Plug`, `Tick` | a sensor comes or goes, a second passes |

### XapSerial: serial ports

`ports` is `serialList`, `files` and `locks` the kernel's view of it. A message
becomes the sequence `calls` of what its filters' actions do, a step for each,
so that another program may take a device between the `close()` and the
`open()` of one setup. `cur` and `next` are the pointers of the walk. A setting
that is refused leaves a port without a listener, and closing such a port is a
null pointer: `closeSerialPort_Crash` ends the daemon and `Restart` starts it
again. In a buffer only the number of characters matters.

A write that would block is tried again, up to `RETRIES`; after any other,
`sendSerialMsg()` is in `tcdrain()` (`tries = RETRIES`). A port set up with
`flow=none` comes out of it by itself; on others, with XON/XOFF or with the
hardware flow control a port has before its settings are accepted (`waits`), the
device decides when, or never (`Held`, `sendSerialMsg_Released`).

### Plugboard: the Lua port

`timers` is `timerList` with the walk's index `at` and end `n`, as
`List:foreach()` has them. `node` is the bluetooth node's table: a device is
missing, live, or emptied, for `Endpoint:destroy()` clears a table that the node
still refers to. `f` and `t` are the two global variables of `bsc.lua` that
every destructor goes by. A Lua error (`Crash`, `reaper_Fails`) ends the process
and with it the behaviour: the run therefore does not check for deadlock.

### How the modules fit

`IServer` uses the queue through what `TxQueue` is shown to implement.
`BscEndpoint` and `OneWire` take their timers as `XapTimeout` proves them to be:
late by a bounded amount, armed from a clock that is behind by at most a walk.
`OneWire` adds to `BscEndpoint`'s reports an `infoEvent` callback that denies
events, and creation and deletion. `XapHub` uses the same lateness for
heartbeats and sweeps. `XapRx` puts the parser and the
filters together; `IServer`
and `BscEndpoint` take from it that a packet reaches some set of filters. The
instances choose these bounds freely; the theorems hold for all of them.

## Runs

All runs are listed in `PROJECT.json`; sizes are distinct states.

| run | instance | shows |
|---|---|---|
| `hub_clients` | 2 daemons, 2 ports, H=2, R=1, buffer 2; 1,282,769 | competition for ports, port reuse with old stops queued, crashes, restarts, overflow |
| `hub_timing` | 1 daemon, H=6, R=2, S=1, D=1, buffer 2; 529,823 | the same under every delay; a lost daemon is back in time, an abandoned port is disconnected |
| `queue` | 1 pusher, 2 poppers, 2 items, 3 cells; 167,401 | pointers, wakeups, refinement of `FifoQueue`, what is queued is popped |
| `iserver_filters` | 2 clients, filter commands; 1,662,128 | no dangling filter, the walk, filters per client |
| `iserver_commands` | 1 client, all 14 tags, 2 names; 227,648 | every sequence of tags; gone clients are deleted if no peer holds the loop |
| `timers` | 3 timers, intervals 2 and 4, L=2, S=2; 790,185 | never late, never early |
| `bsc` | an output that lacks a key and a denying input, commands of up to 3 sections with 2 read, I=2, L=1, Late=1; 102,904 | commands do what they say, true reports, bounded silence |
| `one_wire` | 1 sensor, 4 `.ini` files, 3 readings, hysteresis 60 degrees, T=3, margin 2, I=1, L=Late=A=1; 337,519 | wiring after resets, hysteresis, unknown in time and only then |
| `serial` | 3 names of 2 devices, 2 descriptors, buffer 2 to 4, 2 attempts, 3 kinds of settings; 461,712 | files, locks, ports and listeners agree; lines; back to the loop if the devices let it |
| `plugboard` | 1 configured device, 2 guests, a one-shot timer; 3,588,692 | no timer lost, who has left is reported |
| `messages` | targets and addresses of up to 3 fields, room for 3 keys, cut off anywhere; 127,725 | parsing against writing, also behind the array; matching against meaning |

Why these bounds are enough to meet the interesting cases:

* Two daemons and two ports let a port change hands while a packet of the
  former owner is queued (the range runs out only in `MCXapHubPorts.cfg`). A
  buffer of two overflows. `H > R + S + D` is the relation the real constants
  have (60 > 10 + 1 + 1) and an assumption of the module; `H = 6`, `R = 2`,
  `S = D = 1` keeps interval, period and delays distinct.
* Two poppers race for one item and one of them goes back to sleep; three cells
  give a list with a middle. A second pusher adds nothing but another owner of
  the mutex; the proofs cover any number.
* Two clients can want the same, leave in the middle of each other's walk and
  take over each other's cell. `QMAX` and `FMAX` bound queue and filter list;
  they stop commands, not events. The runs set `FRAMES = 1`: the frame counters
  influence no action.
* A walk as long as the shorter interval, intervals that differ, and a third
  timer that is added or deleted while another's callback runs.
* Commands one section longer than is read; a text that does not fit; an output
  whose callback has no key for "off", so that toggles meet a state taken back; a
  walk one second long, which is what makes an info skip.
* Readings -100.9, -40.0 and 20.0 with a hysteresis of 60: neighbours are within
  it, but for the tenths that `prevValue` loses of the first, and two steps go past
  it; the last two are near enough to 0 for a returning sensor not to be told of.
  The bounds are reached: with one second, or one tenth, less they are violated.
  Four files: the sensor assigned (as number 2, number 1 having no
  ROM id) or not, with a timeout or without, so a reset adds and removes
  endpoints and either kind of timer. `MARGIN = Late + A` is the smallest the
  assumption allows. There is no offset: with one, see *Disagreements*.
* `MAXDEVICES = 2` sensors in a file and `LINE = 4` characters counted are bounds
  of the runs; the proofs take any (sensors up to 32, the code has room for 31).
* Two names of one device meet its lock from the same process; two descriptors
  are used up and reused. Chunks of one to three characters, with a line end
  inside, cross both ends of a buffer that grows once, from two to four.
* `TTL < PERIOD < INFO`, and a heartbeat every second in front of the list: a
  one-shot timer fires in front of the other timers. With two guests one is
  made last and both may expire in one sweep, or in two. A device's absence is
  counted up to `LONG`, one second more than any it may be shown with.
* Three fields are enough for a wildcard in front of, between and behind words
  and for a sub-address; a word of two letters, the first in upper case, for
  what is compared letter by letter. Room for three entries is used up by keys, and
  by an empty section with a key or another empty section behind it.

Deadlock is checked in every run but `plugboard`: the daemons never stop by
themselves. Symmetry is used for daemons, cells and timers, in runs without
liveness only.

Each property of a passing run has a mutant in `PROJECT.json`: an operator of
the same module, marked `Fault:`, that changes a definition as a plausible
mistake would and makes TLC find the property violated.

## Fairness

* `hub_timing`: weak fairness of the clock, of reading the socket and of each
  timer. `xapProcess()` never waits longer than a second and calls
  `timeoutDispatch()` in every round; no callback of the hub blocks. Daemons
  owe nothing: they may end, or never be started again.
* `queue`: weak fairness of the steps a thread takes alone, strong
  fairness of taking the mutex, because another thread may take it again and
  again; the scheduler of the box lets every waiting thread run. `CallPop` is
  fair because `txLoop()` is an endless loop; pushing is not.
* `iserver_commands`: weak fairness of the main thread as a whole (it is one
  thread), of the two steps of the transmit thread, and of a peer that has
  closed being drained. What the thread waits for a peer to do (`Awaited`) is not
  fair: a web or policy peer may never send its request, for which the handler
  blocks in `read()`, and a client may never read what is sent to it, for which
  `sendAll()` blocks in `send()` (`main.c:102`). `GoneClientDeleted` therefore has
  the premise that the loop keeps getting out of such callbacks.
* `serial`: weak fairness of the process from one `select()` to the next, but for
  the return from a `tcdrain()` that waits for a device. Devices, other programs
  and peers owe nothing; a write that would block is counted, up to `RETRIES`.
  `BackToSelect` has the premise that no device holds up what was written for ever.

The other runs have no liveness: their time bounds are safety properties.

## Proofs

| module | theorem | states |
|---|---|---|
| `XapHubProofs` | `TypeCorrect`, `CreditCorrect`, `HubImplementsLease` | `TypeOK`, `CreditFollowsSilence`, `ImplementsLease` |
| | `HeardDaemonsStayConnected`, `DaemonsReconnect` | `JoinedStaysConnected`, `ReconnectedInTime` |
| `TxQueueProofs` | `TypeCorrect`, `ListCorrect`, `WakeupCorrect`, `QueueImplementsFifo` | `TypeOK`, `ListMatchesChain`, `NoLostWakeup`, `ImplementsFifo` |
| `IServerProofs` | `TypeCorrect`, `FreedClientsAreForgotten`, `WalkStaysOnList`, `ClientsGetWhatTheyAskFor` | `TypeOK`, `NoDanglingClient`, `WalkOnList`, `FiltersFollowRequests` |
| `XaplibProofs` | `TypeCorrect`, `LateBound`, `EarlyBound` (of `XapTimeout`) | `TypeOK`, `NeverLate`, `NeverEarly` |
| | `ReadWhole`, `MeantAreCalled` (of `XapRx`) | `EntriesAreComplete`, `CalledIfMeant` |
| `BscEndpointProofs` | `TypeCorrect`, `GapBound`, `ReportsAreTrue`, `CommandsAreCarriedOut` | `TypeOK`, `ReportGap`, `SeenIsValue`, `CommandCarriedOut` |
| `OneWireProofs` | `TypeCorrect`, `EndpointsAreWiredOnce`, `OffersAreFree` | `TypeOK`, `WiredOnce`, `OfferedAreFree` |
| | `HysteresisHolds`, `QuietSensorsBecomeUnknown`, `ConnectedSensorsStayKnown` | `SeenWithinHysteresis`, `QuietIsUnknown`, `ConnectedStaysKnown` |
| `XapSerialProofs` | `TypeCorrect`, `WalkStaysOnList`, `FilesHavePorts`, `LinesFitBuffers` | `TypeOK`, `WalkOnList`, `PortsOwnFiles`, `BufferHoldsLine` |
| `PlugboardProofs` | `TypeCorrect`, `MissedTimersMoveUp`, `GoneDevicesAreReported`, `KnownDevicesAreTracked` | `TypeOK`, `MissedMovesUp`, `GoneIsReported`, `KnownIsTracked` |

The constants are arbitrary: any number of daemons, ports, clients, sensors,
devices and commands, any times. What is assumed of them is an `ASSUME` of the
module that declares them, and TLC evaluates it in every run.

Lists that are deleted from or gone over are recursive functions in the models
(`Without`, `DelEndpoints`, `ReadAll`, `After`, `Joined`, `Loop`), so that what they return can be
proved. The library's induction theorems take an operator as a parameter, which
the provers cannot instantiate; the induction is done by hand, from the lemma
`LeastElement`: a set of naturals that is not empty has a least element. It is
applied to the set of indices where the claim fails, and also shows that the
recursive definition has a solution; `Upwards` and `Downwards` are two forms of it,
for a set that is closed under the next or the previous number. `Embeds` then says
what a deletion leaves: an injection from the positions of the result to those of the
list that keeps the elements and reaches every one that was to stay.

**The hub.** Assumed: the ports form a range, `R > 0`, the buffer holds a packet.
`CreditFollowsSilence` is inductive together with `TypeOK`. It bounds the credit
of a port from both sides by its silence *and* by the time since the last sweep:
without the latter, neither a sweep nor a second preserves the bound. The lower
bound gives "no lapse before `2H - R`": when a sweep takes the last credit,
`timer <= R`, hence `age >= 2H - R`. The upper bound is multiplied by `R` to stay
in the integers and gives the limit on silence. For the refinement each action
maps to a step of `HubLease` or to one that only moves packets.

**The daemons of the hub.** Assumed besides: `R + S + D < H`. That a daemon whose
heartbeat was read stays connected depends on packets that still wait: the port
may have had another owner whose stop is in the buffer. `Membership` says which
packets these can be. No port is bound twice (`Binding`); a heartbeat names its
sender's port and has waited since it was sent (`Labelled`); no stop of an earlier
owner lies behind a packet of the port's owner (`Ordered`), for a stop is sent
before the port is given up. So the heartbeat that makes a daemon join leaves no
such stop behind, and none comes. `Member` bounds the port's silence by the
daemon's: the hub has heard its last heartbeat, or that one waits and the hub has
heard the one before, at most `H + S` earlier. This is at most `H + S + D`, below
the `2H - R` before which no credit runs out. `ReconnectedInTime` needs
`AwaySinceBeat` besides: a daemon without the hub has been so for no longer than
since its last heartbeat, or, when that one still waits on the socket, since the one
before, at most `H + S` earlier; and nothing waits longer than `D`.

**The queue.** The invariant is `TypeOK`, `ListMatchesChain` and `CallState`: a
pusher that has not pushed holds its item and never sleeps, a popper that has
not popped holds nothing. The cell a push allocates is not in the chain, so
linking it changes no other node; a pop takes the first cell and the others stay
distinct. `NoLostWakeup` is inductive given that a thread sleeps only when it saw
`head = NULL` inside the mutex and that whoever makes `head` non-null is then at
its broadcast. Assumed: pushers and poppers are different threads and `NULL` is
nothing else.

**The gateway.** `NoDanglingClient` and `WalkOnList` depend on each other: the
walk's saved successor must survive the deletion of the client whose callback
runs. `IInv` adds that listeners are listed once and are those of `main()` and
the clients (`Listed`, with the length of the list: an injective list as long as
its set), that the successor is never the client being served (`Walk`), that
filters belong to clients in use (`FiltersOwned`), that a client has a source
filter exactly for what it asked for and a target filter exactly once it has said
who it is (`Sources`, `Targets`), and none of them twice (`Unique`), for the
property counts filters.

**Packets.** Assumed: `BodyAssumption`. `EntriesAreComplete` says what has been read
but not in which state the parser is, so `RxInv` has `ReadTo` besides: where in the
message's text each byte leaves the parser. It is between two sections, or in entry
`k`'s section name, in front of its key, in its key or in its value, with exactly the
part of it in `cur` that has gone by, the entries in front of `k` read and `keycount`
zero exactly when `k` opens its section; or it has stopped because there is no more
room, or is about to write, or has written, where there is none (`Overruns`), which
only an empty section in the last place brings it to (`NoRoom`).
`EntryBytes` says which byte of the packet stands at each such place, by the lengths
of what is in front (`Joined` of the entries' lines), and `ReadStep` that a byte takes
the parser from one place to the next. `MessageReadable` is that what arrives is
written as it can be read. A section's name is followed by a line end before its
brace, which is in `cur` until `rtrim()` takes it off; nowhere else does `cur` differ
from the message.

**Filters.** The loop goes over characters, its meaning over fields. `LoopRows` is
that the loop's function exists and satisfies its definition. From it follows, for a
field of the pattern and one of the address at whose first characters the loop
stands, what happens up to the next field: a word is compared letter by letter and
leads to the next fields or to the end (`MeetsWord`), `*` leads on whatever the next
separators are (`MeetsStar`), `>` leads to the sub-address or to the end
(`MeetsRestSub`, `MeetsRestEnd`). On the other side `CoversIs`, `FitsIs` and
`CoversFacts` put `Covers`, which cuts address and pattern at their sub-addresses,
in the same terms: fields that meet one another, with a shift between pattern and
address behind a `>`. `CoveredIsMet`, `MetIsCoveredPlain` and `MetIsCoveredRest`
then carry one over to the other, field by field. In the direction from the loop to
the meaning a pattern of `Separated` has to be found, since the loop does not look at
the separator behind a `*`: it is the pattern itself when a `>` stands in front of its
sub-address, and otherwise the one that has the address's separators.
`FilterIsCovers` is the result, for the whole of `xapFilterAddrSubaddress()`.
`CalledIfMeant` follows with `RxInv`: the entries there are are the first ones of the
message, so the lookup finds the target and the class if they came whole
(`LookupFirst`, `LookupNone`, `MessageKeys`).

**Timers.** `NeverLate` alone is not inductive: how late a timer may be depends
on where the walk is. `Lateness` distinguishes the pause (`L + idle`), a timer
the walk has still to come to (`L + S + lag`) and one it has passed (`lag`).
`NeverEarly` follows from `Spacing`: what has passed since a timer was armed and
what is left make up its interval but for the walk's lag. Assumed: intervals are
positive, as `xapAddTimeoutAction()` enforces; and that no callback deletes the
timer it runs for is *not* assumed, the bounds hold either way in the model,
while the walk's own pointer is what `timers_self_delete` is about.

**Reports and commands.** Time adds to an endpoint's silence what it takes from
its timer, so `ReportGap` is about their sum: at most `I` after a report, below
`2I` after a timer that skipped, because it skips only when the silence is below
`I`. `SeenIsValue` needs, besides the types, that sections for others leave an
endpoint alone, so that the event of its last one tells what it became. For
`CommandCarriedOut`, which says without recursion what a command amounts to (the
last word that is no toggle, and the parity of the toggles behind it; the last
text), `Amount` says the same of the first `n` sections and is shown, section by
section, to be what `After` computes. A callback that takes states back does not
change this, because a toggle does the same to "off" and to "unknown"
(`ToggledAlike`), unless it takes back "on": then the state is never that.

**1-wire sensors.** `Wired` ties list, timers and filters to the `.ini` file last
read, with one timer for each purpose; a reset deletes and makes them anew, so it
holds only if the deletions find them all. `Told` ties the value that is compared
with to what is kept of the one that was reported: without it readings could drift.
`Due` bounds the sum of an endpoint's silence and of what is left on its info timer,
which limits how long a "?" can stand. `Quiet` and `Steady` do so for each sensor's
silence and the timer that will notice it; `Steady` distinguishes a board that has
been asked from one that is about to be. Assumed: `Late + A <= MARGIN < T`, where
the code has a margin of ten seconds (the control socket has no limit on how long it
waits for its peer, `server.c:166`: that such a wait ends in time is part of this),
and that no value has more than four figures before the point.

**Serial ports.** `PortsOwnFiles` is nearly inductive: `Owned` adds that names and
descriptors tell ports apart and that there are as many open files as ports, so
that none is left open. Opening needs `ClosedBeforeOpened`: `xapSerialSetup()`
always closes the port of that name first. `BufferOK` says that a buffer's
position is the length of the line, or that the buffer has reached its limit and
is full. Chunks of any length are covered, by induction over their characters.

**The plugboard.** `MissedMovesUp` needs the bound of every timer, not only of those
that are due: its place in the list plus the walks that missed it (`Moved`).
`GoneIsReported` needs to know where the reaper is: right behind the timer of a
configured device, which no one destroys, or, if there is none, behind at most
`ONCE` one-shot timers, each of which may delay it once (`ReaperAt`, `Slack`). The
silence of a device that is shown as present and what is left on the reaper's timer
are then bounded by their sum. `Entries` is that what was reported of a device
is what its entry in the Lua table says.

`TypeOK` of `BscEndpoint`, `IServer` and `XapSerial` is proved and in no run.

Only model-checked is liveness (`AbandonedPortDisconnected`, `QueuedIsPopped`,
`GoneClientDeleted`, `BackToSelect`), which with fairness is beyond this prover.

The hub's credit and lease are checked by `hub_timing` only, on one port: the
theorems are about any number of them.

## Disagreements

The run `timers_self_delete` expects a violation: `timeoutDispatch()` goes on
from a timer that its callback has freed, as the callback of the library's own
`test/timeout.c` does. `PROJECT.json` quotes the line under `findings`.

Other claims of the repository that the models show the code not to keep. The
properties are in the modules; the configurations named here are not among the
runs and end with TLC's counterexample.

| property | configuration | the code | the repository says |
|---|---|---|---|
| `RunningDaemonHasPort` | `MCXapHubPorts.cfg` | a daemon without a free port runs on, unbound | message of the `die_if()` in `discoverHub()`, `init.c:72` |
| `TxFrameCountsOwn` | `MCIServerTxSeq.cfg` | frames of a freed client are counted for its successor | "making sure no packets are being lost", `iServer/main.c:159` |
| `UidForLife` | `MCOneWireUid.cfg` | a reset numbers the sensors anew, leaving out those without a ROM id | "Identifies a particular hardware device for life", `livebox.c:115` |
| `HeardIsShown` | `MCPlugboard.cfg`, with this invariant | a guest that comes back finds its emptied table and is not shown again | "If this device has no pre-configured endpoint dynamically create it", `bluenode.lua:71` |
| `DestroyTakesOwn` | `MCPlugboard.cfg`, with this invariant | destroying an endpoint takes the filter and timer of the one made last | "Record destructors to call on endpoint point destroy", `bsc.lua:80` |

Comments the models follow the code against: `hubRelay()` does send data back to
its sender (`hub.c:38`); `xapDelTimeoutActionByFunc()` deletes the first timer of
a callback, not all (`timeout.c:60`); with `-e` every client gets the frame
number of the first (`iServer/main.c:232`); an info can be skipped because of the
endpoint's own last info, not only because of other traffic (`bsc.c:244`);
`rtrim()` leaves spaces (`parse.c:60`).

What the code does and nobody says otherwise, but a reader should know: the
calibration offset of a 1-wire sensor is added again at every report between two
readings (`ini.c:77`); a sensor that comes back with a value near 0 causes no event,
since "?" counts as 0, and a value of six characters is compared without its tenths
(`ini.c:82`, `ini.c:93`); `*` in a target passes over the separator behind it
without looking, so that `*.x` also means `a:x` (`filter.c:81`); what comes behind
an empty section in the last place is written behind the parsed entries
(`parse.c:102`), and what comes behind a text that is too long behind the report's
buffer (`bsc.c:284`); a serial port whose settings were refused ends the daemon when
it is closed (`serial.c:145`); a device that controls the flow holds up xap-serial
for as long as it likes (`serial.c:325`), a client that does not read the iServer
(`iServer/main.c:102`).

## Not modelled

* Text: formatting and wording of xAP messages, except where a property needs
  their outcome (too long, garbled, missing, cut off).
* Memory limits and partial sends.
* What a failed read leaves behind in the iServer's two handlers: an open descriptor
  (`main.c:637`) and a byte written in front of a buffer (`main.c:699`).
* `send()` of the transmit thread, a UDP packet, which does not block.
* Setting the wall clock.
* `xap-livebox` beyond its 1-wire sensors and `cmdURF()`: relays, inputs, LCD, RF and PPE pass
  values between the board and the library's endpoints.
* `xap-plugboard` beyond the bluetooth node: the other nodes make their endpoints
  once and have no reaper that destroys them; applets are the user's.
* `xap-currentcost` (an XML parser in front of a threshold like the one of
  `OneWire`), `xap-urfrx` (arithmetic on pulse lengths), `xap-xively`, `xap-sms`,
  `xap-googlecal`, `xap-twitter`, `xap-mail` (clients of modems and web services
  whose side of the dialogue is not in the repository), the web pages, sketches,
  phone application and third-party code.

## Plan

Done: the hub, the queue, the gateway, the timers, the endpoints; the parser and
the filters, the 1-wire sensors, the serial ports, the plugboard.

Proved: every safety property of the passing runs.

Next, modelling, if any: the threshold and the impulse counters of
`xap-currentcost`; the retries of `xap-sms`.
