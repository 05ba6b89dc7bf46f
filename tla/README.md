# DAPNETGateway in TLA+

DAPNETGateway (C++, `src/`) takes paging messages from the DAPNET network over TCP,
filters and buffers them, and hands them to an MMDVM host over UDP, one at a time, in
the 6.4 s slots that DAPNET's schedule gives to this transmitter. This directory is its
formal model: TLA+ modules, TLC configurations, and theorems checked with TLAPS.
`PROJECT.json` relates every definition to the source lines it models and lists the
runs, the mutants, the findings, the hazards and the theorems.

## 1. Inventory

| Part | Source | State | Operations | Made correct by |
|---|---|---|---|---|
| Main loop | `DAPNETGateway.cpp` `run`, `sendMessages`, `loadSchedule`, `recover` | `m_mmdvmFree`, `m_queue`, `m_slotTimer`, `m_schedule`, `m_allSlots`, `m_currentSlot`, `m_sentCodewords` | poll host, read DAPNET, queue, notice slot, send, sleep | pages go out only when the host is free and the slot is ours, within what the slot can carry; no page is stuck |
| Airtime arithmetic | `DAPNETGateway.cpp` 73-93, 488-497, `calculateCodewords` | none | page length in codewords and in time, time left, slot number | even lengths, every page fits an empty slot, the two tests agree |
| Message filter | `DAPNETGateway.cpp` 365-405, `REGEX.cpp` | the four lists, fixed after start-up | decide on one page | blacklists only remove, whitelists only add, bad lines change nothing |
| Paging queue | `m_queue`, `CPOCSAGMessage`, `sendMessage` | pages and their ages | push, pop, reject late time messages | first in first out, nothing lost, doubled or late |
| DAPNET session | `DAPNETNetwork.cpp`, `TCPSocket.cpp` | socket, `m_message`, `m_schedule`, `m_loggedIn`, `m_failCount` | open, login, read and answer one line, back off, close | an acknowledged page is stored; the socket is open when it is read |
| MMDVM host link | `POCSAGNetwork.cpp`, `UDPSocket.cpp` | socket, host address | look up, open, read status, reopen, write page, close | the status acted upon is the host's, never goes back to an older one and is not lost inside the gateway |
| Timers | `StopWatch.cpp` | start time | start, elapsed (monotonic clock), clock of the day | see the slot timer |
| Process | `main`, `sigHandler`, start and end of `run` | `m_killed`, `m_signal` | signals, restart on SIGHUP, start-up with early returns | a signal is obeyed |
| MQTT log | `MQTTConnection.cpp`, `Log.cpp` | `m_mqtt`, `m_connected` | open, publish, callbacks of the library's thread | nothing uses a deleted connection |
| Configuration | `Conf.cpp` | section read, settings | read, line by line | a line changes settings of its own section only |
| Unused or stateless | `Timer`, `Thread` (but for `sleep`), `Utils`, `Version` | | | |

How they interact: one thread runs the loop. It polls the UDP socket (at most one status
byte per turn), polls the TCP socket (one `recv`, one line looked at), takes what the
DAPNET session stored (`readMessage`, `readSchedule`), and calls `sendMessages`. The
signal handler sets two globals at any moment. The MQTT library calls back on a thread of
its own and is called by every log line.

What is hard here: nothing preempts the loop, but it can be held up anywhere between one
second and hours (`recover`, the backoff after a failed login), and it finds out about
slots only by looking at the clock. It hears of the host one datagram per turn, so that
after a long turn the status is old. The clock that gives the slot may be set; the one
that the slot timer runs on may not. Two separate notions of "how much of the slot is
gone" (codewords counted, milliseconds elapsed) have to agree with each other and with
the clock, while the host goes busy and idle, schedules change, and pages wait.

## 2. Modules

* `Airtime` - the arithmetic, as pure operators over the timing constants, with unsigned
  subtraction and multiplication wrapped at `UINT_RANGE`.
* `MessageFilter` - the filter, as pure operators over a configuration record.
* `Configuration` - `CConf::read`: one action for a header, one for a setting, and what is made
  of the text behind each key.
* `MCPages` - an operator writes the `.ini` file and the regex files line by line, and a page
  grows and waits: the module that checks the three above, with the program's own constants.
* `DAPNETGateway` - the main loop. `pc` is the place in `run()`: `pocsag` (status poll),
  `dapnet` (network read), `backoff`, `recover`, `message` (filter and queue), `slot`
  (slot check), `send`, `sleep`, `stopped`. One action per branch the code can take at
  that place. Each action is everything up to the next place: `StartSlot`, for instance, is the
  assignment of `m_currentSlot`, `loadSchedule` where the code calls it, the reset of
  `m_sentCodewords` and the start of the timer.
* `HostLink` - `CPOCSAGNetwork` over `CUDPSocket` with the part of each turn of the loop that
  uses them. `pc` is the place: `lookup`, `open`, `read`, `send`, or one of three ends. The
  host, the other senders and the network are external.
* `StatusFeed` - what the gateway promises of the host's status: it acts on what the host has
  announced and never goes back to an older announcement. `HostLink` implements it.
* `PagingQueue` - what the gateway promises of the pages it takes: the abstract queue.
* `GatewayQueue` - the refinement mapping: pending pages are `m_queue` and the accepted
  page that is still in `CDAPNETNetwork::m_message`.
* `MCDAPNETGateway` - pages, schedules and lists for the runs of the loop.
* `DAPNETSession` - `CDAPNETNetwork` over `CTCPSocket`, with an external server. `pc` is the
  place in `open`, `login`, `read`, `recover`: one action per kind of line that `read` tells
  apart and per outcome of a call.
* `PageDelivery` - what an acknowledgement means to DAPNET: at least once. `DAPNETSession`
  implements it with `storedBar`, the pages in `m_message` and those handed on.
* `DAPNETInput` - what the session and the loop agree upon (a page, a schedule, recovery before
  anything else, the page taken before the next read). Both implement it.
* `GatewayProcess` - `main`, the start and the end of `run`, the signal handler, and the
  life of the MQTT client. The loop itself is its one place `running`.
* `MCHostLink`, `MCDAPNETSession`, `MCGatewayProcess` - values for their runs.
* `AirtimeProofs`, `PagesProofs`, `DAPNETGatewayProofs`, `GatewayQueueProofs`, `HostLinkProofs`,
  `DAPNETSessionProofs`, `PageDeliveryProofs`, `GatewayProcessProofs` - the proofs.
* `CountDown` - leads-to by induction over the natural numbers, as a formula that is true of
  every behaviour. It models nothing; the liveness proofs that count down name it.

`DAPNETGateway` and `DAPNETSession` meet in `m_message` and `m_schedule`. The loop's
`ReadNetwork` takes any outcome of a read as an input and has `recover()` as one place;
the session has every outcome in detail and the rest of the loop as one action,
`TakeMessage`. `DAPNETInput` joins them: all that the session does is a behaviour of it
(`FeedsTheLoop`), so is what the loop takes (`TakesInput`), and the loop turns down nothing
that it allows (`LoopAcceptsInput`, up to the bound on the queue). `DAPNETGateway` and
`HostLink` meet in the status byte and the page: the loop takes any status at each poll and may
lose any page, `HostLink` has in detail where the status comes from and leaves open whether
schedule and slot allow a page. `GatewayProcess` surrounds all of them: the loop's `stopped`
is its `Shutdown`.

Operators whose name is another definition's with a suffix (`SlotOpen_AnySlot`) are
mutants: each is a plausible bug, and the runs' properties are violated when it replaces
the original.

### How the state of `DAPNETGateway` corresponds to the code

Variables named `m_...` are the members of that name. `m_queue` is written oldest first:
`push_front` is `Append`, `back()` is `Head`. `m_slotTimer` is the reading of
`elapsed()`, capped one above a slot (`ELAPSED_CAP`), where every reading has the same effect:
the subtraction wraps and the budget is full. `m_schedule` is the set of our slots or `None`.
`netMessage` and `netSchedule` are the members of `CDAPNETNetwork`. A queue entry carries
the age of the page (`m_timeQueued`), capped at `MAX_TIME_TO_HOLD_TIME_MESSAGES`.
`wallSlot` and `offset` are the clock. The rest is history, read by no action of the code:
`hostRx`, the last page that reached the host; `airLeft`, what the host still has to send
if it transmits back to back; `missed`, the slot boundaries and settings of the clock since
the last slot check; `stepped`, TRUE from a setting of the clock until the loop notices a new slot;
`slotWords`, the codewords handed over in the slot of the clock; and `uncounted`, TRUE for
the rest of a slot once `m_sentCodewords` no longer covers `slotWords`, which happens in
two ways only: the host turned busy and idle again (line 345), or a page was handed over
after the slot check had been overtaken by the slot's end.

Abstractions: time passes only where the code waits (`CThread::sleep`, the backoff, an
attempt of `recover`) and, by `StepTimes`, between the slot check and the sending, where
a preemption matters. `wallSlot` and `offset` come from `gettimeofday`, which `ClockSet` may
set to any slot at any time; the slot timer and the ages come from `CLOCK_MONOTONIC`, which
cannot be set. A regular expression is the set of texts it matches. `uptime * 1000` before the
first slot is not wrapped, since nothing is sent before a schedule and a new slot have been seen.

### How the state of `HostLink` corresponds to the code

`m_addr` is the host's address, or `None` when `m_addrLen` is zero because the look-up failed;
`m_fd` is -1, a socket, or the number of something that is no socket any more, which
`CUDPSocket::read` provides for (ENOTSOCK). `backlog` is the receive buffer of the
socket, which holds `BACKLOG` datagrams and drops what comes then. Of a datagram the first byte is
kept, and the sender as family, host and port, which `match` compares. The rest is history:
`announced`, what the host has said so far; `n` in a datagram, which of it; `heard`, the last one
acted upon; `lost`, those that never will be; `waited`, the reads since a datagram came in.
An announcement may be lost on its way. The others do not overtake each other: host and
gateway run on one machine or one network, and a datagram carries no number by which the gateway
could tell. `ReadAborts` and `SendAborts` are the assertions of `read` and `write` on a socket that
could not be opened again. Counts of announcements, strays, faults and pages are bounded by the constants
`MAX_...`; the proofs hold for any of them.

### How the state of `Configuration` corresponds to the code

`section` is the local variable of that name in `CConf::read`; `settings` holds the members of
`CConf` by section and key. A line is a header, or a key with what the program would read of its
text: the text, `atoi` of it, and `atoi` of the parts between commas. Comments, blank lines and
keys without a value change nothing and have no action. A list of RICs is a set.

### How the state of `DAPNETSession` corresponds to the code

`m_fd` is the number of the connection or `Closed`, the other `m_...` are the members of that
name; `m_message` carries the connection it came in, and `taken` what `readMessage` has
returned. `stream` holds the lines that the server has sent and `recv` has not returned;
`cut` is TRUE when the first of them has been read in part. One `recv` returns up to
`COALESCE` ends of lines and, where `Cuts` allows it, a part of another line; `read` looks
at what the buffer begins with (`Looks`) and drops the rest, which is what the code does.
The rest of a line that was cut is taken for a line of any kind in `JunkKinds`; a page line
that is cut may still be taken for a page, since five fields are enough. A line is cut at
most once. The rest of a cut line is never a page (`SessionAssumption`): a page whose own text
begins like the line of a page, cut right before it, would be taken for that page, and neither
`OncePerConnection` nor `AcksAreHonest` would hold. `ReadBadCode` is a page line whose functional
code `CPOCSAGMessage` does not accept; the program ends before the page is stored. `answers` holds what was written and the server has not read; it is lost when
the connection breaks or the server closes, and by the new connection if the gateway
closes. `peer` is the server's end: after `closed` a `send` succeeds at first and draws a
reset, after `reset` it fails (the process does not die of SIGPIPE, because the MQTT
library ignores that signal). `accepted`, `outstanding`, `owed`, `others`, `offered` and
`acked` are the server's. It is external: it sends nothing before a login, sends a page once in
each connection until it is acknowledged, keeps the numbers of the pages it waits for
apart, and has at most `WINDOW` lines unanswered.

A read with its answer is one step, for nothing in the gateway runs between them; the two
answers to a time line are two steps, because the second depends on the first. `m_loggedIn`
is kept although nothing but a log line depends on it.

### How the state of `GatewayProcess` corresponds to the code

`client` is the state of each `CMQTTConnection` by the run that made it, and `m_mqtt` the
pointer; `failed` and `deleted` are both freed memory. `threads` are the library's threads,
which a fork into a daemon leaves behind; `m_connected` the flags that the callbacks set; `session`
the client that the broker has under the one name that all clients of a process share.
Deleting a client that was deleted before is undefined; the model lets the process end,
which it does next in any case. `badKey` (the runs that ended on a key that is not set) and
`hangups` are history. `ReadConfig` goes as far as the daemon, `DaemonFails` is a `fork` or a later
step to it that fails, with or without the threads of an earlier run; the parent that `fork` leaves
behind exits at once and is not followed. `Shutdown` is always possible once `m_killed` is set,
which is what `Stops` shows of the loop, if `recover` gets through: `recover` does not look at
`m_killed`.

## 3. Runs

| Run | What it shows | Bounds |
|---|---|---|
| `pages` | `SectionsApart`, `BlacklistOnlyRemoves`, `WhitelistOnlyAdds`, `SkippedLinesAreInert`; `AlwaysEven`, `FitsEmptySlot`, `BudgetCoversTime` | two RICs and a zero, three texts, two expressions and a bad line, two lines of a key, a port that overflows, a misspelt header, in every order; every functional code, lengths 1-188 (the longest text a 200-byte read leaves), timer in steps of 50 ms; `UINT_RANGE` 2^31-1 instead of 2^32 (TLC's integers) |
| `loop` | `TypeOK`, `SlotBudget`, `SlotTimerHonest`, `OnlyInScheduledSlot` | three slots of 12 ms, pages of 5 and 9 ms, two schedules (one with every slot), queue of 1, outages across two boundaries, delays of 0 or 1 ms between check and send, a clock that is set to 3 ms into any slot |
| `spill` | `SpillsIntoOneSlot`, `LonePageEndsInSlot` | as above but a queue of 2, one schedule, sleeps of 1 or 4 ms; a host that stays free, no delay, a clock that is not set |
| `queue` | `InOrder`, `TakesInput`, `Drains`, `ScheduleTakesEffect`, `Stops`; `NeverStuck`, `CycleGoesOn` (see Proofs) | two slots, queue of 2, at most one boundary per wait; a time message, a page, a barred page; hold time 15 ms, slots of 12 ms |
| `host_link` | `TypeOK`, `NothingForgotten`, `NewsInTime`, `StatusIsHosts`, `BusyHostIsSpared`, `NewsArrives` | a buffer of 2, four announcements (so that it overflows while older ones are read), one stray datagram from the host, its machine or its port elsewhere, one fault, one page |
| `session` | `TypeOK`, `SocketOpen`, `OncePerConnection`, `NoPageDropped`, `AcksAreHonest`, `FeedsTheLoop` | two pages, one other line of any kind, two connections, two lines to a read, cuts; numbers 0 and 1; `MAX_FAILS` 1, so that the first failure is at the limit |
| `session_liveness` | `EveryPageArrives` | three pages with two numbers, one line to a read, no cuts, two connections |
| `process` | `TypeOK`, `SocketsReleased`, `MQTTAlive`, `NoCallbackAfterDelete`, `TerminationObeyed`, `HangupObeyed`; `NeverStuck` (see Proofs) | three runs, hence two SIGHUPs; SIGINT and SIGTERM without bound |
| `ends_in_slot`, `regex_whitelist`, `assertions`, `guard` | a comment, an assertion or a README line that the code does not keep (expected violations, see Findings) | as small as shows it |

The scaled slot keeps what matters of the real one: a slot takes one long page or two
short ones, a long and a short one do not fit together, the loop turns several times in a
slot, its period does not divide the slot (in `queue` it does, to keep the ages of pages few),
and an outage can cross no, one or several
boundaries. `MaxMissed < SLOTS` in `loop` is the assumption that no wait is as long as a
whole cycle (102.4 s in the program); it is an assumption of the theorem `TimerHonest`
too, and without it `SlotTimerHonest` fails. `SlotBudget` and `OnlyInScheduledSlot` do not
need it. A queue of 1 is enough there, for nothing in `loop` looks behind the first page, and
`queue` and `spill` have two.

The clock is set in `loop` only. What happens to the slot timer, the budget and the schedule is
safety; the liveness properties of `queue` would need a clock that is set finitely often, and
`InOrder` is proved with settings in it (`LoopImplementsQueue`). `spill` bounds the delay by the
clock's own slots, which a setting takes away. `LonePageEndsInSlot` is in `spill` because that run
has the queue of two and the air time of what was sent before; it is proved with settings of the
clock, a host that turns busy and delays in it (`LonePageEnds`).

`EveryPageArrives` is checked with one line to a read, because with two in one `recv` the second
is never answered and a page is then acknowledged only if a later connection carries it
alone; two connections are enough for a page to be sent, lost with its connection and
sent again. Two runs with a restart between them show what a run leaves to the next; the
third shows what two leave.

Fairness. In `queue`: weak fairness of the loop, because every call in it returns (the
sockets are polled with `select` and a zero timeout, `sleep` ends); of the end of the
backoff, which is a `sleep`; and of the success of `recover`, which is an assumption about
the DAPNET server and the network: without it no property of this kind can hold, since
`recover` loops for ever. In `session_liveness`: weak fairness of the gateway's next step, for the
same reason; strong fairness of `RecoverOpen`, since an attempt to connect may fail any
number of times in between; weak fairness of the server's reading and sending. In
`host_link`: weak fairness of `Turn`, for in each turn the socket is read once, and every wait of
a turn ends as in `queue`; nothing is assumed of the host or the network. In `process`:
weak fairness of the process's next step; the loop ends because it looks at `m_killed` in
every turn, which is `Stops`. So `TerminationObeyed` and `HangupObeyed` rest, as `Stops` does, on
`recover` getting through; a gateway that DAPNET does not answer obeys no signal, and no
property here says otherwise.

### Findings

* `ends_in_slot`: the test of line 497 looks at one page at a time and not at the backlog
  of the host, so two pages sent in successive turns overrun the slot. `spill` bounds the
  damage to the following slot.
* `regex_whitelist`: all expressions of the whitelist have to match (line 398), not one.
* `assertions`: a `recv` that ends behind the number of a schedule or a failed login makes
  `assert(p != nullptr)` fail (`DAPNETNetwork.cpp` 220, 271) and ends the program.
* `guard`: when the MQTT client cannot be opened, `run` deletes it (line 260), `m_mqtt` still
  points to it, and `LogFinalise` closes and deletes it again.

Seen while modelling, without a run of their own:

* The slot timer starts when the slot is noticed (line 436), not when it began, so that even
  a lone page can overrun a slot that was noticed late, by no more than that delay
  (`LonePageEndsInSlot`).
* Busy and idle again within a slot replaces the count of what was sent by the time gone
  (line 345); `uncounted` is TRUE from then on and `SlotBudget` says nothing.
* When the clock is set within the running slot number, the loop notices nothing and the slot timer
  contradicts the clock until the next new slot; `SlotTimerHonest` speaks of it again from there.
* A host that turns busy is sent a page for as many turns as older datagrams wait in the socket
  (line 338 reads one a turn); `BusyHostIsSpared` says that this is the only way.
* If the UDP socket cannot be opened again after ENOTSOCK, `read` fails like any other time, and
  the next call ends the program (`assert(m_fd >= 0)`, `UDPSocket.cpp` 224, 285).
* A second `AuthKey` or `Callsign` line is appended to the first (`Conf.cpp` 185-189, 125-129), and the
  result of two keys passes the test for TOPSECRET. Lists of RICs add up in the same way, as
  the operator may want.
* `Key = value` with blanks around the sign yields the value `= value`; a line of more than 499
  bytes is cut and its rest is read as a line of its own.
* A page with a functional code above 3 ends the program (`assert(functional < 4U)`,
  `POCSAGMessage.cpp` 33): `ReadBadCode`, next to the assertions of the run `assertions`.
* A slot may end between the slot check and the look-up of the schedule (line 439); one page then
  strays into a slot that may be somebody else's, and never a second (`OnlyInScheduledSlot`).
* A page of 32 words is not lengthened, against the comment of line 560 ("A very long message
  will include sync words"): the code adds `len % 16`.
* `m_loggedIn` is never cleared, so that a second login is not reported in the log.
* The comment of line 85 gives 240 codewords per slot; the integer division gives
  239.

## 4. Proofs

The theorems hold for arbitrary values of the constants under the named assumptions of the
modules, which TLC evaluates in every run: `TimingAssumption` (positive codeword time,
naturals) and `GatewayAssumption` (pages as `CPOCSAGMessage` asserts them, waits of at most
one slot per step, `None` not a page); `LinkAssumption`, `SessionAssumption`,
`ProcessAssumption` and `PagesAssumption` (bounds are naturals, `None` is not a value,
at least two numbers, no line of another kind is a page); `ProgramTiming` where the program's
own timing matters.

The loop, with a clock that may be set at any time:

* `TypeCorrect`: the type invariant.
* `BudgetKept` (`SlotBudget`). Not inductive: `BudgetInv` adds that, as long as
  the count is not lost, `slotWords <= m_sentCodewords` when no boundary was missed and
  `slotWords = 0` when one was, that pages of this slot mean the slot was noticed, and
  that at the `send` step the noticed slot is the clock's. Then the reset in `StartSlot` is
  harmless because nothing has been sent in the new slot yet.
* `ScheduleKept` (`OnlyInScheduledSlot`): from `BudgetInv`, the lemma that only the two
  sending actions shorten the queue, and `Overtaken`: when the slot check has been overtaken by the
  end of the slot, nothing was handed over in the new one yet, and the slot before it is the one
  that was checked. Hence at most one page strays into a slot and, unless the clock was set, only
  out of one of ours.
* `TimerHonest` (`SlotTimerHonest`), assuming `MaxMissed < SLOTS`: `PhaseInv` says that
  the loop's slot lags behind the clock's by exactly the missed boundaries, unless the clock was
  set since, so that a missed boundary is always noticed, and that the timer lags too.
* `LonePageEnds` (`LonePageEndsInSlot`), under the same assumption and from the same `PhaseInv`:
  where the timer does not run ahead of the slot, the subtraction of line 496 does not wrap, and
  what is left by the timer is what is left of the slot plus the delay.
* `SpillBounded` (`SpillsIntoOneSlot`), for a steady host, no delay between check and send, a
  clock that is not set and schedules that leave a slot to others (with every slot ours,
  `sendMessages` does not look at the budget). `SpillInv` adds to the budget that
  `airLeft + offset` is below a slot plus the air time of `slotWords`. The budget keeps the
  latter below another slot, so that the bound is met again when `slotWords` starts from 0.
* `LoopImplementsQueue` (`InOrder`): step simulation. It needs that `m_message` is empty
  whenever a line is read (`HandsFree`), or `parseMessage` would overwrite a page.
* `OnlyAdmittedOnAir`: no page that a list or a regular expression excludes reaches the host.
  It follows from `LoopImplementsQueue`, because `PagingQueue` lets only admitted pages in.
* `LoopTakesInput` (`TakesInput`) and `LoopAcceptsInput`: each step of the loop is one of
  `DAPNETInput` or none, and each step of `DAPNETInput` where the loop waits for the network is
  one of the loop.

A single page:

* `AirtimeProofs`: lengths are even for any text; with the program's constants every page
  fits an empty slot and the budget test implies the time test when the host becomes free.
  `PagesProofs` puts them into the specification that `pages` checks, for every
  millisecond of the slot (`PagesAreEven`, `PagesFitEmptySlot`, `PagesBudgetCoversTime`).
* `SectionsKeptApart`, `BlacklistsOnlyRemove`, `WhitelistsOnlyAdd`, `SkippedLinesInert`, for any
  sequence of lines, from `PagesInv`: the section is that of the last header. `ListStep`
  says which of the four lists a line can change; three lemmas about `Accepted` do the rest.

The host link, for any buffer, number of announcements, other senders and faults, from `LinkInv`:

* `LinkTypeCorrect`, `NothingEverForgotten`, `NewsAlwaysInTime`, `BusyHostSpared`, and
  `LinkImplementsFeed` (`StatusIsHosts`). `StatusFeed` asks that the status acted upon is
  newer than any before, which a datagram does not show. `AllGenuine` says of each datagram in
  the socket that its number is news and what it says was announced under it; `InTurn` that
  the numbers ascend, so that what waits behind the datagram taken stays news; `ActsOnHeard`
  that the status is that of the last announcement heard. `SocketConnected` is needed because
  `match` compares with `m_addr`, which is the host's only once it was found.

The session and the process:

* `SessionTypeCorrect`, `SocketKeptOpen`, `PagesKept` (`NoPageDropped`) from `PlaceInv`: at
  every place where the socket is used it is open and the last connection, and between two
  reads lies a `readMessage` (`HandsFree`).
* `SessionFeedsTheLoop` (`FeedsTheLoop`) from `PlaceInv` too.
* `SessionImplementsDelivery` (`AcksAreHonest`) and `TakenOncePerConnection`
  (`OncePerConnection`) from `DeliveryInv`, for lines joined and cut in any way whose rests are not
  taken for pages. The answer to a page carries a number only, so
  that "this answer is for a stored page" is not inductive alone. `AcksStored` adds that of
  the pages waited for exactly one has that number, that no other positive answer on its
  way has it, and that no page that is still to be read has it; `UnreadAwaited` that a page
  on its way is waited for and comes once; `KnownHere` that what came in this connection is
  waited for or acknowledged. Four kinds of step matter (a page read, a page sent, an
  answer heard, a new connection); every other one is shown to be `Quiet`. That the next
  number determines the number (`ReplyInjective`) is where the wrap at `ID_RANGE` comes in.
* `AckedPagesHeld`: what is acknowledged is held, what is held was offered, and neither is taken
  back; proved of `PageDelivery` and carried over by the refinement.
* `AssertionsNeedWholeLines`: with whole lines, and a server that sends no number alone and no
  functional code above 3, the assertions hold that `assertions` refutes, and the one of
  `CPOCSAGMessage`. So the refutation needs a line that is cut.
* `ProcessTypeCorrect`, `SocketsAlwaysReleased`, `LogClientExists`, `CallbacksSafe` from
  `ProcessInv`: what is open at each place of `run`, that a client is untouched before its
  run opens it, and that only a live client has a thread. Types need `RunsCounted`: each
  further run takes a SIGHUP of its own, since `main` forgets the last one first.

Liveness. The prover does temporal logic, but not ENABLED and not induction in a temporal
formula. What the theorems need of the two stands in them as a hypothesis, by name:

* `NeverStuck`, a state predicate that the runs check: where the fairness of `FairSpec` asks for
  a step, one is possible. The theorems have the form `FairSpec /\ []NeverStuck => ...`; weak
  fairness itself, and every step of the argument, is the prover's.
* `TurnsGoOn` of `HostLinkProofs` and `SessionGoesOn` of `PageDeliveryProofs`: where no run checks
  such a predicate, the fairness of `FairSpec` with ENABLED written out as the guard of the action.
  That the guards are the actions' own is to be compared by eye; no run of the project checks it.
* `CountsDown(rank, goal)` of the module `CountDown`: if, for every number, a rank of that value is
  followed by a smaller one or by the goal, then the goal comes. This is the rule of induction and no
  assumption about the program. Its premises are what the theorems prove.

From these, the loop:

* `LoopTurns`: unless it ends, the loop checks the slot and sleeps again and again. From each place
  it goes on to one of the next places (`Onward`), and to no other: `CarriedOn`, once for
  all places, `BackoffEnds` and `RecoverEnds`. No way leads round in a circle without the slot
  check, the sleep and the test of `m_killed`; hence `SignalEndsLoop` (`Stops`).
* `CycleNeverEnds` (`CycleGoesOn`), if no wait skips a slot (`NoneSkipped`: waits of at most
  one boundary, a clock that is not set): the loop notices the start of the cycle, and slots of ours,
  again and again. `InStep` says that the loop's slot is the clock's or the one before.
  `timeToCycle`, the milliseconds to the next slot 0, only comes down, and does so with every
  `Sleep`, until the clock is in slot 0. A slot of ours that is still to come in the cycle is `Due`,
  and stays so until it is noticed, so that slot 0 is not noticed a second time before it.
* `ScheduleLoads` (`ScheduleTakesEffect`): noticing slot 0 takes the schedule over, and nothing
  else takes it away.
* `QueueDrains` (`Drains`), if `PagesFit`: each page fits a slot whose start was just noticed. From
  the notice to `sendMessages` nothing can spoil it (`Fresh`), so the first page of the queue leaves
  it in every slot of ours. `RealPagesFit` shows `PagesFit` for the program's constants,
  if the loop takes at most half a slot from its slot check to the time test.
* `NothingHangs`: the four together, from the fairness alone. `ScheduleLoads` and `QueueDrains`
  rest on `CycleGoesOn`, which may hold with longer waits too; here it is discharged.

The host link, the session and the process:

* `NewsAlwaysArrives` (`NewsArrives`): `stepsLeft` counts two for each datagram ahead of an
  announcement and for itself, two for each error that may come, and one where the sending of
  a turn is next. Each step of a turn takes from it, a failed read too; the network cannot add
  to it, for the buffer is first in, first out, and what overflows is the newest.
* `EveryOfferArrives` (`EveryPageArrives`), where each `recv` returns one line (`OneByOne`).
  `SessionInv` says of an open connection that everything the server waits for is still unread,
  being answered, or answered and unheard (`OwedIsDue`, `PagesAreDue`), so that nothing is owed
  for ever. Three counts restart one within another. In a connection that stays open `toDo` weighs
  pages unsent, lines unread and answers unheard so that every step but a read of nothing takes from it.
  When the server has gone, `drainLeft` counts the lines that are read before `recover` notices.
  Each new connection costs one of `connsLeft`: a server that breaks off for ever acknowledges
  nothing, so that `MAX_CONNS` is the bound that the property needs, whatever it is.
* `SignalsEndProcess` (`TerminationObeyed`) and `HangupRestarts` (`HangupObeyed`). `SignalKills`,
  which is inductive, says that a signal that waits has set `m_killed` as well, so that a run
  that begins with it pending ends at once; then each place leads `Onward` to the end of `main`'s turn.

Only model-checked: `NeverStuck` in both modules, which is about ENABLED. Every other property of
the passing runs is a theorem, the liveness properties above relative to the hypotheses named.

## 5. Not modelled

* `CTimer` is compiled and never used; of `CThread` only `sleep` is, which is the passing of
  time in the loop; `CUtils` and the version string have no state; neither have the texts of the
  log. The Windows variants of the sockets, the clocks and the signals are left out.
* `CDAPNETNetwork` is modelled in part: `readLine` and `writeLine` of `CTCPSocket` are called by
  nothing, and the 200 bytes of the buffer are lines and parts of lines.
* `CMQTTConnection` is modelled in part: what is published decides nothing, and the gateway has
  no subscriptions, so that `onMessage` never runs.
* The characters of a line of the `.ini` file and the 500 bytes of its buffer: the repository says
  nothing of what a longer line should do.
* What a restart by SIGHUP does to the pages in `m_queue` (they are deleted): nothing promises
  that they survive it. `MaxQueue` is a bound of the models; the code has none.
* The descriptors 0 to 2 and the working directory of a daemon that is restarted.
* Datagrams that overtake each other: they carry no number, so that no order could be told, and
  `StatusIsHosts` would not hold.
