# A TLA+ model of the TitanShare daemon

TitanShare pairs a phone with a Linux PC: a daemon (C++, `src/src/`) listens on
TCP port 9999, lets a phone in that knows a rotating PIN, runs its commands,
receives and pushes files, shows its screen, and tells a GUI (`src/src_gui/`)
what happens through two JSON files. These modules model the parts of the
daemon where order, time, failure and concurrency decide whether it is right;
TLC checks them on small instances and TLAPS proves the most important
properties for all of them.

Paths below are relative to `src/src/` unless they start with `src`.

## The system

| Part | State | Operations | Interaction |
|---|---|---|---|
| `auth/session_manager.cpp` | window of recent PINs, ban record per address, `last_session.json`, `titanshare-pin.json` | `generateSession`, `validateKey`, `isIpBlocked`, `registerAuthFailure`, `registerAuthSuccess`, persist, load | called by sessions (main thread) and the PIN thread, under one mutex; the GUI reads its file |
| `server/tcp_server.cpp` | epoll set, descriptor numbers, `m_clients`, `m_running` | accept with TLS handshake, read, remove, `run`, `stop` | one thread, calls `onData` of sessions; `stop` is called by the signal handler |
| `server/client_session.cpp` | stage, buffer and read head, PIN attempts, open file and its counters, `transfer.json` | `onData`, `processBuffer`, `handleAuth`, `handleHeader`, `handleFileData`, push | SessionManager, CommandDispatcher, file system |
| `commands/command_dispatcher.cpp` | the receiver and the input device | `dispatch` | called by sessions, on the main thread |
| `mirror/mirror_receiver.cpp` | `m_running`, two descriptors, worker thread, pipeline | `start`, `stop`, the worker | main thread and worker, no lock |
| `main.cpp` | start order, PIN thread, `g_running`, `g_server`, the objects on its stack | startup, PIN refresh, signal handler, shutdown | everything |
| `input/virtual_input.cpp` | two uinput devices; which keys are down is the kernel's | mouse and keyboard commands | called by the dispatcher, shared by all sessions |
| `notifications/notification_bridge.cpp` | `m_running`, its thread | start, listen to D-Bus, stop | main joins its thread |
| `utils/logger.hpp` | the mutex around the log | `log` | every thread and the signal handler |
| `discovery/mdns_advertiser.cpp` | PIN, dirty flag, avahi objects | start, update, stop, its loop | its own thread; main and PIN threads call it |
| `src_gui/main.cpp` | what it displays | reads the newest PIN and transfer files, copies dropped files | files only |
| `utils/ssl_helper.cpp` | TLS context | accept, close | the event loop and the mirror worker |
| `qr/`, `file_transfer/`, system info, power, volume, lock, network, process | programs, `/proc` | wrappers of the system | called by the above |

What is hard in it:

* **cut and pipelined streams** - a `recv` can end anywhere and hold several
  messages, of which some are lines and some are the bytes of a file;
* **one thread for all clients** - whatever blocks or throws in one session
  stops them all;
* **bans across connections** - an address spreads its guesses over
  connections and time;
* **files written by several parties** - sessions that receive one name, a
  daemon that is killed between two writes, a second daemon, a GUI that reads
  at any moment and replaces a file while it is pushed;
* **descriptor numbers** - the kernel gives a closed one out again, and a
  session, the loop and the mirror's two threads all close;
* **threads without locks** - `stop()` against the mirror worker, the signal
  handler on any thread, a detached thread that outlives `main`;
* **peers that do not read** - a send buffer takes part of a reply, or nothing;
* **faults** - disks that are full, phones that vanish.

`PROJECT.json` lists each hazard with its line and the properties that cover it.

What makes each part correct: the *SessionManager* accepts the PIN that is
shown and keeps guesses apart in time; a *session* answers each request once,
never takes a payload for a request, acknowledges only files that are whole,
and holds a descriptor exactly while it receives; the *event loop* serves every
phone, loses no number and closes none of another thread; a *push* delivers the
first bytes of one version of a file, and ends; *devices* are left with nothing
pressed that nobody holds; the *daemon* ends when told to, and uses nothing it
has destroyed; the *mirror receiver* has a
worker while it says it runs, never two, leaves nothing behind when it has
stopped, and always stops.

## Modules

| Module | Models | State and actions |
|---|---|---|
| `SessionManager` | `session_manager.cpp` | operators on the PIN window and on the ban record of one address; each method is one critical section, hence one operator |
| `ClientSession` | `tcp_server.cpp`, `client_session.cpp`, dispatch of `command_dispatcher.cpp` | the variables are the fields of `ClientSession`, per connection; the loop position (`serving`, `parsing`); the disk and `transfer.json`; the phones and the network |
| `RequestOrder` | what a phone relies on | abstract: how far a connection has answered its requests, and whether it has invited a file |
| `EventLoop` | `tcp_server.cpp`, `SslHelper::acceptTls` | program counter of the loop, its batch, `m_clients`, and the descriptor table of the process |
| `VirtualInput` | `virtual_input.cpp` | operators: the events of a command, and what is down after them |
| `PushFile` | `pushFile`, `pushFileList`, `sendResponse`, the drop and the overlay of the GUI | a stop per look at the file and per write; the send buffer; a phone that counts bytes |
| `MCAuth`, `MCUpload`, `MCEventLoop` | | scripts of phones, descriptors and keys for TLC |
| `PairingPin` | `main.cpp`, `persistSession`, `getIpcFilePath` | a program counter per daemon (`pc`), its memory, and the files that survive it |
| `Shutdown` | `main.cpp`, `run` and `stop` of `tcp_server.cpp`, `logger.hpp`, `notification_bridge.cpp`, what main waits for of `mirror_receiver.cpp` | program counters of four threads and of the signal handler, the flags, the log mutex and the objects on main's stack |
| `MirrorReceiver` | `mirror_receiver.cpp`, `handleMirrorCommand`, `acceptTls` | program counters of the two threads, their shared fields, and the kernel's descriptor table |
| `MdnsAdvertiser` | `mdns_advertiser.cpp` | program counters of the loop and of `stop()`, the shared flags and pointer, and the avahi daemon with its events |
| `ClientSessionProofs`, `ClientSessionStreamProofs`, `PairingPinProofs`, `EventLoopProofs`, `ShutdownProofs`, `MirrorReceiverProofs`, `MdnsAdvertiserProofs`, `PushFileProofs` | | theorems |

`ClientSession` and `PairingPin` extend `SessionManager`: sessions check the PINs
and bans of the operators that issue them. `EventLoop` extends `VirtualInput`:
its sessions press keys on the devices they share. `ClientSession` implements
`RequestOrder` (`Order == INSTANCE RequestOrder WITH ...`, the property
`AnsweredInOrder`). The views of one piece of code in two modules divide it:
`EventLoop` says when `onData` of which session is called and what becomes of its
number, `ClientSession` what the call does with bytes, and `PushFile` how the
one call that waits for a phone proceeds. `Shutdown` has of an event of the loop
only what `main` waits for in it, which `EventLoop`, `PushFile` and `MirrorReceiver`
take apart, and takes `mdns.stop()` to return, which `StopReturns` of
`MdnsAdvertiser` shows.

### ClientSession

A character is a pair of a message and a position, so that every property can
tell whose byte it is without strings. `OnData` appends any prefix of what is
on the wire (up to the read buffer's size); `ProcessLine` and `HandleFileData`
each are one round of the `while` of `processBuffer`, so the clock and the PIN
thread can come between two lines of one read, as they can in the code.
`ProcessBufferReturns` and `WouldBlock` are the two returns to the loops above.
The read head (`bufferOffset`) and the compaction are kept because the clearing
of the buffer and the end of a file treat them separately.

A message of kind `body` may hold a newline at its end or, if it is in
`NoNewline`, none. `Size` of a `FILE_START` is the number it declares; a script
whose bodies have that length is a client that keeps to the protocol. A line
that is not the whole of one message is of no kind: an unknown request.

Faults, each switched on by the run: the disk does not open, writes short,
fails, or makes `create_directories` throw at `FILE_START` (it can throw in
`publishTransferState` as well; that is left out, the outcome is the same); the
phone closes its side or is reset; a push ends in one of its outcomes.

Left out here: TLS (transparent once established; that a handshake which fails
has swallowed the first bytes of a client that speaks without TLS,
`ssl_helper.cpp:106`, is not modelled, and the model delivers them), replies that do
not fit the send buffer and the steps of a push (`PushFile`), descriptor numbers
(`EventLoop`), and what commands do to the machine.

`RequestOrder` is what a phone can rely on, as answers name no request: a
connection is a queue, its requests answered in order, none passed over, a file
first invited and then answered with nothing in between. The refinement mapping
reads off `replies` which message was answered last and whether that answer was
`READY_FOR_FILE`. Two kinds of messages are `Optional`, answered or not: the legacy
end mark of a file, depending on where the network cuts the stream, and an input
event, which is not answered unless it comes before the PIN was accepted:
`handleAuth` takes every line for a guess.

### PairingPin

An `ofstream` empties its file when it is opened and fills it when it is closed.
The steps of `persistSession` are therefore open and write of two files, during
which the daemon may be killed, the GUI may read, and another daemon may run.
A daemon run as root and one run as a user have different directories: `Users`
stands for them. `announced` is the PIN last logged and handed to mDNS (the
service record itself leaves the PIN out, though `mdns_advertiser.hpp:35` says it
will appear there). Two files written in the same millisecond are ordered as
they were written.

The code does not promise that the GUI shows an accepted PIN in every case: a
second daemon that finds the port taken has already written its PIN, and a file
that cannot be opened keeps an old one. The history variable `disturbed` is set when one of the two has happened;
`GuiPinAcceptedUndisturbed` says that nothing else, no crash at any step and no
full disk, makes the GUI show a PIN that is refused.

### EventLoop and VirtualInput

`Wait` is `epoll_wait`: it reports what is ready, at most `MAX_EVENTS`, and what did
not fit comes first the next time (the kernel's ready list is a queue). A batch
is a set, handled in any order. `Dispatch` looks the number up when the event is
handled, as the code does. `Accept` and `HandshakeEnds` are the two halves of
`acceptConnection`, between which the loop does nothing else for up to five
seconds; whichever way the handshake comes out, the session is made. A session
that refuses closes its own number (`m_closed`), and the loop, still reading it,
finds what the kernel has put there by then and closes it again in
`CloseRemoved`. A `recv` on what the loop finds there is taken to fail or to find
nothing, though a foreign descriptor could block; this is after `raced` only.
Other threads open and close numbers at any time (`owned` is what
they take for theirs). `accept` can fail at any time; the phone then stays in
the backlog.

Which bytes a read brings does not matter to the loop: `SessionActs`,
`SessionRefuses`, `SessionPresses` and `SessionPushes` are the outcomes of one
`onData`. The commands of `VirtualInput` turn into sequences of key events; `held`
is what the kernel has down after them. Movements and the wheel press nothing
and are left out. The phones share the devices: a click by one phone lets go the button
another holds down. `Initialized` says whether `init()` has made both devices:
without them a command is dropped.

### Shutdown

Each thread stops where it looks at or changes what others see. A log call is
two steps, lock and unlock, since `Logger::log` holds a mutex while it writes. A
signal picks any thread that runs; `signalHandler` stops it, and its own steps are
the log call, `g_running`, the load of `g_server`, and `stop()`. A thread that is
interrupted while it holds the mutex waits for itself: the history variable
`selfLocked` marks it.

`Loop` has the three outcomes of a turn: the flag is down, `epoll_wait` reports
events, or it fails and the loop ends by itself, with `g_running` still set; the
two log calls after such an end are one. `gaveUp` marks that `run()` has ended
without a signal. An event is handled at once, waits for a phone (`phone`: a push,
a reply over TLS, a read that goes on while the phone sends), starts the receiver,
or stops it and joins its worker. Of the worker the module keeps what a join
depends on: whether it has a phone that `stop()` knows of and can shut down, or
one it accepted behind its back (`held`), which only the phone can end.

The locals of `main` go in the reverse order of their making: the server
(`serverAlive`), the dispatcher with its receiver, whose destructor joins the worker
(`JoinAtEnd`), then mdns and sessionMgr (`alive`); the detached PIN thread may still
be there until the process exits. Taken to return, each after a time: the programs
a command runs, the building of the GStreamer pipeline, a refresh of the PIN, and
`mdns.stop()`. An exception nobody catches ends the process at once, which is no
way to hang; it is in `ClientSession` and `PushFile`.

### PushFile

The daemon looks at a file with `exists`, `file_size`, `open` and `read`, and the
GUI may remove it, copy a new one, or another program truncate it, between any
two. A version is one inode, its bytes are numbered, so that the phone's copy
tells where it came from. `file_size` of a file that is gone throws, and nothing
catches that: the daemon is `dead`. The copy of the GUI is taken to appear whole
under its name: a push that begins during the copy would announce the length so
far and take that much of a file that grows. The send buffer takes `Capacity`
units; a line is two units, so that it can be torn, and a byte one. An empty
buffer is taken to hold a header or an error, which are as long as a file name
(`Capacity >= 2`), but the listing of the drop folder grows with the folder: it may
be `long`, more than any buffer holds, and then one `send` never takes all of it.
Over TLS `sendResponse` polls until its line is taken; without it, it sends once
and drops the rest. `poll` and `send` are one step, for nothing comes in between
that matters. The stale `errno` that `pushFile` may look at after an error of the
TLS layer is not modelled: it is taken for the error it was. A `transfer.json`
read while it is written shows nothing active, as in the GUI's parser.

### MirrorReceiver

Each step reads or writes one shared variable or makes one system call, so that
`stop()` and the worker interleave at every point where the code lets them. The
plain ints `listenerFd` and `clientFd` are read and written by both threads
without a lock; the model takes each access as atomic, which is what the build
does with an aligned int. A descriptor is a number, and the kernel hands out the
lowest free one; other threads of the daemon open and close theirs at any time.
A read by the worker from a number that is no longer its stream is taken to
fail at once, though it could block or succeed on what is there now; this is
after an overlap only.

### MdnsAdvertiser

The loop owns the avahi objects; `stop()` reads its plain pointer `m_simplePoll`
and the PIN thread sets `m_pinDirty`. Each step of a thread is at most one access
to what is shared; what only the loop touches is done in one step, a callback
with the `createServices` in it included. The avahi daemon is external: what it
can report, in which order, and which of the calls of `createServices` can fail
is taken from what the code handles. `events` is what it has reported and the
loop not taken. `MaxFaults` bounds how often something goes wrong. That a poll
which was asked to quit keeps returning 1 is how `updatePin`'s comment (line 52)
describes it.

## Runs

Passing runs (distinct states are those of the runs' bounds):

| Run | Shows | Bounds |
|---|---|---|
| `MCAuth` | `RateLimited`; `GuessesCapped`: however guesses are pipelined, a connection is answered at most its number of them, and nothing after it is closed | 3 connections, 2 addresses, 2 PINs, 2 guesses per connection, threshold 2, ban 2, cap 8, clock to 4: two bans fit one after the other (634 000 states) |
| `MCUpload_two` | `PayloadNeverParsed`; `AnsweredInOrder`: the refinement of `RequestOrder`; `PatientRequestsAnswered`: who waits for replies gets them | 2 phones, one of them pipelined, files of 3 and 2 characters, files that cannot be opened, a legacy end mark and a request behind the file, an input event before the PIN, hang-ups at any point (97 000) |
| `MCUpload_faults` | `TypeOK`, `DescriptorMatchesStage`, `UploadIntact`, `TransferIsUnfinished` | 1 phone, every kind of request, 2 files, all outcomes of a push, all disk faults, exceptions, hang-ups (72 000) |
| `MCEventLoop` | `TypeOK`, `ForeignUnhurt`, `SessionsOwnTheirNumber`, `NoConnectionLeaks`, `KeysReleased`, `ButtonsMoveOnRequest`, `EveryClientServed` | 2 phones that come back, 3 numbers of which other threads hold 1, 2 clients, batches of 2 events (458 000) |
| `PushFile` | `TypeOK`, `TakenInOrder`, `PhoneStaysInStep`, `RepliesReachWhole`, `RequestEnds`, `OverlayGoesOff` | 2 versions of at most 3 bytes, chunks of 2, a buffer of 3, 2 requests, with and without TLS, a listing that fits or not, truncation (653 000) |
| `Shutdown` | `TypeOK`, `ServerStoppedAlive`, `RefreshWithinLifetime`, `DaemonEnds` | 2 signals, one after the other, turns of at most one event, `epoll_wait` that fails, phones that let go (170 000) |
| `PairingPin` | `GuiPinAcceptedUndisturbed`, `AnnouncedPinAccepted` | root and user, alone or next to each other, killed at any step, 3 PINs, window of 2, files that do not open or are not written (400 000) |
| `MirrorReceiver` | `TypeOK`, `RunningHasWorker`, `OneWorker`, `StopReleasesAll`, `NoSocketLeaks`, `ForeignSafeWithoutOverlap`, `StopReturns` | 3 numbers, of which other threads hold at most 1 (35 000) |
| `MdnsAdvertiser` | `TypeOK`, `NoUseAfterFree`, `StopReturns`, `ServiceComesBack` | 2 faults of avahi, a stop at any moment, PIN refreshes at any moment (11 000) |

Why the bounds are enough: a file of 3 characters has a first, a middle and a
last one, so reads and writes can end before, at and after each boundary; the
read buffer (4) is longer than a file, so a read can hold its end and what
follows; `COMPACT_AT` (4) is reached within a script, so that the dead prefix
both stays and goes. Three connections let an address reconnect while another
one of it is open and a third belongs to somebody else. A threshold of 2 makes
counts of 0, 1 and the threshold; a clock to 4 lets a ban of 2 run out and
another begin. Three PINs overflow a window of 2. Three descriptors hold a
listener, a stream and a foreign one, and leave none free, so that `accept` can
fail. Two faults of avahi let one hit while another is being mended, a failed
commit after a collision for instance; three give 32 000 states and nothing new.
Two clients and three numbers let a phone be accepted, be turned away at a full
table, find no number free, and get the number of a session that was refused
while its event is still in the batch; a batch of two holds any two of listener
and phones, and with both phones talking something does not fit. A file of 3
bytes is a whole chunk and a part of one; a buffer of 3 takes a line and the
half of another, or part of a chunk; two versions give a push of each. Two
signals let one interrupt and one be lost, or both. One event in a turn is enough
for `Shutdown`, whose flag is looked at between turns and not between events: more
events only make a turn longer.
There is no symmetry: scripts and descriptor order tell the elements
apart.

Deadlock is not checked where the system may stop: `ClientSession`, whose scripts
end and whose clock stops at `MaxTime`, `MdnsAdvertiser` and `Shutdown`, whose daemon
exits, and `PushFile`, whose phone has asked all it asks. It is for `PairingPin`,
`EventLoop` and `MirrorReceiver`, which go on for ever.

**Fairness.** `ClientSession!Fairness`: the one thread of the daemon keeps
running and level-triggered epoll reports a descriptor as long as it is ready,
so each session's server step is weakly fair; a phone that may send does. No
fairness is assumed of hang-ups, the clock or the PIN thread.
`MirrorReceiver!FairSpec`: both threads are scheduled. That a phone speaks or
leaves is a separate assumption (`PhonesAreFair`), which the run `MirrorReceiver`
makes and `MirrorReceiver_v_stop` does not: no code and no TCP keep-alive
enforces it. `MdnsAdvertiser!FairSpec`: both threads are scheduled, the PIN
thread wakes up again and again (`main.cpp:95`), and an avahi daemon that runs
settles names and establishes what stays committed; the last is strong fairness,
since a refresh withdraws the record every time. `EventLoop`: the loop's thread
runs; what it waits for without an end, a phone that takes a file
(`WF_vars(PushEnds)`) and one that pauses in sending (`SF_vars(ReadWouldBlock)`, as a phone
can send again before each read), is assumed only with `PhonesAreFair`. No
fairness is assumed of a handshake's phone: `HandshakeEnds` is a step of the loop,
by its deadline. `Shutdown`: strong fairness of the handler and of `main`, the
notification thread and the mirror worker, for which `main` waits: each is
scheduled, and none waits for the log mutex for ever while others come
and go, which glibc's mutex does not promise but a logger that is mostly idle
gives; weak fairness of the PIN thread, for which nobody waits. That a phone which
`main` or the worker waits for lets go is the assumption `PhonesAreFair`. `PushFile`: the loop's thread runs and the GUI's timer fires; that the phone
reads (`WF_vars(Takes)`) is the assumption `PhoneReads`, without which `pushFile` polls
for ever.

### What the code does otherwise than it says

Each `_v_` run checks one claim of a comment or a document and finds it
violated; `PROJECT.json` quotes the claim.

| Run | What happens |
|---|---|
| `MCAuth_v_bans` | `isIpBlocked` forgets the number of bans with the ban that expired: the exponential backoff never grows. `BanInvariant` proves for all constants that `banCount` is positive only during a ban |
| `MCUpload_v_pipelined` | a request read together with the last bytes of a file is not answered until the client sends something else |
| `MirrorReceiver_v_stop` | `stop()` waits for a worker in a handshake with a silent phone |

The same modules show more when a bound of a passing run is lifted, which is why
those runs have it:

* `UploadIntact` with one name for two files: `FILE_START` truncates the file
  another session is receiving, and both are acknowledged.
* `PayloadNeverParsed` with the disk fault "error": the rest of a file whose
  write failed is read as request lines.
* `AnsweredInOrder` without input events among the `Optional` messages: an input
  event before the PIN was accepted is answered `AUTH_FAIL`.
* `SentinelIsSilent` in `MCUpload_two`: a `FILE_END` that is read after the file is
  answered `UNKNOWN_REQUEST`, although the protocol calls it optional.
* `GuiPinAccepted` without `disturbed`: a second daemon overwrites the PIN file
  before it finds the port taken.
* `PatientRequestsAnswered` with the fault "short": the bytes that a short write
  left over at the end of a file wait in the buffer, and no answer is sent.
* `GuiPinAccepted` with the fault "open" and no second daemon: the IPC file keeps
  the PIN of an earlier life of the daemon.
* `EveryClientServed` without `PhonesAreFair`, and `RequestEnds` without `PhoneReads`: a
  phone that never pauses in sending, or never reads what is pushed to it, has
  the only thread for itself.
* `ForeignUnhurt` and `SessionsOwnTheirNumber` without `raced`: a session that refuses a
  phone closes its number, another thread is given it, and `removeClient` closes
  it again.
* `ServerStoppedAlive` without `overtaken`: the handler, on another thread, has read
  `g_server`, `main` clears it and returns, and the handler stops what is gone.
  `RefreshWithinLifetime` without its exceptions: the PIN thread is in the middle of a
  refresh when `main` returns, or `run()` gave up, without its port or because
  `epoll_wait` failed, and nobody cleared `g_running`.
  `DaemonEnds` without `selfLocked`, or for a signal before `run()` has set `m_running`:
  the handler waits for the mutex of the thread it stopped; `run()` sets the flag
  again that the handler has cleared. `DaemonEnds` without `PhonesAreFair`: `main` is in
  a push to a phone that does not read, or joins, in `STOP_MIRROR` or as it returns,
  a worker that waits for a phone `stop()` has missed.
* `RepliesReachWhole` for a `long` listing, or for a phone that does not wait: without
  TLS `sendResponse` sends once and drops what the buffer did not take.
* `PhoneStaysInStep` without its exceptions: a reply of which the socket took a part,
  and a file that shrinks under its push, leave the phone waiting for bytes that
  are the next reply.
* `NoUseAfterFree` without `raced`: `stop()` loads the pointer, the loop sees
  `m_running` cleared, leaves and frees the poll, and `stop()` asks the freed poll
  to quit.
* `ServiceComesBack` without its exceptions: after a client failure the poll is
  asked to quit while `m_running` is set, so the loop turns without waiting and
  the client is not made again (`mdns_advertiser.cpp:104`); and a group that could
  not be made is not tried again, because a refresh is ignored without one
  (`:107`).
* `transfer` stays active when a session ends in the middle of a file, and
  `START_MIRROR` reports `MIRROR_READY` in the worker's last steps, when the
  listener is closed; a pipeline that cannot be built leaves a listener nobody
  serves until the next `start()` or `stop()`.

## Proofs

TLAPS checks these for every value of the constants that satisfies the named
assumptions of the modules (`PinWindowAssumption`, `BanAssumption`,
`ScriptAssumption`, `ProtocolAssumption`, `LimitAssumption`, `FaultAssumption`,
`FdAssumption`, `FaultBoundAssumption`, `UserAssumption`, `LoopAssumption`,
`InputAssumption`, `KeyAssumption`, `CommandAssumption`, `SignalsAssumption`,
`PushAssumption`): limits are positive, the first ban is not longer than the cap,
scripts consist of messages, `PushOutcomes` and `PeerFaults` are known outcomes,
numbers are naturals, phones are not among the marks of the descriptor table,
the tables of `virtual_input.cpp` give keys codes that are no button's, and what is
typed is a sequence of characters. `ProtocolAssumption` is what
a phone that keeps to the protocol does: the bytes of a file are the message
after its `FILE_START` and as many as it announces, if the daemon can accept it.
A phone that announces less has the rest of its file read as lines, by design.

Two hypotheses stand in the theorems that need them, since the code goes
wrong without. `DistinctNames`: no two files that can be accepted have one name, as
`FILE_START` truncates a file that another session is receiving. `NoWriteFails`:
`write` does not fail, as a failed write empties the buffer in the middle of a file
and the rest of it is parsed as lines. Short writes, disks that do not open,
exceptions and hang-ups are within both.

* `RateLimitHolds` rests on `BanInvariant`. `RateLimited`
  speaks of failure times only, which `registerAuthFailure` never sees, so the
  invariant `GoodRecord` ties them to the record: while an address is free, all
  failures but those the record counts are a ban's length old; while it is
  banned they will be when the ban ends; and `banCount` is positive only during
  a ban. The lemmas show this for each operator of `SessionManager`
  (`CheckIsGood`, `FailureIsGood`, `CleanIsGood`, `TimePasses`), and the
  preservation proof applies them to `HandleAuth` and `Tick`, the only actions
  that touch a record or the clock.
* `TypeCorrect` of ClientSession strengthens `TypeOK` by "a session in DATA has
  its request" and takes `banCount = 0` at a failure from `BanInvariant`: the
  length of a ban is a recursive function whose type needs no induction there.
  The conjuncts are grouped by the variables that change together (`Frame`), so
  each action is proved only for the groups it touches. It contains that the
  read head never passes the end of the buffer.
* `DescriptorsNeverLeak` needs in addition that the session being served is
  connected and that one not yet connected is in AUTH (`FileInv`).
* `GuessesAlwaysCapped` rests on `GuessRecord`: while a session is not closed its
  attempts count the AUTH_FAIL replies it got and are below the limit. The lemmas
  say what one more reply does to it; a closed session gets none.
* `StreamInvariant` is what the theorems about files and answers rest on. `Unread` of
  a connection, what the read head has before it and what is on the wire, is a
  `Stream`: each character is of a message the client got through (`Known`), they
  come in the order of the script (`Ordered`), a message that is begun goes on to its
  end and is whole before the head (`Onward`, `Backward`), and no request between two
  messages was left out (`NoneLeftOut`). While the client is there the last message
  is on its way as a whole (`Whole`) and nothing after it asks for an answer
  (`Last`). The lemmas on sequences say what taking a part of the head, cutting the
  end off and appending a message do to a stream (`RestStreams`, `FirstStreams`,
  `SentStreams`); every action does one of them: `consumeBuffer` with or without its
  compaction, the end of a file and a failed write take a part (`Takes`), `OnData`
  only moves characters.
* `SessionInvariant` relates the stream to the replies: a message that was answered
  has been sent and none of it is unread (`Gone`), the bytes of a file are sent only
  after its answer (`Asked`), a session in DATA has invited its file and not answered
  it (`Receiving`), and the next unread character is the next byte of the file
  (`Continues`). `TransferStaysUnfinished` follows from it without any hypothesis.
* `UploadsStayIntact` adds `DiskInv`: what has been received of a file is on the disk,
  as the first bytes of it. `WriteExtends` says that `write` at the descriptor's
  offset appends, and `OthersKeepDisk` that no other session's file is touched.
* `PayloadIsNeverParsed` and the refinement `AnswersAreInOrder` add `HeadInv`: outside
  of DATA the read head is at the start of a message (`Starts`), bytes of a file are
  on their way only to the session that receives it (`BytesOnly`), the last reply
  invites a file exactly in DATA (`InvitesOne`), and what is unread comes after the
  message answered last, with no request between (`Ahead`, `Missed`). So the line that
  is found is the message at the head (`LineIsHead`), and a reply to it is a step
  of `RequestOrder`: `LineIsInOrder` maps a line to `Answer`, `Invite` or a stutter,
  `DataIsInOrder` a call of `handleFileData` to `Finish` or a stutter, and no other
  action replies.
* `RunningAlwaysHasWorker` and `WorkersNeverOverlap` share `ThreadInv`, which
  says where the main thread can be when there is no worker; they hold for every
  set of descriptors and any behaviour of phones and other threads.
* `StopLeavesNothing` and `SocketsDoNotPileUp` add what `SocketInv` says of the
  descriptor table: a listener or stream that is open is the one its variable
  names, unless it is on its way out, and then only one of the two threads is
  closing it. `ForeignNumbersSafe` needs the converse, `Owned`, which holds only
  until a `stop()` overlaps a worker: a number that will be closed still names the
  object it was opened for.
* `FreedPollIsNotUsed` needs `PollInv`: only a loop on its way out leaves a freed
  poll, for one step the pointer still points to it, and a `stop()` that holds the
  pointer then has raced. `AdvertiserTypeCorrect` needs the bound on events
  (`EventBound`): two for each fault, and one more once the daemon is up.
* `GuiAccepted` and `AnnouncedAccepted` of PairingPin hold if the window holds two
  PINs (the code has twelve). They need that the newest PIN closes the window
  (`WindowEnds`), that it is the one announced from its announcement to the next
  refresh, and that who listens is past the bind; `RememberKeepsLast` says that
  the PIN before the newest one is still valid, which covers the time between a
  refresh and what follows it. `GuiAccepted` adds what `disturbed` excludes: daemons
  run one at a time (`Alone`), and one past its `openIpc` has the newest file, empty
  or with its PIN (`FilesOwned`).
* `ConnectionsNotLost` of EventLoop is inductive with the handler's position
  (`Handled`). `OthersUnhurt` and `SessionsKeepTheirNumber` share one invariant
  (`Undisturbed`): until `raced`, the numbers other threads own are theirs in the
  table, and each session has its number or has closed it, with the loop still
  reading it. `TypeCorrect` contains that `m_clients` keeps its limit, which needs
  that a handshake is begun only below it and that nothing else adds.
* `ServerNotStoppedDead` of Shutdown needs that what the handler has loaded is the
  server unless `main` cleared it since; `RefreshEndsInTime` that `main` is past
  its loop only after `run()` gave up or `g_running` was cleared, and that a refresh
  begins only while it is set. `TypeCorrect` ties the mutex to the log calls.
* `InStep` of PushFile follows the units on their way one by one: `Leads(from, units,
  to)` says that a phone which waits for `from` takes each of `units` for what it is
  and then waits for `to`. Invariant is that the send buffer leads from what the
  phone waits for to where the session stands (`Standing`: a line, the rest of
  one, or the bytes not yet written), as long as no reply was torn and no file ended
  early. Each action needs one lemma: the phone takes the first unit (`LeadsFirst`),
  the session appends some (`LeadsOn`). It holds for every capacity, chunk and file.
  `RepliesWhole` needs that a patient phone has its request served with an empty
  buffer (`Served`); that such a buffer holds a header or an error is assumed
  (`PushAssumption`), and a `long` listing is excluded by the property.

* `InOrder` of PushFile looks at what the phone has of its file, followed by what is
  in the send buffer, as one tape (`Tape`). Without a file cut short every length
  announced on it has all its bytes behind it, from one version, or is the one the
  session is writing (`RunsOf`). Without a torn line every byte follows its
  predecessor of the same version, and a first byte a line (`ChainOf`). Neither is
  inductive under both faults at once, which is why the property excludes the two
  together; each step of the session appends to the tape, each of the phone moves
  the border between the two parts.
* `KeysComeUp` and `ButtonsMove` of EventLoop follow what a command emits event by
  event. What the devices hold after it is a fold (`After`), and a text emits the
  concatenation of what its characters emit (`FlattenSeq`). `FoldIs` and `FlattenIs`
  give both as the last element of a sequence of partial results, by the induction
  on a set of numbers that `Inductive` derives from `WFMin` (no operator is a
  parameter). `LetsGo` says of a sequence of events that each key it presses is
  released later in it, and that it names no button: every command but those of a
  single button is such a sequence, also when texts join them, and `LettingGo` shows
  that it leaves the devices as they were. `AfterIs` sums up each command.

Every safety property of the passing runs is stated by one of these theorems, and so is
every action property. The following is only model-checked:

* Liveness (`PatientRequestsAnswered`, `StopReturns`, `ServiceComesBack`,
  `EveryClientServed`, `DaemonEnds`, `RequestEnds`, `OverlayGoesOff`), which needs
  fairness and ENABLED.
* `UploadIntact` for scripts in which files share a name, and `PayloadNeverParsed` and
  `AnsweredInOrder` where writes fail, are false in general: the two hypotheses above
  are what the theorems need.
* The values of `Doubled`. The code never calls it with anything but 0, which
  `BanInvariant` shows, so nothing would follow from them.

## Plan

1. *Done*: every component with state of its own: SessionManager, ClientSession,
   PairingPin, MirrorReceiver, MdnsAdvertiser, EventLoop with VirtualInput,
   Shutdown, PushFile; the refinement of RequestOrder, proved step by step; the
   theorems above.
2. An abstract service (off, on, stopping) that MirrorReceiver and
   MdnsAdvertiser both implement.

## Not modelled

* SystemInfo, power, volume and lock commands, the network and process
  utilities: they read `/proc`, run programs and format what comes out; they keep
  no state between calls. To a session each is a `CMD_REPLY`.
* FileReceiver is called by nothing; QrGenerator renders and keeps nothing.
* Certificates, contexts and cryptography of SslHelper; the GStreamer pipeline
  (a flag in MirrorReceiver); the text of notifications, logs and replies; the
  QML of the GUI, of which only the overlay's state is modelled.
