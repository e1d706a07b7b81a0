# network-gamepads in TLA+

network-gamepads sends the events of an input device over TCP to a server that
replays them through a uinput device.  This directory holds TLA+ models of it,
the TLC configurations that check them on small instances, and TLAPS proofs
about them.  `PROJECT.json` maps every definition to the source lines it
models; line numbers below are of that commit.

    tlc -config ServerSlots.cfg MCInputServer.tla      # one model-checking run
    tlapm InputServerProofs.tla                        # one module of proofs

## 1. The system

### Components

| component | state | operations |
|---|---|---|
| server core loop, `server/input-server.c` | `clients[]` (fd, ev_fd, status, meta), `waiting_clients[]`, `shutdown_server`, the fd_set of a round; in the kernel: sockets, backlog | `main`'s loop, `client_connection`, `client_hello`, `client_data` and its handlers, `client_close`, `signal_handler` |
| server input buffers, `recv_data`, `client_data`, `common/protocol.c` | `input_buffer`, `scan_offset`, `bytes_available` of each entry and slot | receive, shift, size of the next message, take it off |
| server device setup, `server/uinput.c` and the setup handlers | `meta` (name, enabled_events, absinfo), the uinput device | DEVICE, ABSINFO, REQUEST_EVENT, SETUP_END, `enable_events`, `create_device`, `cleanup_device` |
| server configuration, `setCodeList` etc. | `whitelist[][]`, the options' values | the command line and the access lists it names, before the loop |
| input-client, `client/input-client.c` | socket, answer buffer, slot number, `quit_signal`, tries left | handshake, setup, streaming, reconnecting, reopening the device, QUIT |
| socket helpers, `common/network.h` | none | `send_message`, `recv_message`, connect and listen |
| osc-xlater, `osc/osc-xlater.c` | recorded mappings, the shared buffer, `shutdown_requested` | negotiation, recording a path per control, OSC packets to events |
| argument parser, `libs/easy_args.c` | the items and their containers, the words left over | one word, its item, its value |
| logger, `strdup.h`, Wireshark dissector, build files, manuals | none | printing, documentation |

### Interactions

The server is one thread around `select()`.  A connection is accepted into a
free entry of the waiting queue; a HELLO read there moves its descriptor to a
client slot, the one asked for or (slot 0) one the server picks; the messages
that follow are handled in the slot: PASSWORD if one is set, then a setup
phase that ends in `create_device()`, then DATA.  A slot's device outlives its
client: a reconnecting client finds it, an auto-assigned one may cost it.
input-client and osc-xlater are such clients, each a program with blocking
calls and a SIGINT handler.  They share nothing with the server but the byte
streams; the kernel owns the sockets and the devices and cleans both up when a
process ends.  The command line and the access lists are read once, before the
server listens, and decide what the setup phase lets through.

### What is hard

* One `select()` result serves a whole round in which connections are
  accepted, closed and moved; a `recv()` on one that has nothing to read
  stops the server for everyone.
* A connection ends in four ways (`client_close` with and without cleanup, the
  error path of `client_data`, the refusals of `client_hello`), each leaving a
  different part of the slot behind, and the slot is used again.
* Replies can fail after the status or the device has already changed.
* TCP cuts the stream anywhere; messages of variable length tell their length
  in their second byte; buffers are shifted and reused without being cleared.
* Nothing times out, and a signal can fall between a test and a `select()`, a
  `recv()` or a `read()`.
* The client decides by what it has been told: an answer may come late, in
  part, from a server that has been restarted since, or not at all, and what
  it sent last may be lost with the connection.
* osc-xlater's packets and key strokes share one buffer, which decides.

### What makes it correct

* Core loop: descriptors have one owner; devices have one owner; a client does
  only what a PASSWORD of its own, accepted by the code, and its setup entitle
  it to; `recv()` never blocks; a
  client's idea of its status is the server's; a device goes only in the ways
  `protocol.md` lists; a hung-up connection is let go; SIGINT is heard.
* Buffers: every message is handled once, whole, in order and at last, and by
  what its own connection sent.
* Device setup: the device is what was asked for minus what is forbidden, plus
  the axes that were described, and a name is always there when it is needed.
* Client against server: who streams owns the slot it was told, with a device
  that can send what the filters of the two programs leave of its events; no event is lost while the connection holds; every
  handshake, every interrupted program and every closed connection comes to
  its end.
* osc-xlater: a control gets a path only by a newline read for it and not for
  another; each key that is sent was requested; SIGINT and the keyboard are
  heard.
* Start-up: only a command line that was understood in full starts a server,
  and an event that a list names is allowed or not as the last list says.

`PROJECT.json`, "hazards", has the list of these by source line, with the
properties that watch each of them.

## 2. The modules

| module | what it is |
|---|---|
| `InputServer` | the core loop: one action per step of `main`'s loop, per handler, and per thing a peer, the operator or the kernel does |
| `SlotService` | the abstract specification: who owns a slot, how far the owner has come, whether the slot has a device |
| `InputBuffer` | bytes to messages: one waiting entry and one slot |
| `DeviceSetup` | one slot's `meta` and the device made of it |
| `InputClient` | the client's program and its end of the connection |
| `Session` | `InputClient` composed with the server's slots, the network and restarts |
| `OscXlater` | osc-xlater: negotiation, recording, translation |
| `EasyArgs` | the argument parser, for any list of items |
| `ServerStartup` | `EasyArgs` with the server's options and access lists |
| `MC...` | what TLC needs: symmetry, small inputs |
| `InputServerProofs` | proofs: types, descriptors, devices, authentication |
| `InputServerStepProofs` | proofs: no `recv()` blocks, the action properties; `InputServer` implements `SlotService` |
| `DeviceSetupProofs` | proofs: types, names, allowed and requested events, axes; `DeviceSetup` implements `SlotService` |
| `OscXlaterProofs` | proofs: types, confirmed mappings, requested keys |
| `SequenceLemmas` | induction over numbers and sequences; what `FlattenSeq` yields |
| `InputBufferProofs` | proofs: pointer arithmetic, no byte lost, messages as sent |
| `ServerStartupProofs` | proofs: what the command line and the access lists mean |
| `SessionProofs` | proofs: types, client and server in step, events, QUIT; `Session` implements `SlotService` |

`InputServer`, `DeviceSetup` and `Session` all implement `SlotService`
(`Service == INSTANCE SlotService WITH ...`, checked as the property
`ImplementsService`): the first for the slots it has, the second for the one
slot it looks into, the third with the repository's own client at the other
end.  That is what ties them together.

### InputServer

`pc` is the place in the loop: `top` (the loop's test), `select`, `accept`
(`client_connection`), `slots`, `data` (inside `client_data`), `waiting`, and
`done` or `crashed`.  `u` is the loop's index (from 1, where C counts from 0),
`batch` how many complete messages the slot's buffer still holds.  `fd`,
`ev_fd`, `status` and `waiting` are the fields of those names; `named` says
which slots have a `meta.name`.  `open`, `backlog`, `pending`, `hup` and
`devices` are the kernel's.  `authed` and `sent` are history.

Decisions a reader should know:

* The content of a message is chosen when it is decoded, so every sequence of
  messages, well-formed or not, is covered; how many `recv()` finds is too
  (`RecvData(s, n)`).
* `Connect` and `PeerSend` happen only at `select`, where the server next
  looks; what comes after `select()` has returned cannot be told from what
  comes before the next one.  `Interrupt` may also fall between the loop's
  test and `select()`.  `PeerClose` happens between any two steps, since
  `send()` can notice it.
* `send()` may fail only towards a peer that has gone (`SendFails`), and then
  need not.  Replies have one or two bytes and do not block in the model.
* `FD_ISSET(-1, ...)`, evaluated for free slots and entries, is undefined.
  The model lets it be true or false: `VisitFreeSlot`.
* A password is a sequence of characters, and a PASSWORD's length byte counts
  what it holds, a final NUL included, as the clients send it.  `Accepted` is
  `strncmp()` with that length: the message agrees with the password as far as
  it goes, or up to a NUL both have.  So an empty PASSWORD and every beginning
  of the password are accepted (see section 3).
* `stuck` are connections whose unconsumed input starts with a byte that is no
  message type: `client_data` leaves it in the buffer for good, so such a
  connection ends when its buffer is full or its peer hangs up.
* `Crash` is `create_device()` copying from a name that was never sent.
  `ProcessEnds` is the kernel's clean-up after it and after `Exit`.
* A failing call inside `create_device()` is one alternative of
  `HandleSetupEnd`; a failing `UI_DEV_DESTROY` is `destroyed = FALSE`.

### InputBuffer

A buffer is the array (`data`), `scan_offset` (`off`) and `bytes_available`
(`avail`), with the array never cleared except where the code does.  `at` and
`scanning` say where the connection is; connections use the entry and the slot
one after another, so what one leaves the next one meets.  The client waits
for the answer to its HELLO, as `init_connect()` does.  Message sizes are
scaled down: `INPUT_BUFFER_SIZE` is 5 and so is the longest message, which
keeps the boundary of the real sizes (the longest message must just fit).
The handlers' return values are taken from the bytes (`Used`), the length byte
being read whether it has arrived or not, as the handlers do.

`Trouble` names the two things the network or a client may do under which the
code goes wrong: "split" (a `recv()` ends behind the type byte of a PASSWORD
or DEVICE) and "abandon" (a client hangs up in the middle of its HELLO).
`Framing.cfg` excludes both and shows that everything else is right;
`SplitHeader.cfg` and `StaleEntry.cfg` allow one each and show what happens.
What follows the first handler run on an incomplete message is not modelled:
`bytes_available` is negative by then.

### DeviceSetup

`meta` is the struct; `ev_fd` is the device as the kernel would have it (name,
event type bits, codes, axes) or `NULL`.  `requested` is history.
The ways a connection ends are separate actions because they free different
things: `HangUp`, `Quit`, `ProtocolError`, `EventsLost`, `HelloLost` and
`VisitFreeSlot`.  `enable_events()`'s loop is `TypeBits`: a type's bit is set
where the type differs from the last one set.  An axis gets into the device
without a REQUEST_EVENT, and past the lists, when an ABSINFO describes it:
`handle_absinfo()` asks no list and `UI_ABS_SETUP` sets the axis's code
(`AxesSetUp`), though not the bit of its type.  The password phase is left out;
it touches nothing here.

### InputClient and Session

`pc[c]` is the place in client `c`'s program, from `start` over the messages of
the handshake and the answers it waits for to `stream`/`read`, `reopen`,
`leave` and `exited`.  A connection is two sequences, `up` and `down`; an
upward element is a message, a downward one a unit that arrives whole (a type
byte, and for a SUCCESS in full its slot byte).  `buf` is what `recv_message()`
has of an answer, and `Complete` its test, with the sizes of
`get_size_from_command()`.  `gone` are connections that no longer deliver,
`broken` sockets that have reported an error, `left` and `reads` are history.
Refused passwords, EPIPE followed by a handshake on the same socket, a device
that is lost and reopened (or grabbed by somebody else), SIGINT before and in a
blocking call, and kill are in it.  `Requests` leaves out what the client never
asks for (`Skipped`: EV_REP and EV_LED).

`Session` adds what the server does with one message at a time.  It leaves out
waiting entries, rounds and buffers, which are `InputServer`'s and
`InputBuffer`'s: a connection is obeyed from `queue`, or turned away.  The
server may end and start again, and the network may fail, at any time
(`ServerEnds`, `ServerStarts`, `NetworkFails`).  What a failing connection had
under way is lost from some point on; a socket closed over unread bytes resets
the connection and may cost the peer what it had not read (`Survivors`).
`SUCCESS` is announced by its type byte alone, except after a setup: that is
what the code does (`StatusBytes`), and `ShortSuccess` names the wait it causes.
A REQUEST_EVENT out of range (`InRange`) ends the connection, one the lists
forbid (`Whitelist`) is used up for nothing, and a type without an ioctl
(`Known`) gets no code.  Codes that only an ABSINFO brings are `DeviceSetup`'s
matter.  `UI_DEV_DESTROY` may fail on QUIT; `undestroyed` remembers for whom.

### OscXlater

`pc` follows `input_negotiate()`, the two loops of `configure_mappings()` and
`main()`'s loop.  `buffer` is the first byte of the buffer that packets and key
strokes share and that decides, uninitialised at first; `stdin` is the line
waiting to be read, with "eof" never used up.  An OSC packet is its path and
its number of arguments; it begins with its path, whose first byte may be
anything (`FirstByte`), a newline too, since `osc_parse()` asks for no slash.  `select()` looks at the keyboard before the network.
`send()` is not checked by the code, so after the server has gone a send does
nothing or ends the program by SIGPIPE.  `choice` and `out` are history.

### EasyArgs and ServerStartup

`EasyArgs` chooses the words (`argv`) at the start and then follows
`eargs_parse()` word by word: no item (the word is kept as `output`), an item
without enough words behind it, a stored value, or a call of the item's
function.  `ServerStartup` gives the functions of `-h`, `-W` and `-B` their
actions: `usage()`, and `setCodeList()` line by line.  A line is a comment, an
event, a `type.*`, incomplete or wrong; the tables of names are left out.  The
properties compare the outcome with a reading of the command line and of the
lists of their own (`Values`, `Options`, `Marks`), made without a state; a line
`type.*` mentions every event of its type there, as `src/README.md:69` says,
while `SetType` is what the code does.  Lines are taken as `setCodeList()` makes
them out, after it has cut off their last character (`input-server.c:221`): a
last line without a newline counts as what is left of it.

## 3. What is checked

| run | instance | states | shows |
|---|---|---|---|
| `server_slots` | 2 slots, 1 entry, 2 connections, 2 devices, a password of 2 characters, batches of 2 | 1.15 M | `TypeOK`, `OneOwner`, `SlotDevices`, `Authenticated`, `RecvNeverBlocks`, `DeviceKept`, `StatusAnnounced` |
| `server_live` | 1 slot, 2 entries, 2 connections, fairness | 36 k | `ImplementsService`, `HangupReleases`, `ShutdownObserved` |
| `device_setup` | 2 keys and 2 axes, one of each forbidden, and an LED without an ioctl; lists of 3 | 53 k | `TypeOK`, `EnabledAllowed`, `RequestedEnabled`, `NamedDevice`, `ImplementsService` |
| `framing` | buffer of 5, messages of 1, 3 and 5 bytes and an unknown type, 4 of them per connection | 39 k | `TypeOK`, `NothingLost`, `HandledAsSent`, `RoomForTheRest`, `HelloJudged`, `Delivered` |
| `session` | 2 clients, 1 slot, versions 4 and 5, `--continue` 0 or 1, 5 codes that meet every filter, 2 events, 1 try | 426 k | `TypeOK`, `SlotAgreed`, `DeviceComplete`, `EventsDelivered`, `QuitHonoured`, `ImplementsService` |
| `session_live` | 2 clients, 1 slot, a right and a wrong password, a code out of range, tries without end, no events | 42 k | `HandshakeEnds`, `InterruptEnds`, `Released` |
| `osc` | two buttons and a stick, 2 paths, one of them beginning with a newline, 5 answers | 66 k | `TypeOK`, `MappedIfConfirmed`, `KeysRequested`, `ShutdownEnds`, `KeyRead` |
| `startup` | up to 5 words over 4 options and 3 files, 2 types with 2 codes each | 82 k | `TypeOK`, `AllUnderstood`, `LastValueCounts`, `ListsMean`, `NoHalfList` |

Every property is stated, with the code behaviour it is about, where it is
defined.  Deadlock is checked in `server_slots`, `server_live`,
`device_setup`, `framing` and `startup`, where an end is an action of its
own (`Terminated`, `Decided`).  `Session` and `OscXlater` may stop for good:
all clients have exited, or a program waits for what never comes.

### Why the bounds are enough

Two slots and two connections let a connection find its slot in use, the other
idle, with or without a device, and let both slots compete for one client; the
live instance has two entries, so that the queue has a choice.  Two devices are
as many as two slots can own, so `create_device()` can also find none; a batch
of two is the shortest in which a message follows another in the same `recv()`,
in particular one behind a message that closes the connection.
`MaxChunks = 1` lets a connection have something to read or not, which is all
`select()` and `recv()` tell apart.  In `InputBuffer`, four messages of up to
five bytes wrap the buffer several times and put every message boundary at
every offset.  In `DeviceSetup`, three events allow a type to return after
another one, with an unknown one in between, and an axis of each kind, forbidden
or not, may be requested, described, both or neither.

In `Session`, two clients compete for the only slot, inherit its device,
evict it, or are refused; a client runs once, so every reconnection of a
program is either its own retry or the other client's `--continue`.  Two events
are the least that can be lost, doubled or reordered; one try tells a reopened
device from one given up, and tries without end are the setting under which
`device_reopen()` could loop for ever.  Of the five codes of an input device
the client skips one, the lists forbid one, one has no ioctl, and a key and an
axis pass.  In `OscXlater`, two paths can be equal or not, and one can confirm a
mapping like the enter key; three controls let a mapping be recorded, left out and asked for
again, with an axis of two codes among keys of one.  In `ServerStartup`, five
words are two lists and one more option, or an option whose value looks like an
option.  The bounds themselves are the constants `MaxBatch`, `MaxChunks`,
`MaxMessages`, `MaxEvents` and `MaxWords`; the proofs hold for every value of
theirs.

### Fairness

`InputServer!FairSpec` adds weak fairness of the server's steps as a whole:
the process is scheduled.  Nothing is asked of peers or operator, and nothing
of the order of the server's steps, which its own loop fixes.
`InputBuffer!Spec` has the same for its server.  Weak fairness is enough since
nobody but the server itself can take its next step away from it.
`ShutdownObserved` accounts for what the code does not guarantee: a SIGINT
between the loop's test and `select()` is noticed with the next event only.

`Session!Spec` has weak fairness for each client's program (`ClientStep`) and
for the server's service of each connection (`ServerStep`): both processes are
scheduled, and `main()` visits every connection in each round, so none is
passed over for ever; `HangupReleases` is the corresponding fact of the real
loop.  The input device, users, failures, restarts and even the connection
being established (`Surrounds`) owe nothing.  `OscXlater!Spec` has weak
fairness for the steps that wait for nobody (`Program`); a packet, an answer
and a key stroke need never come.  `ServerStartup` claims no liveness; that
every command line is decided is the absence of deadlock in a model whose
steps all advance.

### Where code and documentation disagree

Four runs check one statement each that a document or a comment makes and the
code does not keep; TLC's shortest counterexample shows how.

| run | statement | what happens |
|---|---|---|
| `orphan_device` | `NoOrphanDevice`: `protocol.md:399`, a client's SETUP_REQUIRED destroys the old device | a second setup overwrites `ev_fd`; the first device stays in the kernel until the process ends |
| `split_header` | `HandledAsSent`: comment at `input-server.c:490`, a short message waits for the rest | with only the type byte of a PASSWORD or DEVICE there its size counts as 0 and the handler runs |
| `stale_entry` | `HelloJudged`: `protocol.md:77-78`, VERSION_MISMATCH means the client's version is not supported | bytes of a connection that ended in its HELLO stay in the waiting entry; the next connection's HELLO is read behind them, and its type byte is taken for its version |
| `session_hang` | `HandshakeEndsAlways`: `protocol.md:308-311` and `:321-324`, SUCCESS has a slot byte, and a client may reconnect to its device | `input-server.c:168` sends the type byte alone; the reconnecting client waits for a second one that never comes |

Met while modelling, and kept as the code has them without a run of their own:

* The password is compared up to the length the client gives
  (`input-server.c:299`): an empty PASSWORD and every beginning of the password
  are accepted, where `src/README.md:64` and `protocol.md:118` and `:125` ask
  for the password.  `Authenticated` therefore speaks of a PASSWORD that was
  accepted, no more.  The clients also count the final NUL in that length,
  which `protocol.md:118` excludes.
* INVALID_PASSWORD (`input-server.c:301`) leaves the client its slot, where
  `protocol.md:125` ends the connection.
* After a protocol error (`input-server.c:530`) the requested events stay in
  `meta` for the next client, where the comments at `:45` and `:47` want a
  clean slate.
* No list is asked about an axis that an ABSINFO describes
  (`input-server.c:319-334`, `uinput.c:109`): the device gets it although it is
  forbidden, where `src/README.md:67` has the lists limit keys and axes.
  `EnabledAllowed` names this exception.
* A `type.*` line (`input-server.c:238`) sets one code of the type, and allows
  it even in a blacklist, where `src/README.md:69` and the lists in `src/acls`
  mean all events of the type.  `ListsMean` claims nothing of an event whose
  last line is such a one.
* The last character of a list's last line is cut off even if it is no newline
  (`input-server.c:221`).
* `UI_DEV_DESTROY` may fail (`uinput.c:154`); the connection is closed on QUIT
  all the same, and the device stays with the slot.  `QuitHonoured` names this
  exception.
* VERSION_MISMATCH is sent without its version byte.
* osc-xlater describes its axes and requests neither them nor SYN_REPORT
  (`osc-xlater.c:86`), where `protocol.md:215` wants a REQUEST_EVENT for each
  type and code; `KeysRequested` is about its keys only.  A packet that begins
  with a newline lands in the buffer that decides (`osc-xlater.c:287`, `:325`)
  and confirms a mapping as if enter had been typed, once the input has ended or
  SIGINT has cut the wait short; `MappedIfConfirmed` says so.  It sends a DATA
  header followed by a `struct input_event`; `osc_msg_xlate()` does not look at
  a packet's number of arguments (`osc-xlater.c:391`); and when SIGINT finds a
  newline from before in the buffer, the current control is asked for again
  without end (`Spinning`).
* input-client goes on to the choice of a device after `--help`
  (`input-client.c:456`), the parser's result being -2 there.

### Variants beside the definitions

Some definitions have an unused variant in front of them: the same operator
with a slip one could have made there.  Putting the variant in its place breaks
the property named; that is how we know the property depends on the code.

| property (run) | variant, in place of |
|---|---|
| `TypeOK` (server_slots) | `NextSlotPastTheEnd`, `NextSlot` |
| `OneOwner` (server_slots), `ImplementsService` (server_live) | `InUseOnceSetUp`, `InUse` |
| `SlotDevices` | `CleanupDeviceKeepingEvFd`, `CleanupDevice` |
| `Authenticated` | `FirstStatusDeviceFirst`, `FirstStatus` |
| `RecvNeverBlocks` | `SelectResultUnused`, `Select` |
| `DeviceKept` | `EvictsAlways`, `Evicts` |
| `StatusAnnounced` | `AnnounceNothing`, `Announce` |
| `HangupReleases`, `ShutdownObserved` | `InterestInSlotsOnly`, `Interest`; `LoopTopIgnoringFlag`, `LoopTop` |
| `TypeOK`, `ImplementsService` (device_setup) | `HandleSetupEndNameless`, `HandleSetupEnd`; `ReadyByName`, `Ready` |
| `EnabledAllowed`, `RequestedEnabled`, `NamedDevice` | `LastTypeFromKey`, `LastType`; `AppendOverLast`, `AppendEvent`; `FreeEventsAndMeta`, `FreeEvents` |
| `TypeOK` (framing), `NothingLost`, `HandledAsSent` | `AdvanceOffset`, `Advance`; `ReceivedInPlace`, `Received`; `MovedKeepingSlot`, `Moved` |
| `RoomForTheRest`, `HelloJudged`, `Delivered` | `RoomButOne`, `Room`; `AnsweredKeepingBytes`, `Answered`; `ScansOnce`, `ScansOn` |
| `TypeOK` (session), `SlotAgreed` | `SendSetupPastTheEnd`, `SendSetup`; `AnswerSizeOne`, `AnswerSize` |
| `DeviceComplete`, `EventsDelivered` | `RequestsDescribed`, `Requests`; `HandleDataAgain`, `HandleData` |
| `QuitHonoured`, `ImplementsService` (session) | `LeaveWithoutQuit`, `Leave`; `NextStatusSuccess`, `NextStatus` |
| `HandshakeEnds`, `InterruptEnds`, `Released` | `HandleSetupEndSilently`, `HandleSetupEnd`; `GivesUpOutOfTries`, `GivesUp`; `ServesSlotsOnly`, `Serves` |
| `TypeOK` (osc), `MappedIfConfirmed`, `KeysRequested` | `ReadKeyStoringEof`, `ReadKey`; `HearsApart`, `Hears`; `EnableCodesOfFirstKey`, `EnableCodes` |
| `ShutdownEnds`, `KeyRead` | `DecideAgain`, `Decide`; `ReadPacketFirst`, `ReadPacket` |
| `TypeOK` (startup), `AllUnderstood`, `LastValueCounts` | `StoreUnchecked`, `Store`; `StartAnyway`, `Start`; `StoreAndReread`, `Store` |
| `ListsMean`, `NoHalfList` | `ClearedNever`, `Cleared`; `InvalidLineIgnored`, `InvalidLine` |

## 4. What is proved

### The server's core

For every number of slots, entries, connections, devices, passwords and every
value of the bounds, of `InputServer`'s `Spec`:

| theorem | statement |
|---|---|
| `TypeCorrect` | `[]TypeOK` |
| `DescriptorsOwned` | `[]OneOwner` |
| `Inductive` | `[]IInv` |
| `DevicesSafe` | `[]SlotDevices` |
| `AuthenticationSafe` | `[]Authenticated` |
| `NeverBlocked` | `[]RecvNeverBlocks` |
| `StatusesAnnounced` | `StatusAnnounced` |
| `DevicesKept` | `DeviceKept` |
| `ServiceImplemented` | `ImplementsService`, that is `Service!Spec` |

Assumptions are the named ones of `InputServer`: there is a slot and an entry,
-1 is no descriptor or device and the listening socket no connection, the
password is a sequence of characters none of which is NUL, bounds are naturals,
and "no message" is no message.  What `Authenticated` promises is bounded by what
`Accepted` accepts, which the assumptions do not narrow.

The argument.  `TypeOK` is inductive by itself.  `OneOwner` is inductive given
types: every step is a *table step* (`TableStep`), which leaves descriptors
alone, closes one, fills an entry with one just accepted, moves one from an
entry to a slot that has none, or ends the process, and each kind keeps one
owner per descriptor.  The same pattern, first saying what kinds of step there
are and then that each kind preserves the invariant, serves devices
(`DeviceStep`: destroy the slot's own, or create one that did not exist) and
rights (`Standing`: a step spares a slot or leaves it with a client that is
entitled to its status).  `Authenticated` alone is not inductive: closing a
connection takes it out of `authed`, and only `OneOwner` says that no other
slot holds the connection that is closed.  Nor is `DevicesOwned`'s first half
(a slot's device exists) without its second: destroying one slot's device
leaves another's alone only because no two slots share one.  Hence
`IInv == TypeOK /\ OneOwner /\ DevicesOwned /\ LiveHasDevice /\ Authenticated`.

`RecvNeverBlocks` speaks of the slot or entry whose turn it is; its invariant
speaks of all whose turn is still to come in this round (`Unread`), plus what
`readfds` can contain before the round (`Reported`).  A step serves one
descriptor, takes its turn away and, by `OneOwner`, reads from or closes
nobody else's; the entry that `Accept` fills is not in `readfds`, because a
connection in the backlog is not.

`StatusAnnounced`, `DeviceKept` and the refinement are proved step by step
from `TypeOK` (the refinement also from `OneOwner`, for "granted to one slot
only").

### Device setup

For every set of events, types, ioctls, names and axes, every whitelist and
every number of requests, of `DeviceSetup`'s `Spec`:

| theorem | statement |
|---|---|
| `SetupTypeCorrect` | `[]TypeOK` |
| `DevicesNamed` | `[]NamedDevice` |
| `DevicesAllowed` | `[]EnabledAllowed` |
| `RequestsEnabled` | `[]RequestedEnabled` |
| `ServiceOfSlot` | `ImplementsService`, that is `Service!Spec` |

The first four come from one invariant (`SetupInductive`).  `EnabledAllowed` says nothing
of a list that is not a device yet, and `RequestedEnabled` nothing of a client
in its setup; the invariant adds both: what a slot remembers is allowed
(`MetaAllowed`), and all a client asked for is remembered (`Remembered`).  Axes
are the exception of `EnabledAllowed`: those an ABSINFO has described.  That a
code comes with the bit of its type (`BitsOfKnown`) is the argument about
`enable_events()`: where a type comes first in the list, the type set last is
another one, or EV_MAX, which is no event's; this is the assumption
`EnableMapAssumption`.  Nearly every step leaves the device alone and the list
as it is or forgotten, and one lemma (`KeepingDevicePreserves`) serves those.

`ServiceOfSlot` goes step by step from the same invariant: a HELLO is a grant,
with or without an eviction; a SETUP_END is a slot gone live, or one gone live
and released at once when the reply is lost; the ways a connection ends are
`Release`, `Quit` and `Shutdown`.  What had to be made explicit for it is that
`NULL` is neither a connection nor a device (`NullAssumption`).

### The input buffers

For every size of the buffer, every table of message lengths, every set of
messages whose length byte is right and every number of them, of
`InputBuffer`'s `Spec`, if `Trouble = {}`:

| theorem | statement |
|---|---|
| `Invariant` | `[]IInv` |
| `TypesHold` | `[]TypeOK` |
| `NoByteLost` | `[]NothingLost` |
| `MessagesAsSent` | `[]HandledAsSent` |
| `RestFits` | `[]RoomForTheRest` |
| `JudgedAsSent` | `[]HelloJudged` |

`Trouble = {}` (`NoTrouble`) is a hypothesis because the code needs it: with
"split" or "abandon" it breaks these properties, as the runs `split_header` and
`stale_entry` show.  Everything else the network does with the stream is
covered, a cut inside any message included.

`NothingLost` says that what is handled, what is buffered and what is under way
are together what was sent, and it is the heart of the invariant; the lemmas
about `Received`, `Advance` and `Moved` say what each does to the bytes a
buffer stands for, whatever its offset and whatever old bytes surround them.
By itself it does not exclude that the first buffered bytes are read as another
message than the one that was sent.  For that the invariant has three more
parts.  `HandledFirst`: what is handled is a beginning of the messages sent, so
what is buffered starts at a boundary between messages.  `HeadersWhole`: the
stream never ends behind the type byte of a message of variable length, so the
length byte that is looked at belongs to the message; this is where `NoTrouble`
is needed.  `AtRest`: a slot at rest with bytes in it holds an unknown type or
less than a message.  The entry has a part of its own: it is empty unless its
connection waits (`EntryClean`), and then holds a beginning of that
connection's HELLO (`EntryHolds`).

### input-client and the server

For any number of clients, slots, events and tries, every list of codes, every
set of versions, slots asked for and passwords, of `Session`'s `Spec`:

| theorem | statement |
|---|---|
| `Invariant` | `[]IInv` |
| `TypesHold` | `[]TypeOK` |
| `SlotsAgreed` | `[]SlotAgreed` |
| `DevicesComplete` | `[]DeviceComplete` |
| `EventsArrive` | `[]EventsDelivered` |
| `QuitsHonoured` | `QuitHonoured` |
| `ServiceKept` | `ImplementsService`, that is `Service!Spec` |

No hypothesis beyond the named assumptions of `InputClient` and `Session`: the
codes are a sequence without repetition and none of EV_ABS is skipped, there is
a slot, `NULL` is no client and no set of events.  What the filters leave of a
client's codes is any set.  `IInv` leaves `undestroyed` out; that those clients'
connections are gone is an invariant of its own (`Lost`).

The properties speak of a client that streams; the invariant has to say of every
moment before that what the two programs and the wire between them may look
like together.  `Agrees(s, c)` is that list, for a slot and its client whose
connection works, in the order of the handshake: the answer is under way and is
the slot's status (`AwaitsAnswer`), a password is owed (`OwesPassword`) or sent
(`AwaitsVerdict`), the setup is being sent (`SetsUp`) or sent in full
(`AwaitsResult`), SUCCESS is under way (`HasResult`), events are (`Streams`).
What makes it go through:

* The server speaks only when spoken to: there is nothing under way to a client
  that has something under way itself (`AnswerInv`), so at most one answer
  exists, and `Complete` cannot mistake a piece of one for another.
* During the setup, the messages heard and those under way are together a
  beginning of `SetupMessages` (`SetupPart`), and every request among the ones
  heard that the lists allow is in `requested` (`Heard`); when SETUP_END is
  reached they are all.
* A client whose connection has failed leaves behind what it had sent, in a slot
  that goes on serving it.  `Fits` says that what is left still suits the slot's
  status, whatever the failure has cut off; `QuitUnderWay`, that a QUIT is the
  last of it unless the failure has taken it.
* A connection that waits for its turn has sent a HELLO at most (`QueueInv`).

Each of the client's and the server's steps touches one client (`Apart`), so a
step is shown to keep that client's part, and the others' follow by one lemma
(`ApartInv`).  `EventsDelivered` then needs nothing more than `Streams` and the
history (`EventInv`), which survives a client's connection.  For the refinement
the slots' statuses are mapped by `StageOf`.

### osc-xlater

For every table of controls, every set of paths and answers, of `OscXlater`'s
`Spec`:

| theorem | statement |
|---|---|
| `XlaterTypeCorrect` | `[]TypeOK` |
| `MappingsConfirmed` | `[]MappedIfConfirmed` |
| `TranslatedKeysRequested` | `[]KeysRequested` |

`MappedIfConfirmed` is about a buffer nobody clears.  Its invariant follows the
byte that decides: a path is held only once a packet was heard for this control,
and from then on the buffer's byte is the one read last for it, by a packet or
from the keyboard (`PathHeard`); so a newline that decides with a path held was
read for this control, and all that is recorded is behind the current control
(`RecordedBefore`), whose choice is the only one that changes.  It does not say
that somebody typed the newline, which the code does not ensure.
`KeysRequested` needs that a setup requests all keys or nothing (`Announced`).
The assumptions are on the table, where keys have one code and axes at least
one, and that every path has a first byte.

### The command line and the access lists

For every table of arguments, every command line and all lists of any length, of
`ServerStartup`'s `Spec`:

| theorem | statement |
|---|---|
| `Invariant` | `[]IInv` |
| `TypesHold` | `[]TypeOK` |
| `LineUnderstood` | `[]AllUnderstood` |
| `LastValuesCount` | `[]LastValueCounts` |
| `ListsRead` | `[]ListsMean` |
| `NoneHalf` | `[]NoHalfList` |

The assumptions are on the tables: an item that stores takes one argument, `-h`
none, `-W` and `-B` one each, and the names of events in a list are names of
events.

The properties speak of a server that listens and read its command line as a
whole; the parser sees one word at a time.  The invariant states each of them
for what is behind the parser: what has been understood (`UnderstoodUp`), stored
(`StoredUp`), read without an invalid line (`NamesExist`).  That they meet rests on
`InPlace`: the parser is never at a value, so its idea of what is an option is
that of `Values`, which is defined recursively over the whole line
(`ValuesFacts`); `MovesOn` is the step that keeps it so.  For the lists it says
of every event that the last line that touched it so far decides, or that none
has and the whitelist's clearing does (`Judged`); a line either touches an event
and becomes its last mark (`NewMark`), or adds no mark (`SameMarks`).  What a
line touches is what the code does (`Touches`: a `type.*` one code), what it
mentions what the documents say (`Mentions`); `MarksAre` joins the two for lines
that name their event, and `ListsMean` claims no more.  Here the
argument about an incomplete line is made: the marks behind it do not count, so
a list of which it is the end has been read in full.

### Induction

The messages of `setup_device()` and the stream of a connection are
concatenations (`FlattenSeq`) of any number of sequences, and the values on a
command line are a function of the words before.  The provers cannot instantiate
the library's induction theorems, which take a predicate; a *set* of numbers
they can be given, so induction is done through the least number that is not in
it (`AllNaturals`, from `WFMin`), and through that over sequences by their length
(`AllSequences`).  `FlattensExists` and `MarkingExists` are the existence of the
functions that `FlattenSeq` and `Values` define recursively.

### What stays with TLC

Liveness is out of the prover's reach: `HangupReleases`, `ShutdownObserved`,
`Delivered`, `HandshakeEnds`, `InterruptEnds`, `Released`, `ShutdownEnds`,
`KeyRead`.  Every other property that a passing run checks is the statement of
a theorem; `InputBuffer`'s under `NoTrouble`, as in its run.  The counterexamples
of the four other runs are TLC's.

## 5. What is not modelled

* Socket buffers that fill: `send()` blocking on a peer that does not read, and
  `send_message()`'s loop after a partial send.
* Opening listeners and looking up addresses; `scan_devices()`, the prompts and
  the functions of the client's and osc-xlater's own options: terminal and file
  I/O before there is a connection.  The environment's defaults.
* Flags in the argument parser, which no program uses.
* Values: ABS extents beyond zero and not zero, OSC ranges and arguments, an
  event's value.
* In `Session`, waiting entries, rounds and cut messages: `InputServer` and
  `InputBuffer` have them.
* Reading past the end of a buffer after `split_header`'s step; the id fields
  of a DEVICE message, which the code never stores.
* The logger, `strdup.h`, the Wireshark dissector, manuals and makefiles: no
  state the rest depends on.

## 6. Plan

Done: the modules of section 2 and the theorems of section 4.

1. The client's options over `EasyArgs`, as `ServerStartup` has the server's.
2. `send_message()` over partial sends, against what its callers rely on.
3. What `SlotService` itself promises, as theorems that its three
   implementations inherit.
