# Verification of hc

`hc` is a freestanding C library with tools and example programs (`src/hc`) and an
operating system image for a home router built on it (`src/router`). This project
models both in TLA+, checks the models with TLC on small instances and proves the most
important invariants with TLAPS for every value of the constants.

## Inventory

| Component | State | Operations | What makes it correct |
|---|---|---|---|
| Event loop (`router.c`) | descriptors in the components' fields, the kernel's table, epoll | wait for one event, dispatch by comparing numbers, end | an event reaches the component whose descriptor it was for; nothing is closed twice or lost |
| Packet dumper (`packetDumper.c`) | client and packet descriptor | accept, dump, stop | both descriptors live and die together |
| DHCP server (`dhcpServer.c`) | a table of MAC addresses and times | answer a discover or a request | a client keeps its address, no address is used twice |
| DHCP client (`dhcpClient.c`) | lease, timer; the kernel's addresses and route | timer, OFFER, ACK, NAK | fields and kernel agree; a lease is given up before it ends |
| Modem client (`modemClient.c`) | command queue, receive buffer, timer, serial line | timer, read and parse, disconnect | one command at a time, none forgotten; it recovers |
| Telnet server (`telnetServer.c`) | client, incomplete command | accept, receive and decode, kick | decoding does not depend on how TCP cuts the stream; no overrun |
| SMB control (`ksmb.c`) over netlink | the socket's queue | receive a request, answer it, receive the acknowledgement | every request is answered |
| Start up and shutdown (`init.c`, `disk.c`, `hostapd.c`, `acpi.c`, `config.c`, `iptables.c`) | processes, mount, the kernel's network | boot step by step, take down, power off | each step finds what it needs; nothing unmasqueraded is forwarded; orderly end |
| SSH client (`examples/ssh`) | circular buffer, exchange hash, ciphers | connect, receive, send | one stream, authentic messages in order |
| Window (`examples/openGl/ix`, `x11Client.c`, `xauth.c`, `drm.c`, `egl.c`, `gbm.c`) | connection, buffers, resources | acquire, run, undo | replies whole and in order; the screen's buffer locked; nothing left behind |
| Android glue (`nativeGlue.c`, `libopenGl.so.c`) | a word, a pipe, window and queue | callbacks, commands, drawing | a callback is synchronous; nothing freed is used |
| Threading example (`examples/threading`) | lock word, counter | take, release, join | exclusion, no lost wake up |
| Cryptography (`core/hc/crypto`) | partial block, limbs | hash, authenticate, encrypt, multiply, sign, verify | results agree with their definitions |
| Core utilities, allocator (`core/hc`) | reserved region | parse, print, move, encode, resize | results agree with their definitions |
| Archive tools (`tools`: tar, untar, webPacker) | position in a tree, an archive, a page | write, read, replace | untar undoes tar; every include is replaced |

In the router, the event loop calls one handler at a time, to completion: there are no
threads, so a handler is atomic to the other handlers, but not to the kernel, the
network or a USB device. Several components share the kernel's descriptor table and
epoll, and some read another's fields (the DHCP server sends the client's `dnsIp`, the
modem client texts its `leasedIp`). `init` starts the router, and what the router does
at its end decides whether the machine powers off. In `hc` the tools and examples call
the library; the SSH client uses its ciphers, the tools its allocator and base64.

The hard behaviours are what the outside does between and during handlers: packets
lost, late or repeated (DHCP), streams that are cut anywhere (telnet, SSH, X11), a modem
that answers late or is unplugged in the middle of a line, kernel threads that use the
netlink socket at the same time (SMB), descriptor numbers used again (event loop); two
threads that meet in one word (Android, threading); any one of a long chain of calls
failing (boot, window, tar); and the limits of tables, queues, buffers and integers.
`PROJECT.json` lists these hazards with their lines and the properties that cover them.

## Modules

A build without `hc_DEBUG` is modelled: `debug_ASSERT` does nothing, `debug_CHECK` ignores
what its call returns, `CHECK` ends the router. Operators whose comment begins with "Mutated form of" are not part of a
specification; each is a plausible mistake that a property has to notice.

### Router

**DhcpServer** - `entries` is the table, with the uninitialised MAC addresses of
`dhcpServer_init` as a free choice in `Init`. `OnFd` is `dhcpServer_onFd`: `GetEntry`
is the lookup and the replacement of the oldest entry, `Reply` what is sent. `given`,
`lastSeen` and `held` record what clients were told. `Tick` is the clock in seconds.

**DhcpClient** - the fields of `struct dhcpClient`, the timer as seconds left, and the
kernel's addresses and gateway, which the netlink calls change. `OnTimerFd` is either
`Renew` (once) or `Discover` (which first removes the address); `OnOffer`, `OnNak`,
`OnAck` and `OnIgnored` are the branches of `dhcpClient_onFd`. `Configure` are the two
requests an ACK sends to the kernel, which may refuse either of them (a gateway that no
network of the interface reaches, for one): that fails the CHECK of `netlink_receive` and
`aborted` says which request ended the router. Packets are records of the fields the client
reads; `last` remembers what the last step was, for the property about silence. `HalfLease` keeps the width of the lease time.

**ModemClient** - the command queue, the receive buffer and the timer of
`struct modemClient`, and an AT modem with a serial line in both directions. The
loop of `modemClient_onFd` has gotos; `pc` holds its labels, and every kind of line
is an action. Bytes are abstracted to the units the parser tells apart; a text
message is two units, so a read can end inside it. A prompt counts as one when nothing
follows it or an empty line does; other lines behind it are merged with it. The modem answers what it
takes, notifies, may deliver an answer a connection too late, and can be unplugged and
plugged in again at any time, also while lines are being parsed.

**TelnetServer** - byte exact in the control characters: `CommandEnd` decides for a
sequence of bytes whether it starts with a whole command, an incomplete one or
garbage, as the nested switches do; `saved` is the array with its alignment to the
right and its zero bytes. A client sends inputs whose meaning is known (`Inputs`): text,
commands as the RFCs define them (`Commands`, with window sizes spelled by `Naws`), and
garbage, which is defined without the parser as what starts like a command but agrees
with no command, complete or cut. `Recv` delivers any non-empty part of what is on the
wire.

**Ksmb** - one queue of datagrams, in which requests of kernel threads and
acknowledgements of the router's own answers meet. The steps of `netlink_talk` are
separate actions because kernel threads act between them: `SendResponse` wakes the
client, `Acknowledge` queues the acknowledgement, `TalkReceive` takes the first
datagram. The kernel (ksmbd and netlink) is modelled from how the code uses it.

**Router** and **System** - Router is the event loop: descriptors as numbers, the
lowest free one first; handlers are reduced to what they do to descriptors. epoll
remembers for which component a descriptor was added; the loop does not know that and
compares numbers (`Dispatch`). System extends it to the whole machine: `init` mounts
and starts the shell and the router, `BootSteps` are the calls of `start()` in their
order, each with the facts it needs from the kernel and the facts it adds or takes
away, then comes the loop, and `ShutdownStep` takes everything down after the power
button. A fault can end the router or init at any step; `Reap` is what init does with a
dead child. Three kinds of programs may open and close files of the disk while the router
stops (`Users`): those of the telnet session, which the hang up of their terminal ends; the
SMB server, which `ksmb_deinit` attempts to stop and goes on if it cannot; and those of the
shell that init starts on the console, or that ignore the hang up, which nothing ends.
`disk_unmount` waits for all of them.

### Library and programs

**SshClient** - `client.c` from `client_init` to the answer to the service request. A
byte is named by the packet it is part of and its place in it, so that what the circular
buffer holds can be compared with what was sent; hashes, keys and MACs are terms. A
server is a script of packets, honest or wrong in one of them; each packet says at which
byte of the stream it begins (`at`), and `End` where it ends. `InitCalls` are the calls of
`client_init` with what each acquires and the label it jumps to; a label is the list of what
is given back from there on, and `Release` gives back one after the other, also for
`client_deinit`. A `client_connect` that fails ends the process (`Exit`).

**Egl**, **X11Window**, **GbmWindow**, **Window** - the window of the OpenGL example.
`held` is what the program has acquired, `Needs` what has to outlive what. X11Window has
the connection, the doubly mapped buffer in units of 16 bytes, the ten replies and the
events with the pointer grabbing they cause; GbmWindow the choice of a mode, buffer
objects, locks and page flips; Window composes them: `window_start` tries X11, then the
bare display, and undoes everything through its labels. What is given back is a list in
the order of the code: `Misplaced` says that one of it is not there any more or still in
use. The scan for a mode, the server's answers and what the server does with the requests
on their way (`After`) are recursive functions. A reply whose length would overflow is
never found whole, and the full buffer then ends the connection. A surface that is destroyed
while it is current, which EGL keeps until `egl_destroyContext` makes nothing current, is
taken to be gone at once.

**ActivityCalls**, **NativeGlue** - ActivityCalls is the abstract specification of the
Android glue: a callback is carried out once, before it returns. NativeGlue is the
detailed one, both threads at the granularity of loads, stores, pipe and futex calls;
`Calls == INSTANCE ActivityCalls WITH ...` is the refinement mapping. The looper is
external: a wait (`Poll`) finds what is ready and `ALooper_pollAll` reports it one call
after the other, so the queue can still be reported after the command that took it away was
handled; `PollInput` then uses NULL, as the code does. A read, a poll or a JNI call that
fails ends the process.

**FutexLock** - the lock of the threading example, Linux and Windows, spinning and
sleeping; the increment is a load and a store. A futex may wake for nothing.

**Curve25519**, **X25519**, **Ed25519**, **CurveCalls** - field and scalar arithmetic
on limbs, the Montgomery ladder, points on the Edwards curve, and the calls `x25519`,
`ed25519_x25519Basepoint`, `ed25519_public`, `ed25519_sign` and `ed25519_verify`, a round of a
loop per step. Number and width of the limbs, the prime, the curve and its order are
constants. **CurveReference** has the textbook group law they are compared with. The
constants and tables are computed for the small curve, as those of the hashes and AES's
table are computed or chosen: what is checked is how they are used, and the numbers in the
source are not. As in the code the bound on S of a signature leaves room for S plus the
order of the group and none for S plus twice the order.

**Sha**, **Poly1305**, **ChaCha20**, **Aes**, **CoreLibrary**, **LibraryCalls** - the
hashes and Poly1305 over messages in pieces, the block functions, and integers as text,
base64 (in place too), memory functions and the allocator over a heap whose commits
may fail, and whose decommits may too, which nothing notices. **LibraryReference** has their definitions after FIPS 180-4, FIPS 197 and
RFC 8439. **Evaluation** holds loops that TLC evaluates once.

**Archive**, **WebPacker** - tar as it walks a tree in the order the kernel lists it,
sorts, writes headers, contents and padding and fails at any call, also when a file
changes meanwhile; untar as it reads what tar left; and webPacker's buffer as includes
are replaced in it, inside the allocator's pages: the buffer gets its new size before the
text behind the include is moved, and a move out of pages that were just given back is a
crash.

`MC*` modules give constants values that a configuration cannot state, and declare
symmetry; DhcpClient and ModemClient need neither.

## Runs

| Run | Instance | Shows |
|---|---|---|
| `dhcp_server` | 4 clients, 2 entries, lease 3, clock to 4 | the table is a least-recently-seen cache from any initial memory; sharing an address needs an overrun |
| `dhcp_client` | 2 addresses, 2 servers, lease times 0, 3, 4, 9 and the largest; the kernel refuses any request | fields and kernel agree under any order of packets unless a refusal ended the router; a lease is given up in time; silence means discovering for ever |
| `modem_client` | 2 messages, 2 notifications, 1 unplugging, 1 late answer, 3 queue places | no forgotten command; half duplex and text only at the prompt until an answer comes late; hangs only when unplugged; reconnects, replies |
| `telnet_server` | 2 inputs in each of 2 sessions, cut anywhere | the stream is decoded as if it were whole; `saved` is large enough |
| `router` | boot to power off, 2 dumpers, modem, telnet, 6 descriptors, 1 failed handshake, 1 fault | dispatch by number is right, descriptors are accounted for, the boot is in order, power off is clean, and comes unless a program that nothing ends keeps a file open |
| `ksmb` | 3 SMB clients, 4 requests | an empty socket is never read; at most every second request is lost, and only when requests overlap |
| `ssh` | a buffer of 5 aligned places, 20 servers, 1 failed call | the buffer is the end of the stream; connecting means agreement; the labels give back exactly what is held; an honest server is connected to |
| `window` | a page of 5 units, keyboard maps that fit it, do not, and are too long for an `int32_t`, 3 inputs, 3 lists of modes | stream, pointer and scan out; only the keyboard map is lost when the start fails |
| `functions` | a curve over 2^20 - 3, words of 8 bits, a modulus of 16 bits, records of 2 units | arithmetic, multiples, signatures, primitives, utilities; archives are restored, pages complete unless an include shrinks |
| `threads` | 2 windows, 2 queues, 2 events, a pipe for 1 command; 3 threads, 2 rounds | the glue implements ActivityCalls, uses nothing freed, NULL only for a late report, and returns; the lock counts and finishes |
| `poly1305` | as `functions` | *violation*: the last reduction never happens |
| `ssh_pieces` | as `ssh`, no failures | *violation*: an identification line in two reads is refused |

Bounds. The DHCP table has two entries and four clients so that entries are taken
over twice; times only matter by comparison with the lease time. The client's lease
times are the boundary values of halving (odd, even, shorter than two retries, 0 and
the largest). The modem run has room for two messages with replies and a queue that
fills. The longest telnet command is among the inputs and every cut of it is tried.
Six descriptors are what telnet, modem and two dumpers need at once: a leaked
descriptor, or a dumper that is replaced, meets the limit. Four SMB requests from three
clients make two losses possible. The SSH buffer holds the largest packet and no more,
so every packet wraps somewhere. The X11 page is smaller than one of the keyboard maps
and wraps in the middle of messages; three inputs grab, ungrab and grab again. Two
windows and two queues let Android destroy one while a command for the other follows; a
pipe for one command is the smallest that the protocol may need. The curve has a cofactor of 8
and a prime subgroup as Curve25519 has, three limbs for scalars and two for the field,
with inputs at the limits of the limbs; hashes are fed lengths around the ends of block
and padding in pieces around them. tar's records hold two units and its buffer three, so
reads, records and files end at different places; names and prefixes at, below and above
their limits are among the trees, and so are a name of two dots or with a slash. A page of
the allocator has eight bytes, so the buffer of webPacker ends on either side of one. The
largest runs have 1.1 million states (`window`), 560 thousand (`modem_client`), 430 thousand
(`threads`) and 370 thousand (`router`).

Deadlock is not checked for the DHCP client, the telnet server, the system, SMB control, SSH
and the functions, where an abort, sessions, power off, the bound on requests, an exit or the
end of a call end behaviours; in the other runs a deadlock would be an error.

Fairness. Weak fairness is assumed of the router's handlers (the loop waits without
timeout and epoll reports a ready descriptor again until it is handled), of the passing
of time (an armed timer expires), of every step of the boot, the shutdown and of init,
of the SSH client's steps and of receiving while bytes are on the way, and of every
thread. There is no strong fairness. The application's event loop takes input until none is
left (`libopenGl.so.c:194`), so that a callback returns rests on input that pauses: the
model's is bounded by `MaxEvents`. The lock needs no more than weak fairness of the threads
because every thread takes it a bounded number of times. Nothing is assumed of servers,
clients, users, the modem or the kernel's threads: they may stop at any moment. Where the
code waits for them the property says so: `PowerButtonPowersOff` is about machines on which
the console's programs let go of the disk in the end, and the SMB server too if it could not
be stopped, because `disk_unmount` tries for ever otherwise; `SilentServerLosesLease` is
about packets that stop coming, because every OFFER or NAK sets the timer again and a stream
of them postpones giving the lease up.

## Proofs

Each `*Proofs` module finds an inductive invariant and derives the properties from it.

* **DhcpServerProofs** - for every table size and set of clients. The invariant ties
  the table to what clients were told: a used entry belongs to the client that was
  last given it and carries the second that client was last seen, no entry before it
  has the same MAC address (unused entries hold arbitrary memory), and a client that
  was not overrun still has its entry. That replacing the oldest entry only hurts a
  client that was overrun needs an injection from entries to the clients heard since,
  hence the cardinality lemmas. From it: `TypeCorrect`, `RecentClientsAreKept`,
  `SharingNeedsOverrun`, and `LeasesAreExclusive`: with no more clients than entries no
  address is leased twice.
* **DhcpClientProofs** - for every set of addresses and lease times. The invariant
  says that an undisturbed lease outlasts the timer and, while the renewal is still to
  come, one retry more (or never ends). Any request to the kernel may be refused; that the
  one to remove an address never finds it missing is `AddressAlwaysConfigured`. From it also
  `LeaseGivenUpInTime`, `RenewsOnce`, `StaleAddressNeedsMove`, `TypeCorrect`.
* **ServicesProofs**, the telnet server - for every input: an incomplete command is at most 12
  bytes long, because `CommandEnd` asks for more only at bounded positions
  (`SavedNeverOverruns`, `TypeCorrect`). And the session is decoded (`DecodedAsSent`):
  `Decoding` says that the bytes not parsed yet - in the buffer or saved, then on the
  wire - are a sequence of inputs whose meanings are what is expected and not done yet,
  up to the first garbage, behind which comes anything. `SessionDecoded` alone is not
  inductive, as it does not say what the next bytes should do. A step parses the first
  of these inputs, which rests on three facts about the parser: what it decides for some bytes
  it decides for every continuation of them (`CommandStays`), it takes exactly the commands
  (`CommandsParsed`, `OnlyCommandsParsed`), and garbage never becomes one
  (`GarbageNeverParsed`); saving and loading give back the bytes (`SavedLoaded`), because
  a command does not start with zero.
* **ServicesProofs**, SMB control - for any number of clients and requests. The invariant says that
  while an answer is unacknowledged a loss is already paid for, that something is
  queued when `netlink_talk` receives, and that without overlap there is one request
  at most, either in the queue or in hand. From it `TalkFindsADatagram`,
  `HalfAreAnswered`, `LossNeedsOverlap`, `LossIsBounded`, `KsmbTypeCorrect`.
* **ThreadsProofs**, the threading example - for every number of iterations, spinning or
  sleeping. The invariant says that the word is `LOCKED` while a thread is inside, that at most one
  is, that what a thread has loaded and not yet stored is the counter, and that the
  counter is the sum of the finished rounds; the parent's count at the end then
  follows from the children's exit (`LockExcludes`, `CounterExact`).
* **ThreadsProofs**, the Android glue - for any windows, queues, events and size of the pipe. The
  invariant relates the UI thread's place to the pipe, the word and the application's
  place: while a command is pending the word is 0 until the application has handled it,
  a wake up that is still to come is harmless because the word is compared again, and
  what the application holds is alive or is being taken back by the pending command; what the
  looper has found and not reported is a queue the application holds or has just given up.
  From it `NothingFreedIsUsed`, and step by step the refinement `GlueIsSynchronous`.
* **SystemProofs** - for any number of descriptors, failed handshakes and faults, and any of
  the three dumpers. That descriptors are accounted for and that
  comparing numbers finds the holder is not inductive by itself: the invariant adds that
  the components' fields, the open descriptors and the epoll set balance (every number is
  held by one field, or was lost by a failed handshake and is counted), that a dumper's
  two descriptors come and go together, and that an event is fetched only when the loop
  is steady and is for a watched descriptor. The table of descriptors is reasoned about as
  a value (`Balanced`), with one lemma for each thing a handler does to it, and each handler
  is a short chain of these. For the boot, what the completed steps have established
  is a set that grows with the step; `NeedsAreMet` compares it with what each step needs.
  For the end, what the first calls after the loop have taken down, whoever uses the disk and
  whether or not the SMB server could be stopped. From it
  `NoDescriptorLost`, `EventsAreNotMistaken`, `BootFindsItsNeeds`, `PowerOffFindsNothing`.
* **ModemClientProofs** - for any number of messages, notifications, unpluggings and late
  answers and any queue of at least two places. `QueueInv`: between lines a command is
  pending exactly when there is one, except after the device vanished, and in the queue a
  text follows its START_SMS. `LineInv`, until an answer comes late: of the pending
  command either the command is on its way to the modem, or the unit that ends its answer
  is on its way back or in the buffer, never two of these; the tag looked at once is
  still that of the first command while such a unit is in the buffer; and the modem is at
  its prompt while a prompt is under way. From it `CommandsRemembered`, `HalfDuplexLine`
  (with `ackPending`'s assertion), `HangNeedsUnplugging`.
* **SshClientProofs** - for every script of packets that lie one behind the other, every
  size of the buffer, of the alignment and of the packets, and every way the bytes arrive.
  `StreamTail`: after an identification line that came in one read the buffer holds the end
  of what arrived, the first byte of it being the first of the packet to be framed next;
  this needs the arithmetic of the circular buffer (`RingDistance`, `StoredBytes`,
  `AlignedBytes`: what is stored behind, and what the realignment after the line moves).
  `Framing`: so the packet the client frames is the next of the script, and it is whole when
  it is looked at. `Hashing`: when the line came in pieces the client hashes another line
  than the server sent, the server's signature is of another exchange, and the client
  refuses it; so whoever comes past the signature has read the line at once and the
  argument about the buffer holds. `Ordering` relates the phase to what was handled and
  sent. For the cleanup, what the calls so far have acquired is what the label of the next one
  gives back. From it `BytesInOrder`, `ConnectionAgreed`, `InitGivesBack`.
* **WindowProofs** - for every list of modes, size of the buffer and of the keyboard map and
  number of inputs. Three inductive invariants. `WindowInv`: `Holdings` says what is held at
  each place, which is exactly what the labels ahead give back; a chain of clean up functions
  composes by `GivesBoth` (each finds what it gives back and nobody using it). `Places` ties
  places to the platform, `Buffers` says which buffers are locked, shown and about to be shown at
  each place of the display's loop, `Chosen` that the mode is the best one (`BestFound`, by
  induction over the scan of `drm_bestModeIndex`). From it `FailingGivesBack` and
  `ShownStaysLocked`. `Balance`: after every prefix of the requests on their way the cursor is
  hidden at most once, and after all of them it is as the program believes; a request that is
  carried out moves from the queue to the server's state (`AfterTail`), a new one does not change
  what the earlier ones do (`AfterPrefix`). From it `PointerStaysBalanced`. `Streaming`: what
  is in the buffer, then what was read past it into a keyboard map larger than the buffer, then
  what is on the wire, is a sequence of whole messages (`Pending`); receiving moves the border,
  acknowledging drops the first message, sending appends whole ones (`AnswersWhole`). From it
  `StreamStaysIntact`.

A recursive function is reasoned about through its equation: that the equation has a solution
is shown by induction on a set of numbers (`Counting`, from the well-foundedness of the natural
numbers), since the library's induction theorems cannot be instantiated.

The assumptions are the named `ASSUME`s of the modules: types and positivity of the
constants, for Router that its dumpers are those of `router.c`, for ModemClient that the
queue holds the two commands of a connect, for SshClient that the packets of a script
follow each other and that the sizes are multiples of the alignment where the code's are, for
the window that a connector has at least one mode and a keyboard map at least a header,
for TelnetServer that every input is text, a command or garbage with the meaning it has.
Model checked only: liveness
(`SilentServerLosesLease`, `Reconnects`, `ReplyWritten`, `EventuallyDecoded`,
`PowerButtonPowersOff`, `HonestServerConnects`, `CallbacksReturn`, `ThreadsFinish`), which
the prover does not do; and everything in the `functions` run, which is about what
recursive operators compute.

## Findings

Two runs show disagreements of the code with its own comments, quoted in
`PROJECT.json`: `poly1305_finish` subtracts 2^43 where the limb has 42 bits and so never
reduces, and the SSH client refuses an identification line that arrives in pieces.

Properties of passing runs are stated around further behaviour that a reader of the code
should know of:

* a lease time of UINT32_MAX makes half the lease 0 and disarms the timer
  (`dhcpClient.c:347`, against the comment above it); `LeaseNotOutlived` holds because such a
  lease never ends;
* an answer of the last connection that arrives on the next acknowledges a command when
  none is pending, which `debug_ASSUME` rules out (`modemClient.c:143`, `:210`):
  `OnlyLateAnswersConfuse`;
* the check for a whole text message divides -1 by 4 and takes the header of an empty
  message for all of it (`modemClient.c:282`);
* `_telnetServer_kickClient` after a failed handshake does not close the new descriptor
  (`telnetServer.c:77`): `DescriptorsAccounted` counts these;
* `netlink_receive` takes a second client's request for an acknowledgement
  (`netlink.c:7`): `LossAccounted` bounds what is lost;
* the keyboard map stays mapped when the X11 set up breaks off after the tenth reply
  (`window_x11.c:205`): `OnlyKeyboardMapLost`;
* a name of exactly 100 bytes fills its field of the header, and untar, which reads it as
  a C string, appends the mode that follows (`untar/ix.c:28`): `ArchiveRestored`;
* `findPattern` stops one place early, so an include at the very end of a page is "unclosed"
  (`webPacker/common.c:12`): `PageComplete`;
* replacing an include by something shorter may shrink the buffer by a page before the text
  behind it is moved out of that page (`webPacker/ix.c:56`, `:62`): `PageComplete` allows the
  crash only then;
* `ed25519_verify` bounds S by 2^253 only (`ed25519.c:955`) and so accepts S plus the order of
  the group where it accepts S: `SignaturesVerify`;
* the application takes events of `app.inputQueue` without looking at it
  (`libopenGl.so.c:194`), and it is NULL when the looper reports a queue that a command before
  took away: `HandlesAlive`;
* a kernel that refuses the address or the route of an ACK ends the router
  (`dhcpClient.c:410`, `:448`): `LeasedAddressConfigured`;
* `ksmb_deinit` ignores that the SMB server could not be stopped (`ksmb.c:198`), and a program
  of the console may keep a file of /disk open: `disk_unmount` then waits for ever
  (`disk.c:68`): `PowerButtonPowersOff`;
* `leasedIpNetmask` is "0 if none" (`dhcpClient.c:13`) but keeps the mask of a lost lease, and
  `netlink_receive` never goes round its outer loop, so the end of a dump stays in the
  socket: neither is used afterwards.

## Not modelled

* `packetDumper_onPacketFd` sends without `MSG_DONTWAIT`, and a client that stops reading
  stops the router; the model's handlers always return, and there is nothing to check.
* The kernel's limit on a socket's buffer (ENOBUFS in `netlink_receive`): the queue of Ksmb is
  bounded without loss.
* The numbers in the tables and constants of the cryptography, the byte offsets and shifts with
  which `curve25519_load` splits its input, and how SSH encodes the parts of its exchange hash.
* EGL's deferred destruction of a surface that is current.
* The contents of packets, rules, pages of the SMB protocol, shaders and pictures; the
  drawing and the camera of the game.
* webPacker on files that include each other in a circle, which by its loop never ends.
* System call wrappers, headers and Windows bindings, which are single calls or
  declarations; the Windows variants of the tools; router utilities and the examples that
  show one system call each; C string helpers, byte order helpers and gcd of the library,
  which are a line or two.

## Plan

1. (done) DhcpServer, DhcpClient, ModemClient, TelnetServer, Router, Ksmb; their proofs.
2. (done) System, SshClient, Window, the library and the tools, NativeGlue with
   ActivityCalls, FutexLock; proofs of the last two.
3. (done) Proofs of the event loop, the boot, the shutdown and the modem client.
4. (done) Proofs of the SSH client and of the window.
