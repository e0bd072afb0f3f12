------------------------------- MODULE Router --------------------------------
(***************************************************************************)
(* The event loop of the router (router/router/router.c) and the file      *)
(* descriptors that come and go while it runs: the telnet client, the      *)
(* modem's serial line, and the client and packet socket of each packet    *)
(* dumper (router/router/packetDumper.c).                                  *)
(*                                                                         *)
(* The loop takes one event from epoll and compares its descriptor with    *)
(* the fields of the components, one after the other.  Descriptors are     *)
(* numbers that the kernel uses again, the lowest free one first, so a     *)
(* field must never keep the number of a closed descriptor.  Descriptors   *)
(* that live as long as the router (listening sockets, timers, netlink)    *)
(* are not numbered; their events are actions of their own.                *)
(***************************************************************************)
EXTENDS Integers, Sequences, FiniteSets

CONSTANTS
    DumperSeq,      \* the packet dumpers in the order the loop compares them
    FdLimit,        \* descriptors the process may have beside those that stay
    MaxFailures     \* bound on the telnet handshakes that cannot be sent

Dumpers == {DumperSeq[i] : i \in 1 .. Len(DumperSeq)}
Fds     == 1 .. FdLimit
None    == -1

ASSUME RouterAssumption ==
    /\ FdLimit \in Nat /\ MaxFailures \in Nat
    /\ DumperSeq \in Seq({"wan", "lan", "usb"})
    /\ \A i, j \in 1 .. Len(DumperSeq) : DumperSeq[i] = DumperSeq[j] => i = j

VARIABLES
    status,         \* of the process: "absent", "starting", "running" (the loop), "stopping",
                    \* "exited" or "aborted"
    listening,      \* the dumpers with a listenFd
    telnetFd,       \* telnetServer.clientFd
    modemFd,        \* modemClient.fd
    clientFd,       \* clientFd of each dumper
    packetFd,       \* packetFd of each dumper
    open,           \* the kernel: open descriptors
    epoll,          \* the kernel: what epoll watches, [fd, for] with the component it was added for
    events,         \* the members of epoll whose events are fetched and not handled
    \* What happened, for the properties only.
    misled,         \* an event reached another component than the one it was for
    badClose,       \* a descriptor was closed that was not open
    failures        \* telnet handshakes that could not be sent

fields == <<telnetFd, modemFd, clientFd, packetFd>>
ghosts == <<misled, badClose, failures>>
loopVars == <<status, fields, open, epoll, events, ghosts>>

\* Before the loop runs.
LoopInit ==
    /\ status = "absent" /\ listening = {}
    /\ telnetFd = None /\ modemFd = None
    /\ clientFd = [d \in Dumpers |-> None] /\ packetFd = [d \in Dumpers |-> None]
    /\ open = {} /\ epoll = {} /\ events = <<>>
    /\ misled = FALSE /\ badClose = FALSE /\ failures = 0

-----------------------------------------------------------------------------
(***************************************************************************)
(* The kernel's table of descriptors.                                      *)
(***************************************************************************)

\* The descriptor the kernel gives out next.
LowestFree(used) == CHOOSE fd \in Fds \ used : \A other \in Fds \ used : fd <= other

Full(used) == Fds \subseteq used

\* Closing a socket takes it out of epoll.
EpollWithout(fds) == {e \in epoll : e.fd \notin fds}

Watch(fd, what) == [fd |-> fd, for |-> what]

\* Whether sys_close succeeds for all of fds.
ClosesOpen(fds) == badClose' = (badClose \/ ~(fds \subseteq open))

Owned(field) == {field} \ {None}

Packet(d) == [what |-> "packet", dumper |-> d]
Client(d) == [what |-> "client", dumper |-> d]
Modem     == [what |-> "modem"]
Telnet    == [what |-> "telnet"]
Nobody    == [what |-> "nobody"]

-----------------------------------------------------------------------------
(***************************************************************************)
(* The components, as far as descriptors go.                               *)
(***************************************************************************)

\* _telnetServer_kickClient and modemClient_disconnect.
KickTelnet ==
    /\ telnetFd' = None
    /\ open' = open \ Owned(telnetFd) /\ epoll' = EpollWithout(Owned(telnetFd))
    /\ ClosesOpen(Owned(telnetFd))
    /\ UNCHANGED <<status, modemFd, clientFd, packetFd, failures>>

DisconnectModem ==
    /\ modemFd' = None
    /\ open' = open \ Owned(modemFd) /\ epoll' = EpollWithout(Owned(modemFd))
    /\ ClosesOpen(Owned(modemFd))
    /\ UNCHANGED <<status, telnetFd, clientFd, packetFd, failures>>

\* The descriptors packetDumper_stop closes.
DumpFds(d) == IF packetFd[d] # None THEN {packetFd[d], clientFd[d]} ELSE {}

\* Mutated form of StopDumper: only the packet socket is closed.
StopDumperClosesPacketOnly(d) ==
    /\ packetFd' = [packetFd EXCEPT ![d] = None]
    /\ clientFd' = [clientFd EXCEPT ![d] = IF packetFd[d] # None THEN None ELSE @]
    /\ open' = open \ Owned(packetFd[d]) /\ epoll' = EpollWithout(Owned(packetFd[d]))
    /\ ClosesOpen(Owned(packetFd[d]))
    /\ UNCHANGED <<status, telnetFd, modemFd, failures>>

\* packetDumper_stop
StopDumper(d) ==
    /\ packetFd' = [packetFd EXCEPT ![d] = None]
    /\ clientFd' = [clientFd EXCEPT ![d] = IF packetFd[d] # None THEN None ELSE @]
    /\ open' = open \ DumpFds(d) /\ epoll' = EpollWithout(DumpFds(d))
    /\ ClosesOpen(DumpFds(d))
    /\ UNCHANGED <<status, telnetFd, modemFd, failures>>

\* A CHECK that fails: the kernel closes what the process had open.
Abort ==
    /\ status' = "aborted"
    /\ telnetFd' = None /\ modemFd' = None
    /\ clientFd' = [d \in Dumpers |-> None] /\ packetFd' = [d \in Dumpers |-> None]
    /\ open' = {} /\ epoll' = {}
    /\ UNCHANGED <<badClose, failures>>

NothingHappens == UNCHANGED <<status, fields, open, epoll, badClose, failures>>

\* telnetServer_onListenFd: the new client is accepted before the old one is kicked.
\* When the handshake cannot be sent, the new descriptor stays open and is forgotten.
TelnetAccepts ==
    IF Full(open)
      THEN NothingHappens
    ELSE LET new == LowestFree(open) IN
         /\ ClosesOpen(Owned(telnetFd))
         /\ open' = (open \cup {new}) \ Owned(telnetFd)
         /\ \/ /\ telnetFd' = new
               /\ epoll' = EpollWithout(Owned(telnetFd)) \cup {Watch(new, Telnet)}
               /\ UNCHANGED failures
            \/ /\ failures < MaxFailures
               /\ telnetFd' = None
               /\ epoll' = EpollWithout(Owned(telnetFd))
               /\ failures' = failures + 1
         /\ UNCHANGED <<status, modemFd, clientFd, packetFd>>

\* packetDumper_onListenFd: accept, stop the dump that is going on, open and set up the
\* packet socket (a CHECK aborts the router without a descriptor, or when one of the calls
\* on it fails) and start with the header; when that cannot be sent the dump stops.
DumperAccepts(d) ==
    IF Full(open) THEN NothingHappens
    ELSE LET new  == LowestFree(open)
             rest == (open \cup {new}) \ DumpFds(d)
         IN
         \/ Abort
         \/ /\ ~Full(rest)
            /\ ClosesOpen(DumpFds(d))
            /\ \/ LET packet == LowestFree(rest) IN
                  /\ clientFd' = [clientFd EXCEPT ![d] = new]
                  /\ packetFd' = [packetFd EXCEPT ![d] = packet]
                  /\ open' = rest \cup {packet}
                  /\ epoll' = EpollWithout(DumpFds(d))
                                \cup {Watch(new, Client(d)), Watch(packet, Packet(d))}
               \/ /\ clientFd' = [clientFd EXCEPT ![d] = None]
                  /\ packetFd' = [packetFd EXCEPT ![d] = None]
                  /\ open' = rest \ {new}
                  /\ epoll' = EpollWithout(DumpFds(d))
            /\ UNCHANGED <<status, telnetFd, modemFd, failures>>

\* modemClient_onTimerFd: connect, or give up a connection, or neither.
ModemTimer ==
    \/ NothingHappens
    \/ modemFd # None /\ DisconnectModem
    \/ /\ modemFd = None /\ ~Full(open)
       /\ modemFd' = LowestFree(open)
       /\ open' = open \cup {modemFd'} /\ epoll' = epoll \cup {Watch(modemFd', Modem)}
       /\ UNCHANGED <<status, telnetFd, clientFd, packetFd, badClose, failures>>

-----------------------------------------------------------------------------
(***************************************************************************)
(* The loop of start().                                                    *)
(***************************************************************************)

\* The comparisons on numbered descriptors in their order: packetFd and clientFd of
\* the dumpers, then the modem, then the telnet client.
Chain ==
    [i \in 1 .. 2 * Len(DumperSeq) |->
        LET d == DumperSeq[(i + 1) \div 2] IN IF i % 2 = 1 THEN Packet(d) ELSE Client(d)]
    \o <<Modem, Telnet>>

Field(c) ==
    CASE c.what = "packet" -> packetFd[c.dumper]
      [] c.what = "client" -> clientFd[c.dumper]
      [] c.what = "modem"  -> modemFd
      [] c.what = "telnet" -> telnetFd

\* The component the comparisons find for a descriptor.
Dispatch(fd) ==
    LET hits == {i \in 1 .. Len(Chain) : Field(Chain[i]) = fd}
    IN  IF hits = {} THEN Nobody
        ELSE Chain[CHOOSE i \in hits : \A j \in hits : i <= j]

\* Mutated form of Wait: two events are fetched at a time.
WaitForTwo ==
    /\ status = "running" /\ events = <<>>
    /\ \E e, f \in epoll : events' = IF e = f THEN <<e>> ELSE <<e, f>>
    /\ UNCHANGED <<status, fields, open, epoll, ghosts>>

\* sys_epoll_pwait for one event.
Wait ==
    /\ status = "running" /\ events = <<>>
    /\ \E e \in epoll : events' = <<e>>
    /\ UNCHANGED <<status, fields, open, epoll, ghosts>>

\* packetDumper_onPacketFd aborts when the interface is gone, and stops the dump when
\* its client does not take the packet.
Handle(c) ==
    CASE c.what = "packet" -> NothingHappens \/ Abort \/ StopDumper(c.dumper)
      [] c.what = "client" -> StopDumper(c.dumper)
      [] c.what = "modem"  -> NothingHappens \/ DisconnectModem
      [] c.what = "telnet" -> NothingHappens \/ KickTelnet
      [] c.what = "nobody" -> NothingHappens

HandleEvent ==
    /\ status = "running" /\ events # <<>>
    /\ events' = Tail(events)
    /\ LET c == Dispatch(Head(events).fd) IN
       /\ Handle(c)
       /\ misled' = (misled \/ c # Head(events).for)

\* Events of the descriptors that stay.  telnetServer_onPtMasterFd kicks a client that
\* does not take the output of the shell.
TelnetListenFd == events = <<>> /\ TelnetAccepts
TelnetPtMasterFd == events = <<>> /\ telnetFd # None /\ KickTelnet
DumperListenFd == events = <<>> /\ \E d \in listening : DumperAccepts(d)
ModemTimerFd == events = <<>> /\ ModemTimer

HandleFixedEvent ==
    /\ status = "running"
    /\ TelnetListenFd \/ TelnetPtMasterFd \/ DumperListenFd \/ ModemTimerFd
    /\ UNCHANGED <<events, misled>>

\* hostapd or the telnet shell ended: util_abort().
ChildEnds ==
    /\ status = "running" /\ events = <<>>
    /\ Abort
    /\ UNCHANGED <<events, misled>>

\* The event of the power button ends the loop.
PowerButton ==
    /\ status = "running" /\ events = <<>>
    /\ status' = "stopping"
    /\ UNCHANGED <<fields, open, epoll, events, ghosts>>

LoopNext == Wait \/ HandleEvent \/ HandleFixedEvent \/ ChildEnds \/ PowerButton

-----------------------------------------------------------------------------
(***************************************************************************)
(* Properties.                                                             *)
(***************************************************************************)

\* The components that have a descriptor.
Holders == {c \in {Chain[i] : i \in 1 .. Len(Chain)} : Field(c) # None}

InUse == {Field(c) : c \in Holders}

\* No number is in two fields, a field only holds an open descriptor, and epoll watches
\* exactly the descriptors in fields, each for its component: whatever was closed was
\* forgotten everywhere (_telnetServer_kickClient, modemClient_disconnect,
\* packetDumper_stop), and closed once (debug_CHECK(sys_close(...), RES == 0)).  The only
\* open descriptors in no field are those of telnet clients that vanished before their
\* handshake, one each.
DescriptorsAccounted ==
    /\ ~badClose
    /\ \A b, c \in Holders : Field(b) = Field(c) => b = c
    /\ InUse \subseteq open
    /\ epoll = {Watch(Field(c), c) : c \in Holders}
    /\ Cardinality(open \ InUse) <= failures

\* Every event is handled by the component that had its descriptor added to epoll,
\* although handlers close descriptors and numbers are used again, and although the loop
\* only compares numbers; "else debug_ASSERT(0)" (router.c:152) is not reached.
EventsFindTheirHandler == ~misled
=============================================================================
