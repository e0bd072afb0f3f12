------------------------------- MODULE System --------------------------------
(***************************************************************************)
(* The machine from boot to power off: init (router/init/init.c), which    *)
(* mounts file systems and runs the shell and the router, and start() of   *)
(* the router (router.c), which brings up disk, network and services step  *)
(* by step (disk.c, config.c, iptables.c, hostapd.c, acpi.c, netlink/*.c), *)
(* runs the loop of module Router, and takes everything down again.        *)
(*                                                                         *)
(* What the steps bring about in the kernel are facts, tuples in a set: an *)
(* open descriptor, a mounted disk, a link, its master, an address.  A     *)
(* step says what the kernel must find for the calls to succeed, and what  *)
(* they add or take away.                                                  *)
(***************************************************************************)
EXTENDS Router

CONSTANT MaxFaults      \* bound on system calls that fail for reasons outside the model

VARIABLES
    machine,    \* what init has come to: "up", or "halted" or "off" after sys_reboot
    booted,     \* steps of init done
    reaped,     \* init has waited for the router
    step,       \* steps of start() done, of BootSteps or of ShutdownSteps
    facts,
    holds,      \* the members of Users that have opened a file of /disk and not closed it
    faults

vars == <<loopVars, listening, machine, booted, reaped, step, facts, holds, faults>>

-----------------------------------------------------------------------------
(***************************************************************************)
(* The steps of start() before the loop.                                   *)
(***************************************************************************)

Fd(name) == <<"fd", name>>
Link(i) == <<"link", i>>
Up(i) == <<"up", i>>

\* A step that calls the kernel; with optional, it does nothing when a file or an interface
\* is not there; listen is the dumper it starts.
Step(needs, adds) == [needs |-> needs, adds |-> adds, optional |-> FALSE, listen |-> {}]
Optional(needs, adds, listen) == [needs |-> needs, adds |-> adds, optional |-> TRUE, listen |-> listen]

Disk == <<"mounted", "/disk">>

\* It looks again every 100 ms until there is a disk with the right name.
disk_mount == Step({<<"mounted", "/dev">>, <<"mounted", "/sys">>}, {Disk})

genetlink_init == Step({}, {Fd("genetlink")})

\* genetlink_requestFamily asks over the socket of genetlink_init.
acpi_init == Step({Fd("genetlink")}, {Fd("acpi")})
ksmb_init == Step({Fd("genetlink")}, {Fd("ksmb"), <<"smb">>})
config_init == Step({Fd("genetlink")}, {Fd("rtnetlink")})

iptables_configure == Step({}, {<<"masquerade">>})

\* Requests over the socket of config_init.  The kernel refuses one for a link that is not
\* there, and a route over a link that is not up.
config_addIf(i) == Step({Fd("rtnetlink")}, {Link(i), Up(i)})
config_addIpv4(i) == Step({Fd("rtnetlink"), Link(i)}, {<<"address", i>>})
config_setMaster(i, master) == Step({Fd("rtnetlink"), Link(i), Link(master)}, {<<"master", i, master>>, Up(i)})
config_addWgRoute == Step({Fd("rtnetlink"), Up("wg0")}, {<<"route", "wg0">>})

\* Without a key or the peer's key on the disk the device is left as it is.
config_setWgDevice == Optional({Fd("genetlink"), Link("wg0"), Disk}, {}, {})

\* A file of /proc/sys is written.
Sysctl(name) == Step({<<"mounted", "/proc">>}, {<<"sysctl", name>>})

\* config_configure, with one of the four ports of each bridge.
config_configure ==
    <<Sysctl("arp_ignore"), Sysctl("ignore_routes_with_linkdown"),
      config_addIf("wan"), config_setMaster("eth0", "wan"),
      config_addIf("lan"), config_addIpv4("lan"), config_setMaster("eth4", "lan"),
      config_addIf("wg0"), config_addWgRoute, config_setWgDevice,
      Sysctl("ip_forward")>>

\* Without a password on the disk it is not started.
hostapd_init == Optional({Disk}, {Fd("hostapd")}, {})

dhcpClient_init(name, i) == Step({Link(i)}, {Fd(name)})

\* The modem's interface, when it is there after the sleep: config_getIfIndex,
\* config_setFlags, dhcpClient_init and packetDumper_init.
UsbInit == Optional({Fd("rtnetlink")}, {Up("usb0"), Fd("usbDhcp"), Fd("usb")}, {"usb"})

\* Sockets that listen on the address of the LAN.  lanDumper, the twin of wanDumper, is left
\* out here, in the loop and in the shut down.
packetDumper_init(d) == [Step({<<"address", "lan">>}, {Fd(d)}) EXCEPT !.listen = {d}]
dhcpServer_init == Step({Link("lan")}, {Fd("dhcpServer")})
modemClient_init == Step({}, {Fd("modemTimer")})
telnetServer_init == Step({<<"mounted", "/devpts">>, <<"address", "lan">>}, {Fd("telnet")})

\* epollAdd refuses a descriptor that is not open.
EpollSetup ==
    Step({Fd("acpi"), Fd("ksmb"), Fd("wanDhcp"), Fd("wan"), Fd("dhcpServer"), Fd("modemTimer"), Fd("telnet")},
         {Fd("epoll")})

\* Mutated form of BootSteps: the packet filter comes last.
BootStepsFilterLast ==
    <<disk_mount, genetlink_init, acpi_init, ksmb_init, config_init>>
    \o config_configure
    \o <<hostapd_init, dhcpClient_init("wanDhcp", "wan"), UsbInit,
         packetDumper_init("wan"), dhcpServer_init, modemClient_init, telnetServer_init, EpollSetup,
         iptables_configure>>

BootSteps ==
    <<disk_mount, genetlink_init, acpi_init, ksmb_init, config_init, iptables_configure>>
    \o config_configure
    \o <<hostapd_init, dhcpClient_init("wanDhcp", "wan"), UsbInit,
         packetDumper_init("wan"), dhcpServer_init, modemClient_init, telnetServer_init, EpollSetup>>

-----------------------------------------------------------------------------
(***************************************************************************)
(* init                                                                    *)
(***************************************************************************)

\* initialise(), and the two programs that start() runs.
InitSteps == <<<<"mounted", "/proc">>, <<"sysctl", "overcommit_memory">>, <<"sysctl", "panic_on_oom">>,
               <<"mounted", "/sys">>, <<"mounted", "/dev">>, <<"mounted", "/devpts">>,
               <<"run", "/shell">>, <<"run", "/router">>>>

Init ==
    /\ LoopInit
    /\ machine = "up" /\ booted = 0 /\ reaped = FALSE
    /\ step = 0
    /\ facts = {Link("eth0"), Link("eth4"), <<"mounted", "/">>}
    /\ holds = {} /\ faults = 0

Fault == faults < MaxFaults /\ faults' = faults + 1

\* initialise() is not complete.
Initialising == machine = "up" /\ booted < Len(InitSteps)

InitStep ==
    /\ Initialising
    /\ booted' = booted + 1
    /\ facts' = facts \cup {InitSteps[booted + 1]}
    /\ status' = IF booted + 1 = Len(InitSteps) THEN "starting" ELSE status
    /\ UNCHANGED <<fields, open, epoll, events, ghosts, listening, machine, reaped, step, holds, faults>>

\* sys_reboot ends every process.
Reboot(how) ==
    /\ machine' = how
    /\ UNCHANGED <<loopVars, listening, booted, step, facts, holds>>

\* A step of init fails, or waitid or the write of the report.
InitFails ==
    /\ machine = "up" /\ Fault
    /\ Initialising \/ status \in {"exited", "aborted"}
    /\ Reboot("halted")
    /\ UNCHANGED reaped

\* Mutated form of Reap: whatever the router exits with, the machine is powered off.
ReapAny ==
    /\ machine = "up" /\ status \in {"exited", "aborted"} /\ ~reaped
    /\ reaped' = TRUE
    /\ Reboot("off")
    /\ UNCHANGED faults

\* waitid returns the router: power off only when it exited with status 0; otherwise init
\* goes on waiting.  (Other children that end change nothing.)
Reap ==
    /\ machine = "up" /\ status \in {"exited", "aborted"} /\ ~reaped
    /\ reaped' = TRUE
    /\ IF status = "exited" THEN Reboot("off")
       ELSE UNCHANGED <<loopVars, listening, machine, booted, step, facts, holds>>
    /\ UNCHANGED faults

-----------------------------------------------------------------------------
(***************************************************************************)
(* start() of the router.                                                  *)
(***************************************************************************)

\* The router dies of a CHECK: what it had open is closed, what the kernel was told stays.
Dies ==
    /\ Abort
    /\ facts' = {f \in facts : f[1] # "fd"}
    /\ UNCHANGED <<events, misled, listening, machine, booted, reaped, step, holds>>

Performs(s) ==
    /\ facts' = facts \cup s.adds
    /\ listening' = listening \cup (s.listen \cap Dumpers)

\* The next step of start(): it is performed, skipped, or ends in a CHECK.
BootStep ==
    /\ machine = "up" /\ status = "starting" /\ step < Len(BootSteps)
    /\ LET s == BootSteps[step + 1] IN
       \/ /\ s.needs \subseteq facts
          /\ step' = step + 1
          /\ Performs(s) \/ (s.optional /\ UNCHANGED <<facts, listening>>)
          /\ UNCHANGED <<loopVars, machine, booted, reaped, holds, faults>>
       \/ /\ ~(s.needs \subseteq facts)
          /\ Dies /\ UNCHANGED faults
       \/ Fault /\ Dies

EnterLoop ==
    /\ machine = "up" /\ status = "starting" /\ step = Len(BootSteps)
    /\ status' = "running"
    /\ step' = 0
    /\ UNCHANGED <<fields, open, epoll, events, ghosts, listening, machine, booted, reaped, facts, holds, faults>>

\* An iteration of the loop.
Loop ==
    /\ machine = "up" /\ LoopNext
    /\ facts' = IF status' = "aborted" THEN {f \in facts : f[1] # "fd"} ELSE facts
    /\ UNCHANGED <<listening, machine, booted, reaped, step, holds, faults>>

\* The calls after the loop, in their order.
ShutdownSteps == <<"telnet", "modemTimer", "dhcpServer", "wan", "usb", "usbDhcp", "wanDhcp", "hostapd",
                   "rtnetlink", "ksmb", "acpi", "genetlink", "unmount", "exit">>

\* What the deinit functions of telnet, modem and dumpers do with numbered descriptors.
Deinit(name) ==
    CASE name = "telnet"     -> KickTelnet
      [] name = "modemTimer" -> DisconnectModem
      [] name \in Dumpers    -> StopDumper(name)
      [] OTHER               -> NothingHappens

\* A deinit function; ksmb_deinit also attempts to stop the server in the kernel, and goes
\* on when it cannot.
CloseStep(name) ==
    /\ \/ /\ facts' = (facts \ {Fd(name)}) \ (IF name = "ksmb" THEN {<<"smb">>} ELSE {})
          /\ UNCHANGED faults
       \/ /\ name = "ksmb" /\ Fault
          /\ facts' = facts \ {Fd(name)}
    /\ listening' = listening \ {name}
    /\ Deinit(name)

\* Who can have a file of /disk open: the telnet shell and its programs, which the hang up
\* of the terminal ends when the router closes it or dies; the SMB server; and the programs
\* that nothing ends, those of init's shell on the console and any that ignore the hang up.
Users == {"telnet", "smb", "console"}

Alive(user) ==
    CASE user = "telnet"  -> Fd("telnet") \in facts
      [] user = "smb"     -> <<"smb">> \in facts
      [] user = "console" -> <<"run", "/shell">> \in facts

\* umount2 refuses while one of them has a file open.
DiskHeld == \E user \in holds : Alive(user)

\* A user of the disk opens or closes files.  It matters only once the router is stopping,
\* and every set of users can have come about by then or later.
UseDisk ==
    /\ machine = "up" /\ status = "stopping" /\ Disk \in facts
    /\ \E user \in Users :
         \/ Alive(user) /\ user \notin holds /\ holds' = holds \cup {user}
         \/ user \in holds /\ holds' = holds \ {user}
    /\ UNCHANGED <<loopVars, listening, machine, booted, reaped, step, facts, faults>>

\* A call after the loop.  disk_unmount tries again every second until the disk is not busy.
ShutdownCall(name) ==
    /\ machine = "up" /\ status = "stopping"
    /\ step' = step + 1
    /\ CASE name = "unmount" -> /\ ~DiskHeld /\ facts' = facts \ {Disk}
                                /\ UNCHANGED <<loopVars, listening, faults>>
         [] name = "exit"    -> /\ status' = "exited" /\ facts' = {f \in facts : f[1] # "fd"}
                                /\ UNCHANGED <<fields, open, epoll, events, ghosts, listening, faults>>
         [] OTHER            -> CloseStep(name) /\ UNCHANGED <<events, misled>>
    /\ UNCHANGED <<machine, booted, reaped, holds>>

\* Mutated form of ShutdownStep: the disk is unmounted first.
ShutdownStepUnmountFirst ==
    ShutdownCall(CASE step = 0 -> "unmount" [] step = 13 -> "exit" [] OTHER -> ShutdownSteps[step])

ShutdownStep == ShutdownCall(ShutdownSteps[step + 1])

Next == InitStep \/ InitFails \/ Reap \/ BootStep \/ EnterLoop \/ Loop \/ ShutdownStep \/ UseDisk

\* Processes run.  Nothing obliges a user of the disk to close its files.
Fairness == WF_vars(InitStep) /\ WF_vars(Reap) /\ WF_vars(BootStep) /\ WF_vars(EnterLoop) /\ WF_vars(ShutdownStep)

Spec == Init /\ [][Next]_vars /\ Fairness

-----------------------------------------------------------------------------
\* At no step of the boot, and not after a crash in the middle of it, does the kernel
\* forward packets while the source addresses of the LAN are not masqueraded
\* (iptables_configure comes before config_configure, which enables ip_forward last), and
\* every step of start() finds what it needs of the earlier ones: before its loop the router
\* only dies when a system call fails for a reason of its own.
BootInOrder ==
    /\ <<"sysctl", "ip_forward">> \in facts => <<"masquerade">> \in facts
    /\ status = "aborted" /\ step > 0 => faults > 0

\* sys_reboot powers the machine off only after the router took everything down: the disk is
\* unmounted, no client is left, every descriptor is closed and each was closed once.  Only
\* an SMB server that could not be stopped still runs.
PowerOffIsClean ==
    machine = "off" => /\ Disk \notin facts
                       /\ <<"smb">> \in facts => faults > 0
                       /\ status = "exited" /\ listening = {} /\ Holders = {}
                       /\ Cardinality(open) <= failures

\* The power button ends the machine if the programs that nothing ends do not keep a file of
\* /disk open for ever, and neither does the SMB server when it cannot be stopped.  Telnet
\* sessions and SMB clients may: no step after the loop waits for something that only a
\* later step would end.
PowerButtonPowersOff ==
    <>[]("console" \notin holds) /\ <>[]("smb" \notin holds \/ faults = 0) =>
        (status = "stopping" ~> machine # "up")
=============================================================================
