---------------------------- MODULE TelnetServer ----------------------------
(***************************************************************************)
(* The telnet server of the router (router/router/telnetServer.c): one     *)
(* client at a time types into a pseudo terminal.  The client's bytes      *)
(* arrive in pieces of any size; a command that is cut by the end of a     *)
(* piece is kept in `saved` until the next one.                            *)
(*                                                                         *)
(* A client sends Inputs: records of bytes and of the effects that they    *)
(* stand for.  What the parser did is `effects`, what it should do         *)
(* `expected`.                                                             *)
(***************************************************************************)
EXTENDS Integers, Sequences

CONSTANTS
    Inputs,         \* what a client may send: its bytes and what they mean
    MaxInputs,      \* bound on what a client sends in one session
    MaxSessions     \* bound on the connections accepted

\* The bytes the parser tells apart: "x" is any other byte, "NUL" is 0, "NOP" and
\* "WILL" stand for the commands of two and of three bytes.
Bytes == {"NUL", "NL", "CR", "IAC", "SE", "NOP", "SB", "WILL", "NAWS", "x"}

\* What the server does for a client: a byte is written to the terminal, the terminal is
\* resized, the client is kicked.
Write(byte)  == <<"write", byte>>
Resize(size) == <<"resize", size>>
Kicked       == <<"kick">>

\* A window size as it is sent, with every 255 twice.
Escaped(byte) == IF byte = "IAC" THEN <<"IAC", "IAC">> ELSE <<byte>>
Naws(size) ==
    <<"IAC", "SB", "NAWS">> \o Escaped(size[1]) \o Escaped(size[2])
        \o Escaped(size[3]) \o Escaped(size[4]) \o <<"IAC", "SE">>

\* The commands of telnet that a client may send here, and what they mean; the only
\* option it is asked to negotiate is the window size.
Returns == { [bytes |-> <<"CR", b>>, means |-> <<Write("CR")>>] : b \in {"NUL", "NL"} }
Escapes == { [bytes |-> <<"IAC", "IAC">>, means |-> <<Write("IAC")>>] }
Nops    == { [bytes |-> <<"IAC", "NOP">>, means |-> <<>>] }
Wills   == { [bytes |-> <<"IAC", "WILL", b>>, means |-> <<>>] : b \in Bytes }
Resizes == { [bytes |-> Naws(size), means |-> <<Resize(size)>>] :
               size \in Bytes \X Bytes \X Bytes \X Bytes }
Commands == Returns \cup Escapes \cup Nops \cup Wills \cup Resizes

\* A byte that starts no command is typed.
Texts == { [bytes |-> <<b>>, means |-> <<Write(b)>>] : b \in Bytes \ {"CR", "IAC"} }

\* Of two sequences of bytes one is the beginning of the other.
Alike(b, c) == \A i \in DOMAIN b \cap DOMAIN c : b[i] = c[i]

\* What begins as a command does and is neither one nor the beginning of one.
Garbage(b) ==
    /\ b # <<>> /\ b[1] \in {"CR", "IAC"}
    /\ \A c \in Commands : ~Alike(b, c.bytes)

\* A client sends text, commands and garbage.
ASSUME TelnetAssumption ==
    /\ MaxInputs \in Nat /\ MaxSessions \in Nat
    /\ \A in \in Inputs :
         \/ in \in Texts \cup Commands
         \/ in.bytes \in Seq(Bytes) /\ Garbage(in.bytes) /\ in.means = <<Kicked>>

\* Mutated form of SavedSize: the escape before the last 255 is forgotten.
SavedSizeShort == 11

\* hc_ARRAY_LEN(telnetServer.saved)
SavedSize == 12

VARIABLES
    pc,         \* "idle" in the event loop, "parse" in telnetServer_onClientFd,
                \* "overrun" when more bytes were saved than fit
    client,     \* clientFd: "none" or "open"
    saved,      \* telnetServer.saved
    buf,        \* buffer[baseI .. numBuffered - 1]
    effects,    \* what was done for this client
    \* The client.
    wire,       \* bytes sent and not received
    expected,   \* what has to be done for what was sent
    inputsLeft, sessionsLeft

vars == <<pc, client, saved, buf, effects, wire, expected, inputsLeft, sessionsLeft>>

\* hc_MEMSET(&telnetServer.saved[0], 0, sizeof(telnetServer.saved))
NoneSaved == [i \in 1 .. SavedSize |-> "NUL"]

Init ==
    /\ pc = "idle" /\ client = "none"
    /\ saved = NoneSaved
    /\ buf = <<>>
    /\ effects = <<>> /\ expected = <<>> /\ wire = <<>>
    /\ inputsLeft = 0 /\ sessionsLeft = MaxSessions

-----------------------------------------------------------------------------
(***************************************************************************)
(* Parsing.  The functions return the index after what they parse, or      *)
(* SAVE when the buffer ends before that, or KICK.                         *)
(***************************************************************************)
SAVE == -1
KICK == -2

\* A byte of a window size; 255 is sent twice.
NawsByte(b, i) ==
    IF i < 0 THEN i
    ELSE IF i > Len(b) THEN SAVE
    ELSE IF b[i] # "IAC" THEN i + 1
    ELSE IF i + 1 > Len(b) THEN SAVE
    ELSE IF b[i + 1] = "IAC" THEN i + 2
    ELSE KICK

\* _telnetServer_getNawsU16OrSave
NawsU16(b, i) == NawsByte(b, NawsByte(b, i))

\* The end of IAC SB NAWS <columns> <rows> IAC SE.
NawsEnd(b) ==
    LET i == NawsU16(b, NawsU16(b, 4))
    IN  IF i < 0 THEN i
        ELSE IF i + 1 > Len(b) THEN SAVE
        ELSE IF b[i] = "IAC" /\ b[i + 1] = "SE" THEN i + 2
        ELSE KICK

\* The end of the CR or IAC that b starts with.
CommandEnd(b) ==
    IF Len(b) < 2 THEN SAVE
    ELSE IF b[1] = "CR" THEN (IF b[2] \in {"NUL", "NL"} THEN 3 ELSE KICK)
    ELSE IF b[2] \in {"NOP", "IAC"} THEN 3
    ELSE IF b[2] = "WILL" THEN (IF Len(b) < 3 THEN SAVE ELSE 4)
    ELSE IF b[2] = "SB" THEN
        (IF Len(b) < 3 THEN SAVE ELSE IF b[3] = "NAWS" THEN NawsEnd(b) ELSE KICK)
    ELSE KICK

\* The four bytes of a window size.
Winsize(b) ==
    LET i == NawsByte(b, 4)
        j == NawsByte(b, i)
        k == NawsByte(b, j)
    IN  <<b[4], b[i], b[j], b[k]>>

\* What a complete command does.
CommandEffects(b) ==
    IF b[1] = "CR" THEN <<Write("CR")>>
    ELSE IF b[2] = "IAC" THEN <<Write("IAC")>>
    ELSE IF b[2] = "SB" THEN <<Resize(Winsize(b))>>
    ELSE <<>>

-----------------------------------------------------------------------------
(***************************************************************************)
(* The handlers.                                                           *)
(***************************************************************************)

\* _telnetServer_kickClient: what the client still sends is lost.
KickClient ==
    /\ client' = "none" /\ pc' = "idle" /\ buf' = <<>> /\ wire' = <<>>

\* Mutated form of OnListenFd: the saved bytes of the last client are kept.
OnListenFdKeepsSaved ==
    /\ pc = "idle" /\ sessionsLeft > 0
    /\ sessionsLeft' = sessionsLeft - 1
    /\ \/ client' = "open" /\ inputsLeft' = MaxInputs /\ UNCHANGED saved
       \/ client' = "none" /\ inputsLeft' = 0 /\ UNCHANGED saved
    /\ wire' = <<>> /\ effects' = <<>> /\ expected' = <<>>
    /\ UNCHANGED <<pc, buf>>

\* telnetServer_onListenFd: a new client replaces the old one, unless the handshake
\* cannot be sent, which leaves no client.
OnListenFd ==
    /\ pc = "idle" /\ sessionsLeft > 0
    /\ sessionsLeft' = sessionsLeft - 1
    /\ \/ client' = "open" /\ inputsLeft' = MaxInputs /\ saved' = NoneSaved
       \/ client' = "none" /\ inputsLeft' = 0 /\ UNCHANGED saved
    /\ wire' = <<>> /\ effects' = <<>> /\ expected' = <<>>
    /\ UNCHANGED <<pc, buf>>

\* telnetServer_onPtMasterFd: the client cannot take what the shell wrote (when it can,
\* nothing changes here).
OnPtMasterFdFails ==
    /\ pc = "idle" /\ client = "open"
    /\ KickClient
    /\ UNCHANGED <<saved, effects, expected, inputsLeft, sessionsLeft>>

\* The saved bytes start at the first that is not zero.
LoadSaved ==
    IF saved = NoneSaved THEN <<>>
    ELSE LET first == CHOOSE i \in 1 .. SavedSize :
                        saved[i] # "NUL" /\ \A j \in 1 .. i - 1 : saved[j] = "NUL"
         IN  SubSeq(saved, first, SavedSize)

\* telnetServer_onClientFd: the saved bytes are followed by the received ones.
Recv ==
    /\ pc = "idle" /\ client = "open"
    /\ \E n \in 1 .. Len(wire) :
         /\ buf' = LoadSaved \o SubSeq(wire, 1, n)
         /\ wire' = SubSeq(wire, n + 1, Len(wire))
    /\ saved' = NoneSaved
    /\ pc' = "parse"
    /\ UNCHANGED <<client, effects, expected, inputsLeft, sessionsLeft>>

\* The client is gone.
RecvFails ==
    /\ pc = "idle" /\ client = "open"
    /\ saved' = NoneSaved
    /\ KickClient
    /\ UNCHANGED <<effects, expected, inputsLeft, sessionsLeft>>

\* A byte before the next CR or IAC is typed.
Text ==
    /\ pc = "parse" /\ buf # <<>> /\ Head(buf) \notin {"CR", "IAC"}
    /\ effects' = Append(effects, Write(Head(buf)))
    /\ buf' = Tail(buf)
    /\ UNCHANGED <<pc, client, saved, wire, expected, inputsLeft, sessionsLeft>>

AtCommand == pc = "parse" /\ buf # <<>> /\ Head(buf) \in {"CR", "IAC"}

Command ==
    /\ AtCommand /\ CommandEnd(buf) > 0
    /\ effects' = effects \o CommandEffects(buf)
    /\ buf' = SubSeq(buf, CommandEnd(buf), Len(buf))
    /\ UNCHANGED <<pc, client, saved, wire, expected, inputsLeft, sessionsLeft>>

\* Mutated form of CommandSaved: the command that is not complete is dropped.
CommandDropped ==
    /\ AtCommand /\ CommandEnd(buf) = SAVE
    /\ buf' = <<>> /\ pc' = "idle"
    /\ UNCHANGED <<client, saved, effects, wire, expected, inputsLeft, sessionsLeft>>

\* The end of `saved` takes the command that is not complete.
CommandSaved ==
    /\ AtCommand /\ CommandEnd(buf) = SAVE
    /\ saved' = [i \in 1 .. SavedSize |->
                    IF i > SavedSize - Len(buf) THEN buf[i - (SavedSize - Len(buf))] ELSE saved[i]]
    /\ buf' = <<>>
    /\ pc' = IF Len(buf) > SavedSize THEN "overrun" ELSE "idle"
    /\ UNCHANGED <<client, effects, wire, expected, inputsLeft, sessionsLeft>>

CommandKicks ==
    /\ AtCommand /\ CommandEnd(buf) = KICK
    /\ effects' = Append(effects, Kicked)
    /\ KickClient
    /\ UNCHANGED <<saved, expected, inputsLeft, sessionsLeft>>

\* The terminal does not take a write.
WriteFails ==
    /\ pc = "parse" /\ buf # <<>>
    /\ Head(buf) \in {"CR", "IAC"} => CommandEnd(buf) > 0 /\ CommandEffects(buf) # <<>>
    /\ KickClient
    /\ UNCHANGED <<saved, effects, expected, inputsLeft, sessionsLeft>>

Done ==
    /\ pc = "parse" /\ buf = <<>>
    /\ pc' = "idle"
    /\ UNCHANGED <<client, saved, buf, effects, wire, expected, inputsLeft, sessionsLeft>>

Parse == Text \/ Command \/ CommandSaved \/ CommandKicks \/ WriteFails \/ Done

OnClientFd == Recv \/ RecvFails \/ Parse

-----------------------------------------------------------------------------
(***************************************************************************)
(* The client.                                                             *)
(***************************************************************************)

\* After what kicks the client nothing counts.
Doomed == expected # <<>> /\ expected[Len(expected)] = Kicked

Send ==
    /\ client = "open" /\ inputsLeft > 0
    /\ \E in \in Inputs :
         /\ wire' = wire \o in.bytes
         /\ expected' = IF Doomed THEN expected ELSE expected \o in.means
    /\ inputsLeft' = inputsLeft - 1
    /\ UNCHANGED <<pc, client, saved, buf, effects, sessionsLeft>>

Next == OnListenFd \/ OnPtMasterFdFails \/ OnClientFd \/ Send

\* The event loop serves a client that sent something.
Fairness == WF_vars(Recv) /\ WF_vars(Parse)

Spec == Init /\ [][Next]_vars /\ Fairness

-----------------------------------------------------------------------------
(***************************************************************************)
(* Properties.                                                             *)
(***************************************************************************)

\* The state has its types.
TypeOK ==
    /\ pc \in {"idle", "parse", "overrun"}
    /\ client \in {"none", "open"}
    /\ saved \in [1 .. SavedSize -> Bytes]
    /\ buf \in Seq(Bytes) /\ wire \in Seq(Bytes)
    /\ inputsLeft \in 0 .. MaxInputs /\ sessionsLeft \in 0 .. MaxSessions

\* However the bytes are cut, and whatever the client before left behind, the parser
\* does what was sent, in order, and nothing else; a client is kicked for garbage only
\* where it sent garbage.
SessionDecoded ==
    /\ Len(effects) <= Len(expected)
    /\ effects = SubSeq(expected, 1, Len(effects))

\* "Worst case command is: IAC SB NAWS IAC 255 IAC 255 IAC 255 IAC 255 IAC SE": every
\* incomplete command fits `saved` (the assertion of _telnetServer_getByteOrSave).
SavedFits == pc # "overrun"

\* What a client sent is done, unless the connection ends.
EventuallyDecoded ==
    client = "open" /\ effects # expected ~> effects = expected \/ client = "none"
=============================================================================
