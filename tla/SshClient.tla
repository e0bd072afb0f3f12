------------------------------ MODULE SshClient -----------------------------
(***************************************************************************)
(* examples/ssh/client.c: an SSH client up to the start of authentication. *)
(*                                                                         *)
(* The server's bytes arrive in pieces of any size in a circular buffer,   *)
(* which is mapped twice so that a packet never wraps.  A byte names the   *)
(* packet it belongs to and its place in it (packet 0 is the               *)
(* identification line), and whether it was decrypted; what the bytes say  *)
(* is in the record of the packet.  Hashes, keys and signatures are terms. *)
(*                                                                         *)
(* A packet is its size (Align bytes), one byte for the size of its        *)
(* padding, message and padding, and a MAC once encrypted.                 *)
(***************************************************************************)
EXTENDS Integers, Sequences, FiniteSets, FiniteSetsExt

CONSTANTS
    BufferSize,         \* client_MAX_PACKET_SIZE, up to a multiple of the page size
    MaxPacket,          \* _client_MAX_PACKET_SIZE
    Align,              \* 4: of packets, and the size of their size field
    MacSize,            \* poly1305_MAC_SIZE
    HelloSize,          \* of the server's identification line, with \r\n
    HelloLimit,         \* 255
    PrefixSize,         \* of "SSH-2.0-"
    Scripts,            \* what the server may send: sequences of packets
    MaxFailures         \* bound on failed system calls

\* What a packet takes of the stream, and where it ends there.
PacketSize(p) == Align + p.size + (IF p.encrypted THEN MacSize ELSE 0)
End(p) == p.at + PacketSize(p)

\* Sizes are those of the code: aligned, and the largest packet fits the buffer.  The packets
\* of a server follow its line and each other.
ASSUME SshAssumption ==
    /\ BufferSize \in Nat \ {0} /\ Align \in Nat \ {0} /\ MaxPacket \in Nat /\ MacSize \in Nat
    /\ HelloSize \in Nat /\ HelloLimit \in Nat /\ PrefixSize \in Nat /\ MaxFailures \in Nat
    /\ MaxPacket <= BufferSize /\ BufferSize % Align = 0 /\ MacSize % Align = 0
    /\ PrefixSize + 2 <= HelloSize /\ HelloSize <= HelloLimit
    /\ \A s \in Scripts :
          /\ s \in Seq([message : STRING, size : Nat \ {0}, padding : Nat, encrypted : BOOLEAN,
                        macValid : BOOLEAN, after : Nat, at : Nat])
          /\ \A k \in DOMAIN s : s[k].at = IF k = 1 THEN HelloSize ELSE End(s[k - 1])
          /\ \A j, k \in DOMAIN s : j < k => End(s[j]) <= s[k].at

VARIABLES
    phase,              \* what client_connect does, "failed" or "done" at its end; "initFailed"
                        \* after a failure of client_init, "ended" from client_deinit on
    script,             \* the packets of this server
    arrived,            \* bytes of the server that were received
    reads,              \* calls of recvfrom for the identification line
    held,               \* system resources of the client
    inited,             \* calls of client_init that succeeded
    undo,               \* what the cleanup labels or client_deinit still give back, in order
    buffer, bufferPos, receivedSize, nextSize,      \* of struct client
    helloPos,           \* pos in _client_doHello, where received is receivedSize
    receiveSequenceNumber, sendSequenceNumber, encryption,
    exchange,           \* tempHash: the sequence of what was hashed
    sessionId,
    sent,               \* messages of the client, each with the encryption it was sent with
    delivered,          \* packets of the server that a caller was given
    failures

bufferVars == <<arrived, buffer, bufferPos, receivedSize, helloPos>>
sendVars == <<sendSequenceNumber, sent>>
initVars == <<held, inited, undo>>
vars == <<phase, script, reads, initVars, bufferVars, nextSize, receiveSequenceNumber, sendVars, encryption,
          exchange, sessionId, delivered, failures>>

-----------------------------------------------------------------------------
(***************************************************************************)
(* The server: its line, KEXINIT, and the answers to the client's second   *)
(* and fourth message.  It encrypts what follows its NEWKEYS, and cannot   *)
(* read a message that was encrypted with another number than its place.   *)
(***************************************************************************)

\* The packets the server has sent by now.
Released ==
    {k \in DOMAIN script :
        script[k].after <= Len(SelectSeq(sent, LAMBDA m : m.encrypted => m.nonce = 3))}

\* The server has sent the first n bytes of the stream.
Available(n) == n <= HelloSize \/ \E k \in Released : n <= End(script[k])

Byte(k, i) == [packet |-> k, at |-> i, plain |-> FALSE]
Blank == Byte(-1, 0)

\* Byte n of the stream.
StreamByte(n) ==
    IF n <= HelloSize THEN Byte(0, n)
    ELSE LET k == CHOOSE j \in DOMAIN script : script[j].at < n /\ n <= End(script[j])
         IN  Byte(k, n - script[k].at)

CR == Byte(0, HelloSize - 1)
LF == Byte(0, HelloSize)

-----------------------------------------------------------------------------
(***************************************************************************)
(* The buffer.                                                             *)
(***************************************************************************)

At(n) == buffer[n % BufferSize]

\* n bytes of the stream are stored from address on.
Stored(address, n) ==
    [a \in 0 .. BufferSize - 1 |->
        LET i == (a - address) % BufferSize IN IF i < n THEN StreamByte(arrived + i + 1) ELSE buffer[a]]

\* The packet whose size field is at bufferPos, or 0.
Framed ==
    LET first == At(bufferPos)
    IN  IF first.packet \in DOMAIN script
           /\ \A i \in 0 .. Align - 1 : At(bufferPos + i) = Byte(first.packet, i + 1)
        THEN first.packet ELSE 0

\* The size field is read with the key stream of the sequence number, or in plain.
ReadsSizeOf(k) ==
    /\ k # 0
    /\ script[k].encrypted = encryption
    /\ encryption => receiveSequenceNumber = k - 1

Whole(k, size) == \A i \in 0 .. Align + size + MacSize - 1 : At(bufferPos + i) = Byte(k, i + 1)

macSize == IF encryption THEN MacSize ELSE 0

-----------------------------------------------------------------------------
Fail == phase' = "failed"

\* client_init and the start of client_connect, up to sys_connect.
Init ==
    /\ phase = "init" /\ held = {} /\ inited = 0 /\ undo = <<>>
    /\ script \in Scripts
    /\ arrived = 0 /\ reads = 0
    /\ buffer = [a \in 0 .. BufferSize - 1 |-> Blank]
    /\ bufferPos = 0 /\ receivedSize = 0 /\ nextSize = 0 /\ helloPos = 0
    /\ receiveSequenceNumber = 0 /\ sendSequenceNumber = 0
    /\ encryption = FALSE
    /\ exchange = <<>> /\ sessionId = <<>>
    /\ sent = <<>> /\ delivered = <<>> /\ failures = 0

\* The labels at the end of client_init and what is given back from each on: the mapping is
\* removed, then the memory file is closed.
cleanup_bufferMemFd == <<"memfd">>
cleanup_buffer == <<"mapping", "memfd">>

Call(gets, label) == [gets |-> gets, label |-> label]

\* Mutated form of InitCalls: a socket that fails jumps to the wrong label.
InitCallsWrongLabel ==
    <<Call({"memfd"}, <<>>), Call({}, cleanup_bufferMemFd), Call({"mapping"}, cleanup_bufferMemFd),
      Call({}, cleanup_buffer), Call({}, cleanup_buffer), Call({"socket"}, cleanup_bufferMemFd)>>

\* The calls of client_init, what each acquires and where it jumps when it fails: create
\* the memory file and set its size, reserve the addresses of the buffer, map the file there
\* twice, create the socket.
InitCalls ==
    <<Call({"memfd"}, <<>>), Call({}, cleanup_bufferMemFd), Call({"mapping"}, cleanup_bufferMemFd),
      Call({}, cleanup_buffer), Call({}, cleanup_buffer), Call({"socket"}, cleanup_buffer)>>

Initialised == inited = Len(InitCalls)

\* The next call of client_init.
Acquire ==
    /\ phase = "init" /\ ~Initialised
    /\ LET call == InitCalls[inited + 1] IN
       \/ /\ held' = held \cup call.gets
          /\ inited' = inited + 1
          /\ UNCHANGED <<phase, undo, failures>>
       \/ /\ failures < MaxFailures
          /\ failures' = failures + 1
          /\ phase' = "initFailed"
          /\ undo' = call.label
          /\ UNCHANGED <<held, inited>>
    /\ UNCHANGED <<script, reads, bufferVars, nextSize, receiveSequenceNumber, sendVars, encryption, exchange,
                   sessionId, delivered>>

\* munmap or close of what comes next.
Release ==
    /\ undo # <<>>
    /\ held' = held \ {Head(undo)}
    /\ undo' = Tail(undo)
    /\ UNCHANGED <<phase, script, reads, inited, bufferVars, nextSize, receiveSequenceNumber, sendVars, encryption,
                   exchange, sessionId, delivered, failures>>

\* sys_connect, then the first half of _client_doHello sends the client's line.
Connect ==
    /\ phase = "init" /\ Initialised
    /\ phase' = "hello"
    /\ exchange' = <<"clientLine">>
    /\ UNCHANGED <<script, reads, initVars, bufferVars, nextSize, receiveSequenceNumber, sendVars, encryption,
                   sessionId, delivered, failures>>

-----------------------------------------------------------------------------
(***************************************************************************)
(* client_sendMessage                                                      *)
(***************************************************************************)

\* Mutated form of SendMessage: the sequence number is only counted once encrypted.
SendMessageUncounted(message) ==
    /\ sent' = Append(sent, [message |-> message, encrypted |-> encryption, nonce |-> sendSequenceNumber])
    /\ sendSequenceNumber' = IF encryption THEN sendSequenceNumber + 1 ELSE sendSequenceNumber

SendMessage(message) ==
    /\ sent' = Append(sent, [message |-> message, encrypted |-> encryption, nonce |-> sendSequenceNumber])
    /\ sendSequenceNumber' = sendSequenceNumber + 1

\* A message is sent and the caller goes on, or sendto does not take all of it.
SendThen(message, next) ==
    \/ phase' = next /\ SendMessage(message) /\ UNCHANGED failures
    \/ failures < MaxFailures /\ failures' = failures + 1 /\ Fail /\ UNCHANGED sendVars

-----------------------------------------------------------------------------
(***************************************************************************)
(* _client_doHello                                                         *)
(***************************************************************************)

\* The first \r at or after helloPos with a byte behind it, or -1.
LineEnd(buf, received) ==
    LET end   == IF received > HelloLimit THEN HelloLimit ELSE received
        found == {q \in helloPos .. end - 2 : buf[q] = CR}
    IN  IF found = {} THEN -1 ELSE Min(found)

AlignForward(x) == ((x + Align - 1) \div Align) * Align

\* Mutated form of Aligned: the position is aligned and the rest of the buffer left in place.
AlignedInPlace(buf, from, size) == buf

\* The rest of the buffer is moved up to an aligned place.
Aligned(buf, from, size) ==
    LET to == AlignForward(from)
    IN  [a \in DOMAIN buf |->
            LET i == (a - to) % BufferSize IN IF i < size THEN buf[(from + i) % BufferSize] ELSE buf[a]]

\* The line ends at q: it is hashed, and KEXINIT sent (_client_sendKeyExchangeInit).
HelloDone(buf, received, q) ==
    IF buf[q + 1] # LF \/ q < PrefixSize \/ \E i \in 0 .. PrefixSize - 1 : buf[i] # Byte(0, i + 1)
    THEN /\ Fail
         /\ buffer' = buf /\ receivedSize' = received
         /\ UNCHANGED <<bufferPos, helloPos, exchange, sendVars, failures>>
    ELSE /\ exchange' = exchange \o <<[i \in 1 .. q |-> buf[i - 1]], "clientKexInit">>
         /\ receivedSize' = received - (q + 2)
         /\ bufferPos' = AlignForward(q + 2)
         /\ buffer' = Aligned(buf, q + 2, received - (q + 2))
         /\ helloPos' = q
         /\ SendThen("kexinit", "kexinit")

\* A turn of the loop; the bytes are stored from pos on.
HelloReceive(n) ==
    /\ phase = "hello"
    /\ Available(arrived + n) /\ n <= BufferSize - receivedSize
    /\ arrived' = arrived + n
    /\ reads' = reads + 1
    /\ LET buf == Stored(helloPos, n)
           received == receivedSize + n
           q == LineEnd(buf, received)
       IN  IF q >= 0 THEN HelloDone(buf, received, q)
           ELSE /\ buffer' = buf /\ receivedSize' = received
                /\ helloPos' = Max({helloPos, Min({received, HelloLimit}) - 1})
                /\ UNCHANGED <<phase, bufferPos, exchange, sendVars, failures>>
    /\ UNCHANGED <<script, initVars, nextSize, receiveSequenceNumber, encryption, sessionId, delivered>>

-----------------------------------------------------------------------------
(***************************************************************************)
(* client_waitForMessage: peek, and receive while no packet is complete.   *)
(***************************************************************************)

Waiting == phase \in {"kexinit", "reply", "newkeys", "accept"}

\* client_peekMessage returned 0: the size or the packet is not complete.
NeedsMore ==
    \/ nextSize = 0 /\ receivedSize < Align
    \/ nextSize > 0 /\ receivedSize < Align + nextSize + macSize

\* client_receive
Receive(n) ==
    /\ Waiting /\ NeedsMore
    /\ Available(arrived + n) /\ n <= BufferSize - receivedSize
    /\ arrived' = arrived + n
    /\ buffer' = Stored(bufferPos + receivedSize, n)
    /\ receivedSize' = receivedSize + n
    /\ UNCHANGED <<phase, script, reads, initVars, bufferPos, helloPos, nextSize, receiveSequenceNumber, sendVars,
                   encryption, exchange, sessionId, delivered, failures>>

\* connect, the sendto of the client's line or a recvfrom fails, or the server closed the
\* connection.
InputOutputFails ==
    /\ (Waiting /\ NeedsMore) \/ phase = "hello" \/ (phase = "init" /\ Initialised)
    /\ failures < MaxFailures
    /\ failures' = failures + 1
    /\ Fail
    /\ UNCHANGED <<script, reads, initVars, bufferVars, nextSize, receiveSequenceNumber, sendVars, encryption,
                   exchange, sessionId, delivered>>

\* Sizes that client_peekMessage accepts.
SizeAccepted(size) == size <= MaxPacket - Align - macSize /\ size % Align = 0

\* The first half of client_peekMessage.  Bytes that are no size field, or one that was
\* encrypted for another place, may mean a size that is accepted or one that is not.
PeekSize ==
    /\ Waiting /\ nextSize = 0 /\ receivedSize >= Align
    /\ LET k == Framed IN
       \E size \in IF ReadsSizeOf(k) THEN {script[k].size} ELSE {Align, MaxPacket} :
          IF SizeAccepted(size)
          THEN nextSize' = size /\ UNCHANGED phase
          ELSE Fail /\ UNCHANGED nextSize
    /\ UNCHANGED <<script, reads, initVars, bufferVars, receiveSequenceNumber, sendVars, encryption, exchange, sessionId,
                   delivered, failures>>

\* Mutated form of PacketAccepted: the MAC is not looked at.
PacketAcceptedUnverified(k) ==
    /\ k # 0 /\ script[k].size = nextSize
    /\ script[k].encrypted = encryption
    /\ nextSize - script[k].padding - 1 > 0

\* The second half, when the packet is complete: its MAC is verified, and a padding that
\* leaves no message is an error.
PacketAccepted(k) ==
    /\ k # 0 /\ script[k].size = nextSize
    /\ script[k].encrypted = encryption
    /\ encryption => ReadsSizeOf(k) /\ Whole(k, nextSize) /\ script[k].macValid
    /\ nextSize - script[k].padding - 1 > 0

\* The packet is decrypted in place, except its size.
Decrypted ==
    [a \in DOMAIN buffer |->
        LET i == (a - bufferPos) % BufferSize
        IN  IF encryption /\ i >= Align /\ i < Align + nextSize
            THEN [buffer[a] EXCEPT !.plain = TRUE] ELSE buffer[a]]

\* client_ackMessage
AckMessage ==
    LET totalSize == nextSize + Align + macSize
    IN  /\ bufferPos' = (bufferPos + totalSize) % BufferSize
        /\ receivedSize' = receivedSize - totalSize
        /\ nextSize' = 0

-----------------------------------------------------------------------------
(***************************************************************************)
(* What client_connect does with the messages.                             *)
(***************************************************************************)

keyVars == <<exchange, sessionId, encryption>>

\* The exchange hash of the server; how its parts are encoded is left out.
ServerHash == <<"clientLine", [i \in 1 .. HelloSize - 2 |-> Byte(0, i)], "clientKexInit", "serverKexInit",
                "hostKey", "clientPublic", "serverPublic", "sharedSecret">>

\* The rest of the exchange hash, after both KEXINIT.
Finished(hash) == hash \o <<"hostKey", "clientPublic", "serverPublic", "sharedSecret">>

\* _client_doKeyExchange on KEXINIT: the lists are parsed, and the public key sent.
DoKexInit(k) ==
    IF script[k].message # "kexinit" THEN Fail /\ UNCHANGED <<keyVars, sendVars, failures>>
    ELSE /\ exchange' = Append(exchange, "serverKexInit")
         /\ SendThen("ecdhInit", "reply")
         /\ UNCHANGED <<sessionId, encryption>>

\* The reply: the exchange hash is completed and the signature of it verified.
DoReply(k) ==
    IF script[k].message # "reply" \/ Finished(exchange) # ServerHash
    THEN Fail /\ UNCHANGED <<keyVars, sendVars, failures>>
    ELSE /\ exchange' = Finished(exchange)
         /\ sessionId' = IF encryption THEN sessionId ELSE Finished(exchange)
         /\ SendThen("newkeys", "newkeys")
         /\ UNCHANGED encryption

\* The server's NEWKEYS: both directions are encrypted from here on.
DoNewKeys(k) ==
    /\ UNCHANGED <<exchange, sendVars, sessionId, failures>>
    /\ IF script[k].message # "newkeys" THEN Fail /\ UNCHANGED encryption
       ELSE phase' = "request" /\ encryption' = TRUE

\* _client_doServiceRequest
ServiceRequest ==
    /\ phase = "request"
    /\ SendThen("serviceRequest", "accept")
    /\ UNCHANGED <<script, reads, initVars, bufferVars, nextSize, receiveSequenceNumber, keyVars, delivered>>

DoAccept(k) ==
    /\ phase' = IF script[k].message = "accept" THEN "done" ELSE "failed"
    /\ UNCHANGED <<keyVars, sendVars, failures>>

\* client_nextMessage gives the caller the message, which handles it.
NextMessage ==
    /\ Waiting /\ nextSize > 0 /\ ~NeedsMore
    /\ LET k == Framed IN
       IF ~PacketAccepted(k)
       THEN /\ Fail
            /\ UNCHANGED <<bufferVars, nextSize, receiveSequenceNumber, delivered, keyVars, sendVars, failures>>
       ELSE /\ receiveSequenceNumber' = receiveSequenceNumber + 1
            /\ delivered' = Append(delivered, k)
            /\ buffer' = Decrypted
            /\ AckMessage
            /\ UNCHANGED <<arrived, helloPos>>
            /\ CASE phase = "kexinit" -> DoKexInit(k)
                 [] phase = "reply"   -> DoReply(k)
                 [] phase = "newkeys" -> DoNewKeys(k)
                 [] phase = "accept"  -> DoAccept(k)
    /\ UNCHANGED <<script, reads, initVars>>

\* ssh.c: client_deinit after a connect that succeeded.
Deinit ==
    /\ phase = "done"
    /\ phase' = "ended"
    /\ undo' = <<"socket", "mapping", "memfd">>
    /\ UNCHANGED <<script, reads, held, inited, bufferVars, nextSize, receiveSequenceNumber, sendVars, keyVars,
                   delivered, failures>>

\* After one that failed the process ends, and the kernel takes back what it has.
Exit ==
    /\ phase = "failed" /\ held # {}
    /\ held' = {}
    /\ UNCHANGED <<phase, script, reads, inited, undo, bufferVars, nextSize, receiveSequenceNumber, sendVars, keyVars,
                   delivered, failures>>

Next ==
    \/ Acquire \/ Release \/ Connect \/ InputOutputFails
    \/ \E n \in 1 .. BufferSize : HelloReceive(n) \/ Receive(n)
    \/ PeekSize \/ NextMessage \/ ServiceRequest \/ Deinit \/ Exit

\* The kernel delivers what the server sent, and the client runs.
Fairness ==
    /\ WF_vars(Acquire) /\ WF_vars(Release) /\ WF_vars(Connect) /\ WF_vars(PeekSize) /\ WF_vars(NextMessage)
    /\ WF_vars(ServiceRequest) /\ WF_vars(Deinit) /\ WF_vars(Exit)
    /\ WF_vars(\E n \in 1 .. BufferSize : HelloReceive(n) \/ Receive(n))

Spec == Init /\ [][Next]_vars /\ Fairness

-----------------------------------------------------------------------------
\* A server that follows the protocol.
Honest ==
    /\ [k \in DOMAIN script |-> script[k].message] = <<"kexinit", "reply", "newkeys", "accept">>
    /\ \A k \in DOMAIN script :
          /\ PacketSize(script[k]) <= MaxPacket /\ script[k].size % Align = 0
          /\ script[k].padding + 1 < script[k].size
          /\ script[k].macValid /\ (script[k].encrypted <=> k = 4)

\* The bytes client_peekMessage has still to look at are the end of what arrived, in order
\* and once, wherever the reads ended and however often the buffer wrapped; they are
\* aligned, and a read that is needed has room in the buffer.  (For an identification line
\* that came in one read.)
BufferIsTail ==
    Waiting /\ reads = 1 =>
        /\ bufferPos % Align = 0
        /\ NeedsMore => receivedSize < BufferSize
        /\ \A i \in 0 .. receivedSize - 1 : At(bufferPos + i) = StreamByte(arrived - receivedSize + i + 1)

\* client_connect returns 0 only when the server's four messages were handled in order and
\* those after its NEWKEYS were authentic, both sides hashed the same exchange, and the
\* client has encrypted what it sent after its NEWKEYS and nothing before.
ConnectedMeansAgreed ==
    phase = "done" =>
        /\ delivered = <<1, 2, 3, 4>>
        /\ \A k \in 1 .. 4 : script[k].encrypted <=> k = 4
        /\ script[4].macValid
        /\ exchange = ServerHash /\ sessionId = ServerHash
        /\ \A k \in DOMAIN sent : sent[k].encrypted <=> k = 4

\* Whichever call of client_init fails, the labels from the one it jumps to give back exactly
\* what the calls before it acquired, each once, and client_deinit gives back all of it: at
\* every point of the cleanup what is held is what the rest of it closes or unmaps.
GivesBackWhatItHolds ==
    phase \in {"initFailed", "ended"} =>
        /\ held = {undo[i] : i \in DOMAIN undo}
        /\ \A i, j \in DOMAIN undo : undo[i] = undo[j] => i = j

\* A server that follows the protocol, and whose identification line arrives in one read,
\* is connected to whatever the sizes of the later reads, unless a system call fails.
HonestServerConnects == Honest => <>(phase = "done" \/ reads > 1 \/ failures > 0)

\* The loop of _client_doHello reads until it has the server's identification line: a server
\* that follows the protocol is not refused when the line arrives in pieces.
LineInPieces == Honest /\ failures = 0 => phase # "failed"
=============================================================================
