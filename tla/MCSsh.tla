------------------------------- MODULE MCSsh --------------------------------
(* The instance of SshClient for TLC: an honest server, and ones that break *)
(* the protocol in one packet.                                              *)
EXTENDS SshClient

Packet(message, size, encrypted, after) ==
    [message |-> message, size |-> size, padding |-> 1, encrypted |-> encrypted, macValid |-> TRUE, after |-> after,
     at |-> 0]

\* One after the other, behind the identification line.
InOrder(s) ==
    [k \in DOMAIN s |->
        [s[k] EXCEPT !.at = HelloSize + MapThenSumSet(LAMBDA j : PacketSize(s[j]), 1 .. k - 1)]]

MCHonest == <<Packet("kexinit", 4, FALSE, 0), Packet("reply", 6, FALSE, 2), Packet("newkeys", 4, FALSE, 2),
              Packet("accept", 4, TRUE, 4)>>

\* A packet of a size that is not aligned or too large, without a message, with the opcode
\* of another, encrypted too early or too late, or not authentic.
MCScripts ==
    {InOrder(s) : s \in
    {MCHonest} \cup
    UNION {{[MCHonest EXCEPT ![k].size = 5], [MCHonest EXCEPT ![k].size = 12], [MCHonest EXCEPT ![k].padding = 5],
            [MCHonest EXCEPT ![k].message = "other"]} : k \in 1 .. 4}
    \cup {[MCHonest EXCEPT ![4].macValid = FALSE], [MCHonest EXCEPT ![4].encrypted = FALSE],
          [MCHonest EXCEPT ![3].encrypted = TRUE]}}
=============================================================================
