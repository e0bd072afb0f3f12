-------------------------------- MODULE Ksmb ---------------------------------
(***************************************************************************)
(* The user space side of the kernel's SMB server (router/router/ksmb.c)   *)
(* over a netlink socket (router/router/netlink/netlink.c).                *)
(*                                                                         *)
(* The kernel's threads, one for each SMB client, put their requests in    *)
(* the socket's queue and wait.  The router answers with netlink_talk,     *)
(* which sends the answer and then takes one datagram from the same queue  *)
(* as the kernel's acknowledgement, whatever that datagram is.  The kernel *)
(* wakes the SMB client before it queues the acknowledgement, so requests  *)
(* may get in between.                                                     *)
(***************************************************************************)
EXTENDS Naturals, Sequences

CONSTANTS
    Clients,        \* SMB clients, each served by a thread of the kernel
    MaxRequests,    \* bound on the requests and notifications of the kernel
    MaxQueue        \* bound on the datagrams waiting in the socket

ASSUME KsmbAssumption == MaxRequests \in Nat /\ MaxQueue \in Nat

\* KSMBD_EVENT_*_REQUEST that wait for an answer, and those that do not.
RequestKinds      == {"login", "share", "tree"}
NotificationKinds == {"logout"}

Requests      == [kind : RequestKinds, handle : Clients]
Notifications == [kind : NotificationKinds, handle : Clients]
Ack           == [kind |-> "ack"]
NoRequest     == [kind |-> "none"]

VARIABLES
    stage,             \* what ksmb_onNetlinkFd does next, "wait" when the event loop waits
    current,        \* the request that is being answered
    queue,          \* the datagrams in ksmb.netlinkFd
    waiting,        \* the kernel: clients whose thread waits for an answer
    \* What happened, for the properties only.
    posted,         \* requests and notifications so far
    answered,       \* requests that were answered
    lost,           \* requests that were taken for an acknowledgement
    crowded         \* a request was posted while another one was not yet done with

ksmbVars == <<stage, current, queue, waiting, posted, answered, lost, crowded>>

\* After ksmb_init: the server is started and that was acknowledged.
KsmbInit ==
    /\ stage = "wait" /\ current = NoRequest
    /\ queue = <<>> /\ waiting = {}
    /\ posted = 0 /\ answered = 0 /\ lost = 0 /\ crowded = FALSE

-----------------------------------------------------------------------------
(***************************************************************************)
(* The kernel.                                                             *)
(***************************************************************************)

Queued(d) == \E i \in 1 .. Len(queue) : queue[i] = d

\* A request is being handled or waits to be.
Busy == stage # "wait" \/ \E r \in Requests : Queued(r)

Post ==
    /\ posted < MaxRequests /\ Len(queue) < MaxQueue
    /\ \E c \in Clients \ waiting, k \in RequestKinds :
         /\ queue' = Append(queue, [kind |-> k, handle |-> c])
         /\ waiting' = waiting \cup {c}
    /\ posted' = posted + 1
    /\ crowded' = (crowded \/ Busy)
    /\ UNCHANGED <<stage, current, answered, lost>>

Notify ==
    /\ posted < MaxRequests /\ Len(queue) < MaxQueue
    /\ \E n \in Notifications : n.handle \notin waiting /\ queue' = Append(queue, n)
    /\ posted' = posted + 1
    /\ UNCHANGED <<stage, current, waiting, answered, lost, crowded>>

\* The thread stops waiting for an answer.
GiveUp ==
    /\ \E c \in waiting : waiting' = waiting \ {c}
    /\ UNCHANGED <<stage, current, queue, posted, answered, lost, crowded>>

\* sendmsg in the kernel queues the acknowledgement before it returns.
Acknowledge ==
    /\ stage = "acknowledge"
    /\ queue' = Append(queue, Ack)
    /\ stage' = "talk"
    /\ UNCHANGED <<current, waiting, posted, answered, lost, crowded>>

-----------------------------------------------------------------------------
(***************************************************************************)
(* ksmb_onNetlinkFd.                                                       *)
(***************************************************************************)

\* The first netlink_receive and the switch, whose default case ignores notifications
\* and acknowledgements (their nla_type is the upper half of a length: 0).
OnNetlinkFd ==
    /\ stage = "wait" /\ queue # <<>>
    /\ queue' = Tail(queue)
    /\ IF Head(queue) \in Requests
         THEN current' = Head(queue) /\ stage' = "send"
         ELSE UNCHANGED <<current, stage>>
    /\ UNCHANGED <<waiting, posted, answered, lost, crowded>>

\* Mutated form of SendResponse: the answer has no NLM_F_ACK.
SendResponseWithoutAck ==
    /\ stage = "send"
    /\ waiting' = waiting \ {current.handle}
    /\ answered' = answered + 1
    /\ stage' = "talk"
    /\ UNCHANGED <<current, queue, posted, lost, crowded>>

\* netlink_talk's sendmsg: the answer, with the handle of the request, wakes the client
\* if it still waits.
SendResponse ==
    /\ stage = "send"
    /\ waiting' = waiting \ {current.handle}
    /\ answered' = answered + 1
    /\ stage' = "acknowledge"
    /\ UNCHANGED <<current, queue, posted, lost, crowded>>

\* Mutated form of TalkReceive: datagrams are received up to an acknowledgement.
TalkReceivesUpToAck ==
    /\ stage = "talk" /\ Queued(Ack)
    /\ LET n == CHOOSE i \in 1 .. Len(queue) :
                    queue[i] = Ack /\ \A j \in 1 .. i - 1 : queue[j] # Ack
       IN  /\ queue' = SubSeq(queue, n + 1, Len(queue))
           /\ lost' = lost + Len(SelectSeq(SubSeq(queue, 1, n), LAMBDA d : d \in Requests))
    /\ stage' = "wait" /\ current' = NoRequest
    /\ UNCHANGED <<waiting, posted, answered, crowded>>

\* netlink_talk's netlink_receive takes the first datagram; without one its CHECK aborts.
TalkReceive ==
    /\ stage = "talk"
    /\ current' = NoRequest
    /\ IF queue = <<>> THEN stage' = "aborted" /\ UNCHANGED <<queue, lost>>
       ELSE /\ stage' = "wait"
            /\ queue' = Tail(queue)
            /\ lost' = lost + (IF Head(queue) \in Requests THEN 1 ELSE 0)
    /\ UNCHANGED <<waiting, posted, answered, crowded>>

KsmbNext ==
    \/ Post \/ Notify \/ GiveUp \/ Acknowledge
    \/ OnNetlinkFd \/ SendResponse \/ TalkReceive

KsmbSpec == KsmbInit /\ [][KsmbNext]_ksmbVars

-----------------------------------------------------------------------------
(***************************************************************************)
(* Properties.                                                             *)
(***************************************************************************)

\* The state has its types; in particular only requests are ever answered, never a
\* notification or a left over acknowledgement.
KsmbTypeOK ==
    /\ stage \in {"wait", "send", "acknowledge", "talk", "aborted"}
    /\ current \in Requests \cup {NoRequest}
    /\ queue \in Seq(Requests \cup Notifications \cup {Ack})
    /\ waiting \subseteq Clients
    /\ posted \in 0 .. MaxRequests /\ answered \in Nat /\ lost \in Nat
    /\ crowded \in BOOLEAN

\* netlink_receive never finds the socket empty, which its CHECK on MSG_DONTWAIT's
\* result (netlink.c:8) would make the end of the router.
NeverReceivesNothing == stage # "aborted"

\* netlink_talk loses at most one request for each one that it answers.
LostAtMostHalf == lost <= answered

\* A request is only lost when some request came while another one was not done with,
\* even after notifications and with acknowledgements left over.
NoLossUncrowded == lost > 0 => crowded

\* What netlink_talk loses by taking the next request for its acknowledgement is bounded
\* by what it answers, and is nothing as long as the requests do not overlap.
LossAccounted == LostAtMostHalf /\ NoLossUncrowded

=============================================================================
