----------------------------- MODULE X11Window -----------------------------
(***************************************************************************)
(* The window on an X server: x11Client.c, the connection and its circular *)
(* buffer, and window_x11.c, which sends eleven requests, waits for ten    *)
(* replies in order, and then handles events until the window is closed.   *)
(*                                                                         *)
(* Sizes are counted in units of 16 bytes, so that a read may end inside a *)
(* message's 32 byte header.  The buffer's page is mapped twice in a row,  *)
(* which is what the remainders by PAGE stand for.  The reply with the     *)
(* keyboard map may be larger than the buffer.                             *)
(***************************************************************************)
EXTENDS Egl

CONSTANTS
  PAGE,            \* x11Client_PAGE_SIZE
  LONGEST,         \* the longest size that does not overflow an int32_t
  KeyboardSizes,   \* the sizes the keyboard map's reply may have
  MaxInputs        \* bound: events the user and the window manager cause

HEADER == 2

ASSUME X11Assumption ==
  /\ PAGE \in Nat \ {0} /\ LONGEST \in Nat
  /\ KeyboardSizes \subseteq {n \in Nat : n >= HEADER} /\ MaxInputs \in Nat

NoUnit == <<>>

VARIABLES
  wire,            \* units the server has sent and the client has not read
  buffer, bufferPos, receivedSize,
  nextSequenceNumber,
  keyboardMap,     \* the units copied into the mapping
  totalRead,       \* of a big keyboard map
  requests,        \* sent by the client, not yet carried out by the server
  server,          \* what the server has set for this client
  pointerGrabbed,
  inputs           \* events caused so far

x11Vars == <<wire, buffer, bufferPos, receivedSize, nextSequenceNumber, keyboardMap,
             totalRead, requests, server, pointerGrabbed, inputs>>
bufferVars == <<buffer, bufferPos, receivedSize>>

\* A message of the server, and its units on the wire.
Message(type, seq, size) == [type |-> type, seq |-> seq, size |-> size]
Units(m) == [k \in 1 .. m.size |-> <<m, k - 1>>]

X11Init ==
  /\ wire = <<>>
  /\ buffer = [k \in 0 .. PAGE - 1 |-> NoUnit] /\ bufferPos = 0 /\ receivedSize = 0
  /\ nextSequenceNumber = 2 /\ keyboardMap = <<>> /\ totalRead = 0
  /\ requests = <<>>
  /\ server = [grabbed |-> FALSE, hidden |-> 0, selected |-> FALSE, mapped |-> FALSE]
  /\ pointerGrabbed = FALSE
  /\ inputs = 0

-----------------------------------------------------------------------------
(* x11Client.c                                                             *)

Least(a, b) == IF a < b THEN a ELSE b

\* Store n units behind what was received.
Stored(n) == [k \in 0 .. PAGE - 1 |->
                LET behind == (k - bufferPos - receivedSize) % PAGE
                IN IF behind < n THEN wire[behind + 1] ELSE buffer[k]]

\* A receive that takes the whole page for free: not in the code.
x11Client_receiveAll(next) ==
  /\ \E n \in 1 .. Least(PAGE, Len(wire)) :
       /\ buffer' = Stored(n)
       /\ receivedSize' = Least(PAGE, receivedSize + n)
       /\ wire' = SubSeq(wire, n + 1, Len(wire))
  /\ pc' = next
  /\ UNCHANGED <<held, badRelease, bufferPos, nextSequenceNumber, keyboardMap, totalRead,
                 requests, server, pointerGrabbed, inputs>>

x11Client_receive(next) ==
  /\ \E n \in 1 .. Least(PAGE - receivedSize, Len(wire)) :
       /\ buffer' = Stored(n)
       /\ receivedSize' = receivedSize + n
       /\ wire' = SubSeq(wire, n + 1, Len(wire))
  /\ pc' = next
  /\ UNCHANGED <<held, badRelease, bufferPos, nextSequenceNumber, keyboardMap, totalRead,
                 requests, server, pointerGrabbed, inputs>>

\* The message at the buffer's position.
generic == buffer[bufferPos][1]

\* Its size, 0 if it is not complete or its size would overflow, negated if it does not
\* fit the buffer.
x11Client_nextMessage ==
  IF receivedSize < HEADER THEN 0
  ELSE IF generic.type \notin {"reply", "motion"} THEN HEADER
  ELSE IF generic.size > LONGEST THEN 0
  ELSE IF generic.size > PAGE THEN -generic.size
  ELSE IF receivedSize >= generic.size THEN generic.size
  ELSE 0

x11Client_ackMessage(size) ==
  /\ bufferPos' = (bufferPos + size) % PAGE
  /\ receivedSize' = receivedSize - size
  /\ UNCHANGED buffer

\* Memory file, double mapping, socket and connection, set up response: a
\* failure gives back what is there, the latest first.
x11Client_deinit == <<"setupResponse", "socket", "buffer", "memFd">>

x11Client_init(next, undone, failed) ==
  LET Undo(n) == SubSeq(x11Client_deinit, n, 4) \o undone IN
  \/ Attempt("x11_memfd", {"memFd"}, "x11_map", undone, failed)
  \/ Attempt("x11_map", {"buffer"}, "x11_socket", Undo(4), failed)
  \/ Attempt("x11_socket", {"socket"}, "x11_connect", Undo(3), failed)
  \/ Attempt("x11_connect", {}, "x11_response", Undo(2), failed)
  \/ Attempt("x11_response", {"setupResponse"}, "x11_accepted", Undo(2), failed)
  \/ Attempt("x11_accepted", {}, next, Undo(1), failed)

-----------------------------------------------------------------------------
(* window_x11_setup                                                        *)

KEYBOARD == 10
LAST == 11

\* External: the server's answers to the eleven requests: replies in order,
\* with an event or an error possibly among them; an extension that is
\* absent is a reply under the negated number.
ReplySize(seq, keyboard) ==
  CASE seq = KEYBOARD -> keyboard [] seq = LAST -> HEADER + 1 [] OTHER -> HEADER

AnswerTo(seq, keyboard, at, what) ==
  LET reply == Units(Message("reply", seq, ReplySize(seq, keyboard)))
  IN IF at # seq \/ what = "none" THEN reply
     ELSE IF what = "absent" THEN Units(Message("reply", -seq, HEADER))
     ELSE Units(Message(what, 0, HEADER)) \o reply

Answers(keyboard, at, what) ==
  LET upTo[seq \in 1 .. LAST] ==
        IF seq = 1 THEN <<>> ELSE upTo[seq - 1] \o AnswerTo(seq, keyboard, at, what)
  IN upTo[LAST]

\* The requests go out in one send; a failure returns -1.
SendSetup ==
  /\ pc = "x11_setup" /\ pc' = "x11_wait"
  /\ nextSequenceNumber' = 2
  /\ \E keyboard \in KeyboardSizes, at \in 2 .. LAST, what \in {"none", "event", "error", "absent"} :
       /\ what = "absent" => at \in {2, 3}
       /\ wire' = Answers(keyboard, at, what)
  /\ UNCHANGED <<held, badRelease, bufferVars, keyboardMap, totalRead, requests, server,
                 pointerGrabbed, inputs>>

SetupResources == x11Client_deinit \o egl_destroyContext

\* Every failure of the set up: window_x11_init gives back what it knows of.
\* The connection and what it had in its buffer are gone with it.
SetupFails(here) ==
  /\ GivesBack(here, SetupResources, "gbm_card")
  /\ wire' = <<>> /\ receivedSize' = 0 /\ bufferPos' = 0
  /\ buffer' = [k \in 0 .. PAGE - 1 |-> NoUnit]
  /\ keyboardMap' = <<>> /\ totalRead' = 0
  /\ UNCHANGED <<nextSequenceNumber, requests, server, pointerGrabbed, inputs>>

\* Read more, or the connection ends: also when the buffer is full and no message is found,
\* and 0 bytes are asked for.
SetupReceive ==
  /\ pc = "x11_wait" /\ x11Client_nextMessage = 0
  /\ x11Client_receive("x11_wait")

SetupReceiveFails == pc = "x11_wait" /\ x11Client_nextMessage = 0 /\ SetupFails("x11_wait")

\* Too big, an error, a reply out of order, an extension that is absent.
SetupRefuses ==
  LET msgSize == x11Client_nextMessage IN
  /\ pc = "x11_wait" /\ msgSize # 0
  /\ \/ msgSize < 0 /\ nextSequenceNumber # KEYBOARD
     \/ generic.type = "error"
     \/ generic.type = "reply" /\ generic.seq # nextSequenceNumber
  /\ SetupFails("x11_wait")

Accepted ==
  /\ pc = "x11_wait"
  /\ x11Client_nextMessage # 0 /\ (x11Client_nextMessage < 0 => nextSequenceNumber = KEYBOARD)
  /\ generic.type = "reply" /\ generic.seq = nextSequenceNumber

\* An event, or a reply whose value is stored.
SetupMessage ==
  LET msgSize == x11Client_nextMessage IN
  /\ \/ pc = "x11_wait" /\ msgSize > 0 /\ generic.type = "event"
        /\ UNCHANGED <<pc, nextSequenceNumber>>
     \/ Accepted /\ nextSequenceNumber \notin {KEYBOARD, LAST}
        /\ nextSequenceNumber' = nextSequenceNumber + 1 /\ UNCHANGED pc
     \/ Accepted /\ nextSequenceNumber = LAST
        /\ pc' = "surface" /\ UNCHANGED nextSequenceNumber
  /\ x11Client_ackMessage(msgSize)
  /\ UNCHANGED <<held, badRelease, wire, keyboardMap, totalRead, requests, server,
                 pointerGrabbed, inputs>>

\* The keyboard map: memory for all of it, then, if it is big, the rest
\* straight from the socket.
MapKeyboard ==
  /\ Accepted /\ nextSequenceNumber = KEYBOARD
  /\ keyboardMap' = [k \in 1 .. generic.size |-> NoUnit]
  /\ totalRead' = IF x11Client_nextMessage < 0 THEN receivedSize ELSE generic.size
  /\ Gets("x11_wait", {"keyboardMap"}, "x11_keyboard")
  /\ UNCHANGED <<wire, bufferVars, nextSequenceNumber, requests, server, pointerGrabbed, inputs>>

MapKeyboardFails ==
  Accepted /\ nextSequenceNumber = KEYBOARD /\ SetupFails("x11_wait")

ReadKeyboard ==
  /\ pc = "x11_keyboard" /\ totalRead < Len(keyboardMap)
  /\ \E n \in 1 .. Least(Len(keyboardMap) - totalRead, Len(wire)) :
       /\ keyboardMap' = [k \in DOMAIN keyboardMap |->
                            IF k > totalRead /\ k <= totalRead + n THEN wire[k - totalRead]
                            ELSE keyboardMap[k]]
       /\ totalRead' = totalRead + n
       /\ wire' = SubSeq(wire, n + 1, Len(wire))
  /\ UNCHANGED <<eglVars, bufferVars, nextSequenceNumber, requests, server, pointerGrabbed,
                 inputs>>

ReadKeyboardFails ==
  pc = "x11_keyboard" /\ totalRead < Len(keyboardMap) /\ SetupFails("x11_keyboard")

\* The part in the buffer is copied last, and only that part is acknowledged.
CopyKeyboard ==
  LET msgSize == IF Len(keyboardMap) > PAGE THEN receivedSize ELSE Len(keyboardMap) IN
  /\ pc = "x11_keyboard" /\ totalRead = Len(keyboardMap)
  /\ keyboardMap' = [k \in DOMAIN keyboardMap |->
                       IF k <= msgSize THEN buffer[(bufferPos + k - 1) % PAGE]
                       ELSE keyboardMap[k]]
  /\ x11Client_ackMessage(msgSize)
  /\ nextSequenceNumber' = nextSequenceNumber + 1
  /\ pc' = "x11_wait"
  /\ UNCHANGED <<held, badRelease, wire, totalRead, requests, server, pointerGrabbed, inputs>>

\* The authority file is optional, and is given back after the client's start.
xauth_deinit == IF "xauthFd" \in held THEN <<"xauthMap", "xauthFd">> ELSE <<>>

xauth_init ==
  \/ Gets("x11_auth", {"xauthFd", "xauthMap"}, "x11_memfd")
  \/ Gets("x11_auth", {}, "x11_memfd")

\* Display and context, the authority file, the client, the set up.
window_x11_init ==
  \/ /\ egl_createContext("x11_display", "x11_context", "x11_auth", <<>>, "gbm_card")
     /\ UNCHANGED x11Vars
  \/ xauth_init /\ UNCHANGED x11Vars
  \/ /\ x11Client_init("x11_authDone", xauth_deinit \o egl_destroyContext, "gbm_card")
     /\ UNCHANGED x11Vars
  \/ /\ GivesBack("x11_authDone", xauth_deinit, "x11_setup")
     /\ UNCHANGED x11Vars
  \/ SendSetup \/ SetupFails("x11_setup")
  \/ SetupReceive \/ SetupReceiveFails \/ SetupRefuses \/ SetupMessage
  \/ MapKeyboard \/ MapKeyboardFails \/ ReadKeyboard \/ ReadKeyboardFails \/ CopyKeyboard

window_x11_deinit == <<"keyboardMap">> \o SetupResources

-----------------------------------------------------------------------------
(* window_x11_run                                                          *)

\* x11Client_sendRequests: all of them, or the connection is gone.
Sends(names) == requests' = requests \o names

grabPointer == <<"grabPointer", "hideCursor", "selectMotion">>
ungrabPointer == <<"ungrabPointer", "showCursor", "selectNothing">>
toggleFullscreen == <<"sendEvent">>
setupRequests == <<"changeProperty", "changeProperty", "changeProperty", "queryVersion",
                   "mapWindow">>

RunStart ==
  /\ pc = "x11_run"
  /\ Sends(setupRequests)
  /\ pc' = "x11_poll"
  /\ UNCHANGED <<held, badRelease, wire, bufferVars, nextSequenceNumber, keyboardMap,
                 totalRead, server, pointerGrabbed, inputs>>

\* Something to read: read it; nothing: draw.
PollReads == pc = "x11_poll" /\ x11Client_receive("x11_message")

PollDraws ==
  /\ pc = "x11_poll" /\ wire = <<>> /\ pc' = "x11_draw"
  /\ UNCHANGED <<held, badRelease, x11Vars>>

RunDraw ==
  /\ pc = "x11_draw" /\ pc' = "x11_poll"
  /\ UNCHANGED <<held, badRelease, x11Vars>>

\* The connection ends (0: return 0) or fails (-2), or a send fails (-1, -5 ..).
PollEnds ==
  /\ pc = "x11_poll"
  /\ pc' \in {"done", "cleanup_game"}
  /\ UNCHANGED <<held, badRelease, x11Vars>>

RunSendFails ==
  /\ \/ pc = "x11_run"
     \/ /\ pc = "x11_message" /\ x11Client_nextMessage > 0
        /\ \/ generic.type = "button" /\ ~pointerGrabbed
           \/ generic.type \in {"escape", "focusOut"} /\ pointerGrabbed
           \/ generic.type = "f11"
  /\ pc' = "cleanup_game"
  /\ UNCHANGED <<held, badRelease, x11Vars>>

\* The messages that end the loop: an error, one too big; a delete message.
RunEnds ==
  LET msgSize == x11Client_nextMessage IN
  /\ pc = "x11_message" /\ msgSize # 0
  /\ \/ (msgSize < 0 \/ generic.type = "error") /\ pc' = "cleanup_game"
     \/ msgSize > 0 /\ generic.type = "delete" /\ pc' = "done"
  /\ UNCHANGED <<held, badRelease, x11Vars>>

MessagesDone ==
  /\ pc = "x11_message" /\ x11Client_nextMessage = 0
  /\ pc' = "x11_poll"
  /\ UNCHANGED <<held, badRelease, x11Vars>>

\* A button that always grabs: not in the code.
PointerChangeUnguarded(type) ==
  CASE type = "button" -> Sends(grabPointer) /\ pointerGrabbed' = TRUE
    [] type \in {"escape", "focusOut"} /\ pointerGrabbed ->
         Sends(ungrabPointer) /\ pointerGrabbed' = FALSE
    [] OTHER -> UNCHANGED <<requests, pointerGrabbed>>

\* What a message does to the pointer: a click takes it, escape and the loss
\* of the focus give it back.
PointerChange(type) ==
  CASE type = "button" /\ ~pointerGrabbed -> Sends(grabPointer) /\ pointerGrabbed' = TRUE
    [] type \in {"escape", "focusOut"} /\ pointerGrabbed ->
         Sends(ungrabPointer) /\ pointerGrabbed' = FALSE
    [] type = "f11" -> Sends(toggleFullscreen) /\ UNCHANGED pointerGrabbed
    [] OTHER -> UNCHANGED <<requests, pointerGrabbed>>

RunMessage ==
  LET msgSize == x11Client_nextMessage IN
  /\ pc = "x11_message" /\ msgSize > 0 /\ generic.type \notin {"error", "delete"}
  /\ PointerChange(generic.type)
  /\ x11Client_ackMessage(msgSize)
  /\ UNCHANGED <<pc, held, badRelease, wire, nextSequenceNumber, keyboardMap, totalRead,
                 server, inputs>>

window_x11_run ==
  \/ RunStart \/ PollReads \/ PollDraws \/ RunDraw \/ PollEnds \/ RunSendFails
  \/ RunEnds \/ MessagesDone \/ RunMessage

-----------------------------------------------------------------------------
(* The server.  External.                                                  *)

Running == pc \in {"x11_poll", "x11_draw", "x11_message"}

\* What a request does, and what the server sends because of it.
Effect(s, request) ==
  CASE request = "hideCursor" -> [s EXCEPT !.hidden = @ + 1]
    [] request = "showCursor" -> [s EXCEPT !.hidden = @ - 1]
    [] request = "selectMotion" -> [s EXCEPT !.selected = TRUE]
    [] request = "selectNothing" -> [s EXCEPT !.selected = FALSE]
    [] request = "ungrabPointer" -> [s EXCEPT !.grabbed = FALSE]
    [] request = "mapWindow" -> [s EXCEPT !.mapped = TRUE]
    [] OTHER -> s

Answer(request) ==
  CASE request \in {"grabPointer", "queryVersion"} -> Units(Message("reply", 0, HEADER))
    [] request = "mapWindow" -> Units(Message("configure", 0, HEADER))
    [] request = "showCursor" /\ server.hidden = 0 -> Units(Message("error", 0, HEADER))
    [] OTHER -> <<>>

ServerStep ==
  /\ Running /\ requests # <<>>
  /\ LET request == Head(requests) IN
       \/ /\ \/ server' = Effect(server, request)
             \/ request = "grabPointer" /\ server' = [server EXCEPT !.grabbed = TRUE]
          /\ wire' = wire \o Answer(request)
       \/ /\ request = "changeProperty" /\ UNCHANGED server   \* no memory for it
          /\ wire' = wire \o Units(Message("error", 0, HEADER))
  /\ requests' = Tail(requests)
  /\ UNCHANGED <<eglVars, bufferVars, nextSequenceNumber, keyboardMap, totalRead,
                 pointerGrabbed, inputs>>

InputEvents ==
  {Message(type, 0, HEADER) : type \in {"button", "escape", "focusOut", "f11", "key", "delete"}}
    \cup {Message("motion", 0, HEADER + 1)}

Input ==
  /\ Running /\ server.mapped /\ inputs < MaxInputs
  /\ \E m \in InputEvents :
       /\ m.type = "motion" => server.selected
       /\ wire' = wire \o Units(m)
  /\ inputs' = inputs + 1
  /\ UNCHANGED <<eglVars, bufferVars, nextSequenceNumber, keyboardMap, totalRead, requests,
                 server, pointerGrabbed>>

-----------------------------------------------------------------------------
(* Properties.                                                             *)

\* The unit v comes right after u in the stream: the next one of the same message, or the
\* first of some message (which one is not said; a reply that was skipped would be missed by
\* nextSequenceNumber).
Follows(u, v) == IF u[2] + 1 < u[1].size THEN v = <<u[1], u[2] + 1>> ELSE v[2] = 0

(***************************************************************************)
(* The circular buffer holds the next part of the stream, from the start   *)
(* of a message on: however the reads split the stream and wherever the    *)
(* page ends, each unit is followed by the next one of its message or, at  *)
(* a message's end, by the first of one, and the last by the first that is *)
(* still to be read.  When the set up is done the keyboard map is the      *)
(* reply the server sent, whole and in order, also when it came partly     *)
(* through the buffer and partly past it, and the last reply was the one   *)
(* to the last request.                                                    *)
(***************************************************************************)
StreamIntact ==
  LET At(k) == buffer[(bufferPos + k) % PAGE]
      Direct == pc = "x11_keyboard"   \* the rest of the map is read past the buffer
  IN /\ receivedSize \in 0 .. PAGE
     /\ receivedSize > 0 => At(0)[2] = 0
     /\ \A k \in 0 .. receivedSize - 2 : Follows(At(k), At(k + 1))
     /\ receivedSize > 0 /\ wire # <<>> /\ ~Direct => Follows(At(receivedSize - 1), wire[1])
     /\ pc \in {"surface", "x11_run", "x11_poll"} /\ keyboardMap # <<>> =>
         /\ nextSequenceNumber = LAST
         /\ keyboardMap = Units(Message("reply", KEYBOARD, Len(keyboardMap)))

\* What the server, in state s, has set after each of the requests r.
After(s, r) ==
  LET after[k \in 0 .. Len(r)] == IF k = 0 THEN s ELSE Effect(after[k - 1], r[k])
  IN after

(***************************************************************************)
(* Once the server has carried out what was sent, the cursor is hidden and *)
(* motion is reported exactly while the program thinks it has the pointer, *)
(* and the cursor is never shown more often than it was hidden.            *)
(***************************************************************************)
PointerBalanced ==
  /\ LET outcome == After(server, requests)[Len(requests)] IN
       /\ outcome.hidden = IF pointerGrabbed THEN 1 ELSE 0
       /\ outcome.selected = pointerGrabbed
  /\ server.hidden \in {0, 1}
=============================================================================
