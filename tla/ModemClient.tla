---------------------------- MODULE ModemClient -----------------------------
(***************************************************************************)
(* The SMS interface of the router (router/router/modemClient.c): commands *)
(* are queued to an AT modem on a serial line, one at a time, and the      *)
(* lines it answers are parsed from a buffer.                              *)
(*                                                                         *)
(* The modem's bytes are abstracted to the units the parser tells apart:   *)
(* "OK", "ERROR", the prompt "> " (which has no newline), a new-message    *)
(* notification "CMTI", any other line "OTHER", also an empty one, which   *)
(* modems send before a notification, and a text message in two            *)
(* units, its +CMGL header line and its content with newline, so that a    *)
(* read may end between them ("BAD_CMGL" is a header that is malformed).   *)
(* A line of which only a part has arrived is a unit not yet arrived.      *)
(*                                                                         *)
(* The handler of the serial line is a loop with gotos; its labels are the *)
(* values of pc.  The router is single threaded, so only the modem and the *)
(* world act while pc # "idle".                                            *)
(***************************************************************************)
EXTENDS Integers, Sequences

CONSTANTS
    MaxSms,         \* bound on the text messages that arrive
    MaxCmti,        \* bound on the notifications
    MaxUnplugs,     \* bound on how often the modem is unplugged
    MaxLate,        \* bound on how often a new connection inherits an old one's answers
    MaxBacklog,     \* bound on commands and units on the serial line
    QueueCapacity   \* commands that fit commandQueue

ASSUME ModemAssumption ==
    /\ {MaxSms, MaxCmti, MaxUnplugs, MaxLate, MaxBacklog} \subseteq Nat
    /\ QueueCapacity \in Nat /\ QueueCapacity >= 2

Commands == {"INIT", "POLL", "START_SMS", "SEND_SMS"}

\* modemClient_CONSTANT covers both constant commands.
Tag(cmd) == IF cmd \in {"INIT", "POLL"} THEN "CONSTANT" ELSE cmd

\* Text messages: the `ip` request, another, an empty one, and one that is longer
\* than the buffer, whose content never fits.
Messages == {"ip", "text", "empty", "huge"}
Header(m)  == <<"header", m>>
Content(m) == <<"content", m>>
Line(l)    == <<"line", l>>
Units == {Header(m) : m \in Messages} \cup {Content(m) : m \in Messages}
            \cup {Line(l) : l \in {"OK", "ERROR", "PROMPT", "CMTI", "BAD_CMGL", "OTHER"}}

VARIABLES
    pc,             \* where modemClient_onFd is, "idle" in the event loop
    fd,             \* "closed", "open", or "dead" when the device is gone
    timer,          \* "armed" or "expired"
    queue,          \* commandQueue
    pendingCommand, \* the first command of the queue was written
    buffer,         \* received units not yet consumed
    pendingCmdTag,  \* local of modemClient_onFd, set once per call
    \* The world.
    plugged,        \* the device exists
    serialIn,       \* units the modem sent that were not read
    serialOut,      \* commands written that the modem has not taken
    promptMode,     \* the modem waits for the text of a message
    smsLeft, cmtiLeft, unplugsLeft, lateLeft

client == <<pc, fd, timer, queue, pendingCommand, buffer, pendingCmdTag>>
modem  == <<plugged, serialIn, serialOut, promptMode, smsLeft, cmtiLeft, unplugsLeft, lateLeft>>
vars   == <<client, modem>>

Init ==
    /\ pc = "idle" /\ fd = "closed" /\ timer = "armed"
    /\ queue = <<>> /\ pendingCommand = FALSE /\ buffer = <<>> /\ pendingCmdTag = "NO_CMD"
    /\ plugged \in BOOLEAN
    /\ serialIn = <<>> /\ serialOut = <<>> /\ promptMode = FALSE
    /\ smsLeft = MaxSms /\ cmtiLeft = MaxCmti /\ unplugsLeft = MaxUnplugs /\ lateLeft = MaxLate

-----------------------------------------------------------------------------
(***************************************************************************)
(* The command queue.                                                      *)
(***************************************************************************)

\* What is on the line when a command is added: a full line loses it.
Transmit(cmd) ==
    IF Len(serialIn) + Len(serialOut) < MaxBacklog THEN Append(serialOut, cmd) ELSE serialOut

\* Mutated form of ProcessQueue: the next command is written although one is pending.
ProcessQueueEager(q, pending, next) ==
    /\ queue' = q
    /\ IF q = <<>>
         THEN pendingCommand' = pending /\ pc' = next /\ UNCHANGED <<timer, serialOut>>
       ELSE IF fd = "open"
         THEN /\ pendingCommand' = TRUE
              /\ timer' = "armed"
              /\ serialOut' = Transmit(q[Len(q)])
              /\ pc' = next
       ELSE pendingCommand' = FALSE /\ pc' = "out_fail" /\ UNCHANGED <<timer, serialOut>>

\* Mutated form of ProcessQueue: the written command is not marked as pending.
ProcessQueueUnmarked(q, pending, next) ==
    /\ queue' = q
    /\ IF pending \/ q = <<>>
         THEN pendingCommand' = pending /\ pc' = next /\ UNCHANGED <<timer, serialOut>>
       ELSE IF fd = "open"
         THEN /\ pendingCommand' = FALSE
              /\ timer' = "armed"
              /\ serialOut' = Transmit(Head(q))
              /\ pc' = next
       ELSE pendingCommand' = FALSE /\ pc' = "out_fail" /\ UNCHANGED <<timer, serialOut>>

\* modemClient_processQueue on the queue q: write the first command unless one is
\* pending, then go on at `next`; a write that fails goes on at out_fail.
ProcessQueue(q, pending, next) ==
    /\ queue' = q
    /\ IF pending \/ q = <<>>
         THEN pendingCommand' = pending /\ pc' = next /\ UNCHANGED <<timer, serialOut>>
       ELSE IF fd = "open"
         THEN /\ pendingCommand' = TRUE
              /\ timer' = "armed"
              /\ serialOut' = Transmit(Head(q))
              /\ pc' = next
       ELSE pendingCommand' = FALSE /\ pc' = "out_fail" /\ UNCHANGED <<timer, serialOut>>

\* modemClient_queueConstant and modemClient_queueSms.
Enqueue(cmds, next) ==
    IF Len(queue) + Len(cmds) > QueueCapacity
      THEN pc' = "out_fail" /\ UNCHANGED <<queue, pendingCommand, timer, serialOut>>
    ELSE ProcessQueue(queue \o cmds, pendingCommand, next)

\* modemClient_ackPending assumes a pending command; without one the program is
\* undefined (hc_ASSUME) or aborts (debug build).
AckPending ==
    IF pendingCommand THEN ProcessQueue(Tail(queue), FALSE, "loop")
    ELSE pc' = "undefined" /\ UNCHANGED <<queue, pendingCommand, timer, serialOut>>

\* Mutated form of Disconnect: the descriptor is closed and kept.
DisconnectKeepsFd ==
    /\ fd' = "dead"
    /\ promptMode' = FALSE /\ serialIn' = <<>> /\ serialOut' = <<>> /\ UNCHANGED lateLeft

\* modemClient_disconnect.  The escape ends the modem's prompt.  What is still on the line
\* is lost, or reaches the next connection.
Disconnect ==
    /\ fd' = "closed"
    /\ \/ /\ fd = "open"
          /\ promptMode' = FALSE /\ serialIn' = <<>> /\ serialOut' = <<>>
          /\ UNCHANGED lateLeft
       \/ /\ fd = "open" /\ serialIn \o serialOut # <<>> /\ lateLeft > 0
          /\ promptMode' = FALSE /\ lateLeft' = lateLeft - 1
          /\ UNCHANGED <<serialIn, serialOut>>
       \/ fd # "open" /\ UNCHANGED <<promptMode, serialIn, serialOut, lateLeft>>

-----------------------------------------------------------------------------
(***************************************************************************)
(* modemClient_onTimerFd.                                                  *)
(***************************************************************************)

\* Not connected and the device cannot be opened.
TimerOpenFails ==
    /\ pc = "idle" /\ timer = "expired"
    /\ fd = "closed" /\ ~plugged
    /\ timer' = "armed"
    /\ UNCHANGED <<pc, fd, queue, pendingCommand, buffer, pendingCmdTag, modem>>

\* Not connected: connect, forget the old commands, write INIT and queue a poll.
TimerConnects ==
    /\ pc = "idle" /\ timer = "expired"
    /\ fd = "closed" /\ plugged
    /\ fd' = "open"
    /\ buffer' = <<>>
    /\ queue' = <<"INIT", "POLL">>
    /\ pendingCommand' = TRUE
    /\ serialOut' = Transmit("INIT")
    /\ timer' = "armed"
    /\ UNCHANGED <<pc, pendingCmdTag, plugged, serialIn, promptMode, smsLeft, cmtiLeft, unplugsLeft, lateLeft>>

\* The device vanishes after it was opened: setting it up fails, or writing INIT does.
TimerConnectFails ==
    /\ pc = "idle" /\ timer = "expired"
    /\ fd = "closed" /\ plugged /\ unplugsLeft > 0
    /\ plugged' = FALSE /\ unplugsLeft' = unplugsLeft - 1
    /\ serialIn' = <<>> /\ serialOut' = <<>> /\ promptMode' = FALSE
    /\ \/ UNCHANGED <<buffer, queue, pendingCommand>>
       \/ buffer' = <<>> /\ queue' = <<"INIT">> /\ pendingCommand' = FALSE
    /\ timer' = "armed"
    /\ UNCHANGED <<pc, fd, pendingCmdTag, smsLeft, cmtiLeft, lateLeft>>

\* Mutated form of TimerDisconnects: a command that timed out is waited for again.
TimerWaitsAgain ==
    /\ pc = "idle" /\ timer = "expired"
    /\ fd # "closed" /\ pendingCommand
    /\ timer' = "armed"
    /\ UNCHANGED <<pc, fd, queue, pendingCommand, buffer, pendingCmdTag, modem>>

\* A command timed out.
TimerDisconnects ==
    /\ pc = "idle" /\ timer = "expired"
    /\ fd # "closed" /\ pendingCommand
    /\ Disconnect
    /\ timer' = "armed"
    /\ UNCHANGED <<pc, queue, pendingCommand, buffer, pendingCmdTag, plugged, smsLeft, cmtiLeft, unplugsLeft>>

\* Nothing is pending: poll for messages; the write of a dead line fails.
TimerPolls ==
    /\ pc = "idle" /\ timer = "expired"
    /\ fd # "closed" /\ ~pendingCommand
    /\ timer' = "armed"
    /\ IF fd = "open" /\ Len(queue) < QueueCapacity
         THEN /\ queue' = Append(queue, "POLL")
              /\ pendingCommand' = TRUE
              /\ serialOut' = Transmit(Head(queue'))
              /\ UNCHANGED <<fd, serialIn, promptMode, lateLeft>>
       ELSE /\ queue' = IF Len(queue) < QueueCapacity THEN Append(queue, "POLL") ELSE queue
            /\ Disconnect
            /\ UNCHANGED pendingCommand
    /\ UNCHANGED <<pc, buffer, pendingCmdTag, plugged, smsLeft, cmtiLeft, unplugsLeft>>

OnTimerFd ==
    TimerOpenFails \/ TimerConnects \/ TimerConnectFails \/ TimerDisconnects \/ TimerPolls

-----------------------------------------------------------------------------
(***************************************************************************)
(* modemClient_onFd.                                                       *)
(***************************************************************************)

\* The read ends the connection: the device is gone, or the buffer is full of a
\* message that does not fit, so that a read of 0 bytes is asked for.
ReadFails ==
    /\ pc = "idle"
    /\ \/ fd = "dead"
       \/ fd = "open" /\ serialIn # <<>> /\ Head(serialIn) = Content("huge")
    /\ pc' = "out_fail"
    /\ UNCHANGED <<fd, timer, queue, pendingCommand, buffer, pendingCmdTag, modem>>

\* Some of what the modem sent is read; the tag of the pending command is looked at
\* once, here.
Read ==
    /\ pc = "idle" /\ fd = "open"
    /\ \E n \in 1 .. Len(serialIn) :
         /\ \A i \in 1 .. n : serialIn[i] # Content("huge")
         /\ buffer' = buffer \o SubSeq(serialIn, 1, n)
         /\ serialIn' = SubSeq(serialIn, n + 1, Len(serialIn))
    /\ pendingCmdTag' = IF pendingCommand THEN Tag(Head(queue)) ELSE "NO_CMD"
    /\ pc' = "loop"
    /\ UNCHANGED <<fd, timer, queue, pendingCommand, plugged, serialOut, promptMode,
                   smsLeft, cmtiLeft, unplugsLeft, lateLeft>>

\* One turn of the loop looks at the first unit of the buffer.
AtUnit(u) == pc = "loop" /\ buffer # <<>> /\ Head(buffer) = u

lineUnchanged == UNCHANGED <<fd, pendingCmdTag, plugged, serialIn, promptMode,
                             smsLeft, cmtiLeft, unplugsLeft, lateLeft>>
queueUnchanged == UNCHANGED <<timer, queue, pendingCommand, serialOut>>

\* The next turn starts n units further on; a failure leaves lineStart alone.
Consume(n) == buffer' = IF pc' = "loop" THEN SubSeq(buffer, n + 1, Len(buffer)) ELSE buffer

LineOk ==
    /\ AtUnit(Line("OK"))
    /\ IF pendingCmdTag \in {"NO_CMD", "START_SMS"}
         THEN pc' = "out_fail" /\ queueUnchanged
       ELSE AckPending
    /\ Consume(1) /\ lineUnchanged

\* The prompt is taken for one while nothing follows it in the buffer, or when what
\* follows is a newline: another line that is empty, and is looked at next.
LinePrompt ==
    /\ AtUnit(Line("PROMPT")) /\ (Len(buffer) > 1 => buffer[2] = Line("OTHER"))
    /\ IF pendingCmdTag # "START_SMS"
         THEN pc' = "out_fail" /\ queueUnchanged
       ELSE AckPending
    /\ Consume(1) /\ lineUnchanged

\* Otherwise it and the units up to the next newline make one line that means nothing.
LineAfterPrompt ==
    /\ AtUnit(Line("PROMPT"))
    /\ \E n \in 2 .. Len(buffer) :
         /\ buffer[n] # Line("PROMPT") /\ \A i \in 1 .. n - 1 : buffer[i] = Line("PROMPT")
         /\ pc' = "loop" /\ Consume(n)
    /\ queueUnchanged /\ lineUnchanged

\* ERROR, or a +CMGL line without the fields that are looked for.
LineError ==
    /\ AtUnit(Line("ERROR")) \/ AtUnit(Line("BAD_CMGL"))
    /\ pc' = "out_fail"
    /\ UNCHANGED buffer /\ queueUnchanged /\ lineUnchanged

LineCmti ==
    /\ AtUnit(Line("CMTI"))
    /\ Enqueue(<<"POLL">>, "loop")
    /\ Consume(1) /\ lineUnchanged

\* A line that means nothing, or the content of a message whose header was lost.
LineOther ==
    /\ pc = "loop" /\ buffer # <<>>
    /\ Head(buffer) \in {Line("OTHER")} \cup {Content(m) : m \in Messages}
    /\ pc' = "loop" /\ Consume(1)
    /\ queueUnchanged /\ lineUnchanged

\* The content of a message has arrived; `ip` is answered with a message.
LineSms ==
    \E m \in Messages :
        /\ AtUnit(Header(m)) /\ Len(buffer) > 1
        /\ IF m = "ip" THEN Enqueue(<<"START_SMS", "SEND_SMS">>, "loop")
           ELSE pc' = "loop" /\ queueUnchanged
        /\ Consume(2) /\ lineUnchanged

\* It has not: wait for it, unless the message is empty, which the check takes for
\* complete without its newline (-1 / 4 is 0) and steps over the end of the buffer.
LineSmsIncomplete ==
    \E m \in Messages :
        /\ AtUnit(Header(m)) /\ Len(buffer) = 1
        /\ pc' = IF m = "empty" THEN "overrun" ELSE "out"
        /\ UNCHANGED buffer /\ queueUnchanged /\ lineUnchanged

\* No newline: nothing is left, or more than one prompt.
NoLine ==
    /\ pc = "loop"
    /\ Len(buffer) # 1 /\ \A i \in 1 .. Len(buffer) : buffer[i] = Line("PROMPT")
    /\ pc' = "out"
    /\ UNCHANGED buffer /\ queueUnchanged /\ lineUnchanged

\* Mutated form of OutFail: the disconnect forgets the pending command.
OutFailForgetsPending ==
    /\ pc = "out_fail"
    /\ Disconnect
    /\ pc' = "out" /\ pendingCommand' = FALSE
    /\ UNCHANGED <<timer, queue, buffer, pendingCmdTag, plugged, smsLeft, cmtiLeft, unplugsLeft>>

\* out_fail: disconnect and fall through to out.
OutFail ==
    /\ pc = "out_fail"
    /\ Disconnect
    /\ pc' = "out"
    /\ UNCHANGED <<timer, queue, pendingCommand, buffer, pendingCmdTag, plugged,
                   smsLeft, cmtiLeft, unplugsLeft>>

\* out: process the queue, also after a disconnect, where a write fails and goes back
\* to out_fail.
Out ==
    /\ pc = "out"
    /\ ProcessQueue(queue, pendingCommand, "idle")
    /\ UNCHANGED buffer /\ lineUnchanged

OnFd ==
    \/ ReadFails \/ Read \/ LineOk \/ LinePrompt \/ LineAfterPrompt \/ LineError
    \/ LineCmti \/ LineOther \/ LineSms \/ LineSmsIncomplete \/ NoLine \/ OutFail \/ Out

-----------------------------------------------------------------------------
(***************************************************************************)
(* The world: the timer, the modem and its plug.                           *)
(***************************************************************************)
Expire ==
    /\ timer = "armed" /\ timer' = "expired"
    /\ UNCHANGED <<pc, fd, queue, pendingCommand, buffer, pendingCmdTag, modem>>

\* What the modem answers to a command.  It may list one message per poll.
Answers(cmd) ==
    CASE cmd = "INIT"      -> {<<Line("OK")>>}
      [] cmd = "POLL"      -> {<<Line("OK")>>}
                                \cup (IF smsLeft = 0 THEN {} ELSE
                                      {<<Header(m), Content(m), Line("OK")>> : m \in Messages}
                                      \cup {<<Line("BAD_CMGL"), Line("OTHER"), Line("OK")>>})
      [] cmd = "START_SMS" -> {<<Line("PROMPT")>>}
      [] cmd = "SEND_SMS"  -> IF promptMode THEN {<<Line("OK")>>} ELSE {}

\* The modem takes a command and answers it, or with an error.  At the prompt
\* everything but the text is swallowed as text.
ModemAnswers ==
    /\ plugged /\ serialOut # <<>>
    /\ LET cmd == Head(serialOut) IN
       /\ serialOut' = Tail(serialOut)
       /\ IF promptMode /\ cmd # "SEND_SMS"
            THEN UNCHANGED <<serialIn, promptMode, smsLeft>>
          ELSE \E a \in Answers(cmd) \cup {<<Line("ERROR")>>} :
                 /\ serialIn' = serialIn \o a
                 /\ promptMode' = (a = <<Line("PROMPT")>>)
                 /\ smsLeft' = IF Len(a) = 3 THEN smsLeft - 1 ELSE smsLeft
    /\ UNCHANGED <<client, plugged, cmtiLeft, unplugsLeft, lateLeft>>

ModemNotifies ==
    /\ plugged /\ cmtiLeft > 0 /\ Len(serialIn) < MaxBacklog
    /\ \E l \in {"CMTI", "OTHER"} : serialIn' = Append(serialIn, Line(l))
    /\ cmtiLeft' = cmtiLeft - 1
    /\ UNCHANGED <<client, plugged, serialOut, promptMode, smsLeft, unplugsLeft, lateLeft>>

Unplug ==
    /\ plugged /\ unplugsLeft > 0
    /\ plugged' = FALSE /\ unplugsLeft' = unplugsLeft - 1
    /\ fd' = IF fd = "open" THEN "dead" ELSE fd
    /\ serialIn' = <<>> /\ serialOut' = <<>> /\ promptMode' = FALSE
    /\ UNCHANGED <<pc, timer, queue, pendingCommand, buffer, pendingCmdTag, smsLeft, cmtiLeft, lateLeft>>

Plug ==
    /\ ~plugged
    /\ plugged' = TRUE
    /\ UNCHANGED <<client, serialIn, serialOut, promptMode, smsLeft, cmtiLeft, unplugsLeft, lateLeft>>

World == Expire \/ ModemAnswers \/ ModemNotifies \/ Unplug \/ Plug

\* Undefined behaviour ends the model's behaviour of the program.
Next == IF pc \in {"undefined", "overrun"} THEN UNCHANGED vars ELSE OnTimerFd \/ OnFd \/ World

\* The event loop runs and the timer expires; the modem owes nothing.
Fairness == WF_vars(OnTimerFd) /\ WF_vars(OnFd) /\ WF_vars(Expire)

Spec == Init /\ [][Next]_vars /\ Fairness

-----------------------------------------------------------------------------
(***************************************************************************)
(* Properties.                                                             *)
(***************************************************************************)

\* In the event loop a connected client has a command pending exactly when its queue
\* is not empty, and the queue fits commandQueue: no queued command is forgotten, none is
\* pending that is not queued (modemClient_pendingCmdTag's assertion).
NoCommandForgotten ==
    /\ pc = "idle" /\ fd # "closed" => (pendingCommand <=> queue # <<>>)
    /\ pendingCommand => queue # <<>>
    /\ Len(queue) <= QueueCapacity

\* As long as no answer of an earlier connection reached a later one, the line is half
\* duplex: no command is written before the answer to the one before it was read, the text
\* of a message only to a modem at its prompt, and every answer acknowledges a command that
\* is pending ("debug_ASSUME(self->pendingCommand)", modemClient.c:143), although the tag of
\* that command is read once and used for all the lines of a read.
OnlyLateAnswersConfuse ==
    lateLeft = MaxLate =>
        /\ Len(serialOut) <= 1
        /\ serialOut # <<>> /\ Head(serialOut) = "SEND_SMS" => promptMode
        /\ pc # "undefined"

\* After a disconnect with commands left and none pending, modemClient_onFd goes
\* round between out and out_fail for ever, and with it the whole router.
Hung == pc \in {"out", "out_fail"} /\ fd = "closed" /\ ~pendingCommand /\ queue # <<>>

\* That takes a device that vanished while its lines were being parsed.
HangsOnlyWhenUnplugged == Hung => unplugsLeft < MaxUnplugs

\* Undefined behaviour (an answer that nothing is pending for, or an empty message without
\* its newline) after which the model makes no claim.
Undefined == pc \in {"undefined", "overrun"}

\* A modem that stays plugged in is connected again and again, whatever was lost
\* before, unless the client hangs.
Reconnects == (<>[]plugged) => []<>(fd = "open") \/ <>Hung \/ <>Undefined

\* The reply to an `ip` message is written, or the connection is given up.
ReplyWritten ==
    (\E i \in 1 .. Len(queue) : queue[i] = "SEND_SMS") /\ fd = "open"
        ~> (queue # <<>> /\ Head(queue) = "SEND_SMS" /\ pendingCommand) \/ fd # "open" \/ Undefined
=============================================================================
