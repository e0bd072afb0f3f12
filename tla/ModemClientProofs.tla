-------------------------- MODULE ModemClientProofs --------------------------
(***************************************************************************)
(* Proofs about ModemClient: for any number of messages, notifications,    *)
(* unpluggings and units on the line, no queued command is forgotten, the  *)
(* line is half duplex as long as no answer comes late, and the client     *)
(* hangs only after its device vanished.                                   *)
(***************************************************************************)
EXTENDS ModemClient, TLAPS

\* The last unit of an answer.
Finals == {Line("OK"), Line("ERROR"), Line("PROMPT")}

NoFinal(s) == \A i \in 1 .. Len(s) : s[i] \notin Finals
OneFinal(s) == \A i, j \in 1 .. Len(s) : s[i] \in Finals /\ s[j] \in Finals => i = j
NoPrompt(s) == \A i \in 1 .. Len(s) : s[i] # Line("PROMPT")

TypeOK ==
    /\ pc \in {"idle", "loop", "out", "out_fail", "undefined", "overrun"}
    /\ fd \in {"closed", "open", "dead"} /\ timer \in {"armed", "expired"}
    /\ queue \in Seq(Commands) /\ pendingCommand \in BOOLEAN
    /\ buffer \in Seq(Units) /\ serialIn \in Seq(Units) /\ serialOut \in Seq(Commands)
    /\ plugged \in BOOLEAN /\ promptMode \in BOOLEAN
    /\ smsLeft \in Nat /\ cmtiLeft \in Nat /\ unplugsLeft \in Nat /\ lateLeft \in Nat
    /\ unplugsLeft <= MaxUnplugs /\ lateLeft <= MaxLate

\* In a queue that may be written, the text of a message follows its command.
Chained(q) == \A i \in 2 .. Len(q) : q[i] = "SEND_SMS" => q[i - 1] = "START_SMS"

\* A command is pending whenever there is one, in the event loop and while lines are
\* parsed; it is otherwise only after the device was lost.
QueueInv ==
    /\ pendingCommand => queue # <<>>
    /\ Len(queue) <= QueueCapacity
    /\ pc = "loop" => fd # "closed"
    /\ pc \in {"idle", "loop", "out"} /\ fd # "closed" => (queue # <<>> => pendingCommand)
    /\ fd = "dead" => unplugsLeft < MaxUnplugs
    /\ pc \in {"out", "out_fail"} /\ queue # <<>> /\ ~pendingCommand => unplugsLeft < MaxUnplugs
    /\ Chained(queue)

\* The line as long as nothing came late: of the command that is pending, either the command
\* or the last unit of its answer is under way, or neither.
HalfDuplex ==
    /\ Len(serialOut) <= 1
    /\ serialOut # <<>> => NoFinal(serialIn)
    /\ OneFinal(serialIn)
    /\ fd # "open" => serialOut = <<>> /\ NoFinal(serialIn)
    /\ serialOut # <<>> \/ ~NoFinal(serialIn) => pendingCommand

\* The same of what was read, which counts until it was parsed.
BufferInv ==
    fd = "open" \/ pc = "loop" =>
        /\ OneFinal(buffer)
        /\ ~NoFinal(buffer) => NoFinal(serialIn) /\ serialOut = <<>> /\ pendingCommand
        /\ ~NoFinal(buffer) /\ pc = "loop" => pendingCmdTag = Tag(Head(queue))

\* The modem is at its prompt as long as that is under way, and when the text is.
PromptInv ==
    /\ fd = "open" => promptMode \/ (NoPrompt(serialIn) /\ NoPrompt(buffer))
    /\ serialOut # <<>> /\ Head(serialOut) = "SEND_SMS" => promptMode

LineInv == lateLeft = MaxLate => pc # "undefined" /\ HalfDuplex /\ BufferInv /\ PromptInv

IInv == TypeOK /\ QueueInv /\ LineInv

-----------------------------------------------------------------------------
(***************************************************************************)
(* Units and sequences of them.                                            *)
(***************************************************************************)

\* What the parser looks for are units, and the last units of answers are told apart from
\* all others.
LEMMA UnitsDiffer ==
    /\ Finals \subseteq Units
    /\ \A l \in {"OK", "ERROR", "PROMPT", "CMTI", "BAD_CMGL", "OTHER"} : Line(l) \in Units
    /\ \A m \in Messages : Header(m) \in Units /\ Content(m) \in Units
    /\ \A m \in Messages : Header(m) \notin Finals /\ Content(m) \notin Finals
    /\ \A l \in {"CMTI", "BAD_CMGL", "OTHER"} : Line(l) \notin Finals
    /\ Line("OK") # Line("PROMPT") /\ Line("ERROR") # Line("PROMPT")
    /\ Line("PROMPT") \in Finals
  BY SMT DEF Finals, Units, Header, Content, Line

\* A part of what the modem sent has no last unit, or no prompt, or at most one last unit,
\* if the whole has.
LEMMA PartOfLine ==
    ASSUME NEW s \in Seq(Units), NEW m \in 1 .. Len(s) + 1, NEW n \in 0 .. Len(s)
    PROVE  /\ SubSeq(s, m, n) \in Seq(Units)
           /\ NoFinal(s) => NoFinal(SubSeq(s, m, n))
           /\ OneFinal(s) => OneFinal(SubSeq(s, m, n))
           /\ NoPrompt(s) => NoPrompt(SubSeq(s, m, n))
  <1> DEFINE t == SubSeq(s, m, n)
  <1>1. /\ t \in Seq(Units) /\ Len(t) = IF m <= n THEN n - m + 1 ELSE 0
        /\ \A i \in 1 .. Len(t) : t[i] = s[m + i - 1] /\ m + i - 1 \in 1 .. Len(s)
    OBVIOUS
  <1> HIDE DEF t
  <1>2. NoFinal(s) => NoFinal(t)
    BY <1>1 DEF NoFinal
  <1>3. NoPrompt(s) => NoPrompt(t)
    BY <1>1 DEF NoPrompt
  <1>4. ASSUME OneFinal(s), NEW i \in 1 .. Len(t), NEW j \in 1 .. Len(t),
               t[i] \in Finals, t[j] \in Finals
        PROVE  i = j
    <2>1. m + i - 1 = m + j - 1
      BY <1>1, <1>4 DEF OneFinal
    <2>2. QED
      BY <2>1
  <1>5. QED
    BY <1>1, <1>2, <1>3, <1>4 DEF t, OneFinal

\* One after the other, one of them without a last unit.
LEMMA LineGrows ==
    ASSUME NEW s \in Seq(Units), NEW t \in Seq(Units)
    PROVE  /\ s \o t \in Seq(Units)
           /\ NoFinal(s) /\ NoFinal(t) => NoFinal(s \o t)
           /\ NoFinal(s) /\ OneFinal(t) => OneFinal(s \o t)
           /\ OneFinal(s) /\ NoFinal(t) => OneFinal(s \o t)
           /\ NoPrompt(s) /\ NoPrompt(t) => NoPrompt(s \o t)
           /\ ~NoFinal(s \o t) => ~NoFinal(s) \/ ~NoFinal(t)
  <1> DEFINE u == s \o t
  <1>1. /\ u \in Seq(Units) /\ Len(u) = Len(s) + Len(t)
        /\ \A i \in 1 .. Len(u) : /\ i <= Len(s) => u[i] = s[i] /\ i \in 1 .. Len(s)
                                  /\ i > Len(s) => u[i] = t[i - Len(s)] /\ i - Len(s) \in 1 .. Len(t)
    OBVIOUS
  <1>2. Len(s) \in Nat /\ Len(t) \in Nat
    OBVIOUS
  <1> HIDE DEF u
  <1>3. ASSUME NoFinal(s), NoFinal(t), NEW i \in 1 .. Len(u)
        PROVE  u[i] \notin Finals
    <2>1. CASE i <= Len(s)
      BY <1>1, <1>3, <2>1 DEF NoFinal
    <2>2. CASE i > Len(s)
      BY <1>1, <1>3, <2>2 DEF NoFinal
    <2>3. QED
      BY <1>1, <1>2, <2>1, <2>2
  <1>4. ASSUME NoPrompt(s), NoPrompt(t), NEW i \in 1 .. Len(u)
        PROVE  u[i] # Line("PROMPT")
    <2>1. CASE i <= Len(s)
      BY <1>1, <1>4, <2>1 DEF NoPrompt
    <2>2. CASE i > Len(s)
      BY <1>1, <1>4, <2>2 DEF NoPrompt
    <2>3. QED
      BY <1>1, <1>2, <2>1, <2>2
  <1>5. ASSUME NoFinal(s), OneFinal(t), NEW i \in 1 .. Len(u), NEW j \in 1 .. Len(u),
               u[i] \in Finals, u[j] \in Finals
        PROVE  i = j
    <2>1. i > Len(s) /\ j > Len(s)
      BY <1>1, <1>2, <1>5 DEF NoFinal
    <2>2. i - Len(s) = j - Len(s)
      <3>1. u[i] = t[i - Len(s)] /\ u[j] = t[j - Len(s)] /\ i - Len(s) \in 1 .. Len(t) /\ j - Len(s) \in 1 .. Len(t)
        BY <1>1, <2>1
      <3>2. QED
        BY <1>5, <3>1 DEF OneFinal
    <2>3. QED
      BY <1>1, <1>2, <2>2
  <1>6. ASSUME OneFinal(s), NoFinal(t), NEW i \in 1 .. Len(u), NEW j \in 1 .. Len(u),
               u[i] \in Finals, u[j] \in Finals
        PROVE  i = j
    <2>1. ~(i > Len(s)) /\ ~(j > Len(s))
      BY <1>1, <1>2, <1>6 DEF NoFinal
    <2>2. u[i] = s[i] /\ u[j] = s[j] /\ i \in 1 .. Len(s) /\ j \in 1 .. Len(s)
      BY <1>1, <1>2, <2>1
    <2>3. QED
      BY <1>6, <2>2 DEF OneFinal
  <1>7. QED
    <2>1. NoFinal(s) /\ NoFinal(t) => NoFinal(u)
      BY <1>3 DEF NoFinal
    <2>2. NoPrompt(s) /\ NoPrompt(t) => NoPrompt(u)
      BY <1>4 DEF NoPrompt
    <2>3. QED
      BY <1>1, <1>5, <1>6, <2>1, <2>2 DEF u, OneFinal

\* Behind a last unit nothing of the kind follows: not at the front of the buffer, and not in
\* what a read leaves on the line.
LEMMA NothingBehindFinal ==
    ASSUME NEW s \in Seq(Units), OneFinal(s), NEW n \in 1 .. Len(s)
    PROVE  ~NoFinal(SubSeq(s, 1, n)) => NoFinal(SubSeq(s, n + 1, Len(s)))
  <1> DEFINE a == SubSeq(s, 1, n)
             b == SubSeq(s, n + 1, Len(s))
  <1>1. /\ Len(a) = n /\ \A i \in 1 .. n : a[i] = s[i]
        /\ n \in Nat /\ Len(s) \in Nat /\ n <= Len(s)
    OBVIOUS
  <1>2. /\ Len(b) = Len(s) - n
        /\ \A j \in 1 .. Len(b) : b[j] = s[n + j] /\ n + j \in 1 .. Len(s)
    OBVIOUS
  <1> HIDE DEF a, b
  <1>3. ASSUME ~NoFinal(a), ~NoFinal(b)
        PROVE  FALSE
    <2>1. PICK i \in 1 .. Len(a) : a[i] \in Finals
      BY <1>3 DEF NoFinal
    <2>2. PICK j \in 1 .. Len(b) : b[j] \in Finals
      BY <1>3 DEF NoFinal
    <2>3. i = n + j
      <3>1. s[i] \in Finals /\ i \in 1 .. Len(s)
        BY <1>1, <2>1
      <3>2. s[n + j] \in Finals /\ n + j \in 1 .. Len(s)
        BY <1>2, <2>2
      <3>3. QED
        BY <3>1, <3>2 DEF OneFinal
    <2>4. QED
      BY <1>1, <1>2, <2>1, <2>2, <2>3
  <1>4. QED
    BY <1>3 DEF a, b

\* The same for the unit the parser looks at.
LEMMA FirstIsFinal ==
    ASSUME NEW s \in Seq(Units), s # <<>>, OneFinal(s), Head(s) \in Finals
    PROVE  /\ ~NoFinal(s)
           /\ NoFinal(SubSeq(s, 2, Len(s)))
  <1>1. Len(s) \in Nat /\ Len(s) >= 1 /\ s[1] \in Finals
    OBVIOUS
  <1>2. ~NoFinal(s)
    BY <1>1 DEF NoFinal
  <1>3. ~NoFinal(SubSeq(s, 1, 1))
    <2>1. Len(SubSeq(s, 1, 1)) = 1 /\ SubSeq(s, 1, 1)[1] = s[1]
      BY <1>1
    <2>2. QED
      BY <1>1, <2>1 DEF NoFinal
  <1>4. NoFinal(SubSeq(s, 1 + 1, Len(s)))
    BY <1>1, <1>3, NothingBehindFinal
  <1>5. QED
    BY <1>1, <1>2, <1>4

\* Without a last unit there is no prompt, and an empty line has neither.
LEMMA Without ==
    ASSUME NEW s \in Seq(Units)
    PROVE  /\ NoFinal(s) => NoPrompt(s) /\ OneFinal(s)
           /\ NoFinal(<<>>) /\ OneFinal(<<>>) /\ NoPrompt(<<>>) /\ <<>> \in Seq(Units)
  BY UnitsDiffer DEF NoFinal, NoPrompt, OneFinal

-----------------------------------------------------------------------------
(***************************************************************************)
(* The operations on the queue and the line.                               *)
(***************************************************************************)

\* A command that is written to an empty line is alone on it, or lost.
LEMMA TransmitIs ==
    ASSUME serialOut \in Seq(Commands), NEW cmd \in Commands
    PROVE  /\ Transmit(cmd) \in Seq(Commands)
           /\ serialOut = <<>> => /\ Len(Transmit(cmd)) <= 1
                                  /\ Transmit(cmd) # <<>> => Head(Transmit(cmd)) = cmd
  <1>1. CASE Transmit(cmd) = serialOut
    BY <1>1
  <1>2. CASE Transmit(cmd) = Append(serialOut, cmd)
    BY <1>2
  <1>3. QED
    BY <1>1, <1>2 DEF Transmit

\* Taking the first command keeps that, and shows a text only behind START_SMS.
LEMMA TailChained ==
    ASSUME NEW q \in Seq(Commands), q # <<>>, Chained(q)
    PROVE  /\ Chained(Tail(q)) /\ Tail(q) \in Seq(Commands) /\ Len(Tail(q)) <= Len(q)
           /\ Tail(q) # <<>> => /\ Head(Tail(q)) \in Commands
                                /\ Head(Tail(q)) = "SEND_SMS" => Head(q) = "START_SMS"
  <1>1. /\ Tail(q) \in Seq(Commands) /\ Len(Tail(q)) = Len(q) - 1 /\ Len(q) \in Nat /\ Len(q) >= 1
        /\ \A i \in 1 .. Len(q) - 1 : Tail(q)[i] = q[i + 1]
    OBVIOUS
  <1>2. Chained(Tail(q))
    BY <1>1 DEF Chained
  <1>3. ASSUME Tail(q) # <<>>
        PROVE  /\ Head(Tail(q)) \in Commands
               /\ Head(Tail(q)) = "SEND_SMS" => Head(q) = "START_SMS"
    <2>1. Len(q) >= 2 /\ Head(Tail(q)) = q[2] /\ q[2] \in Commands /\ Head(q) = q[1]
      BY <1>1, <1>3
    <2>2. QED
      BY <1>1, <2>1 DEF Chained
  <1>4. QED
    BY <1>1, <1>2, <1>3

\* What the client appends keeps it, and the first command stays the first.
LEMMA AppendChained ==
    ASSUME NEW q \in Seq(Commands), Chained(q), NEW c,
           c \in {<<"POLL">>, <<"START_SMS", "SEND_SMS">>}
    PROVE  /\ Chained(q \o c) /\ q \o c \in Seq(Commands) /\ q \o c # <<>>
           /\ Len(q \o c) = Len(q) + Len(c)
           /\ Head(q \o c) \in Commands
           /\ q # <<>> => Head(q \o c) = Head(q)
           /\ q = <<>> => Head(q \o c) # "SEND_SMS"
  <1>1. /\ c \in Seq(Commands) /\ Len(c) >= 1 /\ c[1] # "SEND_SMS"
        /\ \A i \in 2 .. Len(c) : c[i] = "SEND_SMS" => c[i - 1] = "START_SMS"
    <2>1. CASE c = <<"POLL">>
      BY <2>1 DEF Commands
    <2>2. CASE c = <<"START_SMS", "SEND_SMS">>
      BY <2>2 DEF Commands
    <2>3. QED
      BY <2>1, <2>2
  <1>2. /\ q \o c \in Seq(Commands) /\ Len(q \o c) = Len(q) + Len(c)
        /\ Len(q) \in Nat /\ Len(c) \in Nat
        /\ \A i \in 1 .. Len(q) : (q \o c)[i] = q[i]
        /\ \A i \in 1 .. Len(c) : (q \o c)[Len(q) + i] = c[i]
    BY <1>1
  <1>3. ASSUME NEW i \in 2 .. Len(q \o c), (q \o c)[i] = "SEND_SMS"
        PROVE  (q \o c)[i - 1] = "START_SMS"
    <2>1. CASE i <= Len(q)
      BY <1>2, <1>3, <2>1 DEF Chained
    <2>2. CASE i > Len(q)
      <3>1. i - Len(q) \in 1 .. Len(c) /\ i = Len(q) + (i - Len(q))
        BY <1>2, <2>2
      <3>2. c[i - Len(q)] = "SEND_SMS"
        BY <1>2, <1>3, <3>1
      <3>3. i - Len(q) \in 2 .. Len(c)
        BY <1>1, <3>1, <3>2
      <3>4. c[(i - Len(q)) - 1] = "START_SMS" /\ i - 1 = Len(q) + ((i - Len(q)) - 1)
        BY <1>1, <1>2, <3>2, <3>3
      <3>5. QED
        BY <1>2, <3>3, <3>4
    <2>3. QED
      BY <1>2, <2>1, <2>2
  <1>4. Chained(q \o c)
    BY <1>3 DEF Chained
  <1>5. (q \o c) # <<>> /\ Head(q \o c) = (q \o c)[1] /\ Head(q \o c) \in Commands
    BY <1>1, <1>2
  <1>6. q # <<>> => Head(q \o c) = Head(q)
    BY <1>2, <1>5
  <1>7. q = <<>> => Head(q \o c) # "SEND_SMS"
    BY <1>1, <1>2, <1>5
  <1>8. QED
    BY <1>2, <1>4, <1>5, <1>6, <1>7

\* processQueue either leaves the line and what is pending alone, or writes the first command
\* and goes on.
LEMMA ProcessQueueCases ==
    ASSUME NEW q, NEW pending \in BOOLEAN, NEW next, ProcessQueue(q, pending, next)
    PROVE  /\ queue' = q
           /\ \/ /\ serialOut' = serialOut /\ pendingCommand' = pending /\ timer' = timer
                 /\ \/ pc' = next /\ (pending \/ q = <<>>)
                    \/ pc' = "out_fail" /\ fd # "open" /\ ~pending /\ q # <<>>
              \/ /\ fd = "open" /\ pending = FALSE /\ q # <<>>
                 /\ serialOut' = Transmit(Head(q)) /\ pendingCommand' = TRUE
                 /\ pc' = next /\ timer' = "armed"
  BY DEF ProcessQueue

\* It keeps the types,
LEMMA ProcessQueueType ==
    ASSUME TypeOK, NEW q \in Seq(Commands), NEW pending \in BOOLEAN,
           NEW next \in {"loop", "idle"}, ProcessQueue(q, pending, next)
    PROVE  /\ pc' \in {next, "out_fail"} /\ queue' \in Seq(Commands) /\ pendingCommand' \in BOOLEAN
           /\ timer' \in {"armed", "expired"} /\ serialOut' \in Seq(Commands)
  <1>1. q # <<>> => Head(q) \in Commands
    OBVIOUS
  <1>2. q # <<>> => Transmit(Head(q)) \in Seq(Commands)
    BY <1>1, TransmitIs DEF TypeOK
  <1>3. queue' \in Seq(Commands) /\ pc' \in {next, "out_fail"} /\ timer' \in {"armed", "expired"}
    BY ProcessQueueCases, Zenon DEF TypeOK
  <1>4. serialOut' \in Seq(Commands) /\ pendingCommand' \in BOOLEAN
    BY <1>2, ProcessQueueCases, Zenon DEF TypeOK
  <1>5. QED
    BY <1>3, <1>4

\* and leaves a command that is not pending only when the device is gone.
LEMMA ProcessQueueKeeps ==
    ASSUME TypeOK, NEW q \in Seq(Commands), NEW pending \in BOOLEAN,
           NEW next \in {"loop", "idle"}, ProcessQueue(q, pending, next),
           Chained(q), Len(q) <= QueueCapacity, pending => q # <<>>,
           fd # "open" /\ q # <<>> /\ ~pending => unplugsLeft < MaxUnplugs,
           next = "loop" => fd # "closed",
           fd' = fd, unplugsLeft' = unplugsLeft, fd = "dead" => unplugsLeft < MaxUnplugs
    PROVE  QueueInv'
  <1>1. queue' = q
    BY ProcessQueueCases
  <1>2. Chained(queue)'
    BY <1>1 DEF Chained
  <1>3. QED
    BY <1>1, <1>2, ProcessQueueCases DEF QueueInv

\* A line on which nothing is under way is as it should be.
LEMMA QuietLine ==
    ASSUME TypeOK', pc' # "undefined", serialOut' = <<>>, NoFinal(serialIn'),
           NoFinal(buffer') \/ (fd' # "open" /\ pc' # "loop")
    PROVE  LineInv'
  <1>1. serialIn' \in Seq(Units) /\ buffer' \in Seq(Units)
    BY DEF TypeOK
  <1>2. OneFinal(serialIn') /\ NoPrompt(serialIn')
    BY <1>1, Without
  <1>3. NoFinal(buffer') => OneFinal(buffer') /\ NoPrompt(buffer')
    BY <1>1, Without
  <1>4. HalfDuplex'
    BY <1>2 DEF HalfDuplex
  <1>5. BufferInv'
    BY <1>3 DEF BufferInv
  <1>6. PromptInv'
    BY <1>2, <1>3 DEF PromptInv
  <1>7. QED
    BY <1>4, <1>5, <1>6 DEF LineInv

\* So is one on which a command was written to a quiet line.
LEMMA WriteLine ==
    ASSUME TypeOK, TypeOK', NEW cmd \in Commands, serialOut = <<>>, serialOut' = Transmit(cmd),
           NoFinal(serialIn'), NoFinal(buffer'), pendingCommand' = TRUE, fd' = "open",
           pc' \in {"loop", "idle"}, cmd = "SEND_SMS" => promptMode'
    PROVE  LineInv'
  <1>1. serialIn' \in Seq(Units) /\ buffer' \in Seq(Units)
    BY DEF TypeOK
  <1>2. OneFinal(serialIn') /\ NoPrompt(serialIn') /\ OneFinal(buffer') /\ NoPrompt(buffer')
    BY <1>1, Without
  <1>3. Len(serialOut') <= 1 /\ (serialOut' # <<>> => Head(serialOut') = cmd)
    BY TransmitIs DEF TypeOK
  <1>4. HalfDuplex'
    BY <1>2, <1>3 DEF HalfDuplex
  <1>5. BufferInv'
    BY <1>2 DEF BufferInv
  <1>6. PromptInv'
    BY <1>2, <1>3 DEF PromptInv
  <1>7. QED
    BY <1>4, <1>5, <1>6 DEF LineInv

\* Parsing a line that acknowledges nothing leaves the line as it was.
LEMMA KeepLine ==
    ASSUME TypeOK, QueueInv, LineInv, lineUnchanged, pc = "loop", pc' # "undefined",
           serialOut' = serialOut, pendingCommand' = pendingCommand,
           queue # <<>> => Head(queue') = Head(queue),
           NEW n \in 0 .. Len(buffer),
           buffer' = buffer \/ buffer' = SubSeq(buffer, n + 1, Len(buffer))
    PROVE  LineInv'
  <1> SUFFICES ASSUME lateLeft' = MaxLate
               PROVE  HalfDuplex' /\ BufferInv' /\ PromptInv'
    BY DEF LineInv
  <1>1. HalfDuplex /\ BufferInv /\ PromptInv
    BY DEF LineInv, lineUnchanged
  <1>2. /\ NoFinal(buffer) => NoFinal(buffer')
        /\ OneFinal(buffer) => OneFinal(buffer')
        /\ NoPrompt(buffer) => NoPrompt(buffer')
    <2>1. CASE buffer' = buffer
      BY <2>1
    <2>2. CASE buffer' = SubSeq(buffer, n + 1, Len(buffer))
      <3>1. n + 1 \in 1 .. Len(buffer) + 1 /\ Len(buffer) \in 0 .. Len(buffer)
        BY DEF TypeOK
      <3>2. QED
        BY <2>2, <3>1, PartOfLine DEF TypeOK
    <2>3. QED
      BY <2>1, <2>2
  <1>3. HalfDuplex'
    BY <1>1 DEF HalfDuplex, lineUnchanged
  <1>4. BufferInv'
    BY <1>1, <1>2 DEF BufferInv, lineUnchanged, QueueInv
  <1>5. PromptInv'
    BY <1>1, <1>2 DEF PromptInv, lineUnchanged
  <1>6. QED
    BY <1>3, <1>4, <1>5

\* What is left of the buffer is a part of it.
LEMMA ConsumeType ==
    ASSUME TypeOK, NEW n \in 0 .. Len(buffer), Consume(n)
    PROVE  /\ buffer' \in Seq(Units)
           /\ buffer' = buffer \/ buffer' = SubSeq(buffer, n + 1, Len(buffer))
  <1>1. n + 1 \in 1 .. Len(buffer) + 1 /\ Len(buffer) \in 0 .. Len(buffer)
    BY DEF TypeOK
  <1>2. SubSeq(buffer, n + 1, Len(buffer)) \in Seq(Units)
    BY <1>1, PartOfLine DEF TypeOK
  <1>3. QED
    BY <1>2 DEF Consume, TypeOK

\* ackPending, called for the last unit of an answer: a command was pending, the line is
\* quiet, and the next command is written to it.
LEMMA AckKeeps ==
    ASSUME ModemAssumption, IInv, pc = "loop", buffer # <<>>, Head(buffer) \in Finals,
           AckPending, Consume(1), lineUnchanged,
           lateLeft = MaxLate /\ fd = "open" /\ Head(queue) = "START_SMS" => promptMode
    PROVE  IInv'
  <1> USE DEF IInv
  <1>1. 1 \in 0 .. Len(buffer) /\ Len(buffer) >= 1
    BY DEF TypeOK
  <1>2. buffer' \in Seq(Units) /\ (buffer' = buffer \/ buffer' = SubSeq(buffer, 2, Len(buffer)))
    BY <1>1, ConsumeType
  <1>3. CASE ~pendingCommand
    <2>1. /\ pc' = "undefined" /\ queue' = queue /\ pendingCommand' = pendingCommand
          /\ timer' = timer /\ serialOut' = serialOut
      BY <1>3 DEF AckPending
    <2>2. TypeOK'
      BY <1>2, <2>1 DEF TypeOK, lineUnchanged
    <2>3. QueueInv'
      BY <2>1 DEF QueueInv, lineUnchanged, Chained
    <2>4. lateLeft # MaxLate
      <3>1. ~NoFinal(buffer)
        BY <1>1 DEF NoFinal, TypeOK
      <3>2. QED
        BY <1>3, <3>1 DEF LineInv, BufferInv
    <2>5. QED
      BY <2>2, <2>3, <2>4 DEF LineInv, lineUnchanged
  <1>4. CASE pendingCommand
    <2> DEFINE q == Tail(queue)
    <2>1. ProcessQueue(q, FALSE, "loop")
      BY <1>4 DEF AckPending
    <2>2. queue \in Seq(Commands) /\ queue # <<>> /\ Chained(queue) /\ Len(queue) <= QueueCapacity
      BY <1>4 DEF TypeOK, QueueInv
    <2>3. /\ Chained(q) /\ q \in Seq(Commands) /\ Len(q) <= QueueCapacity
          /\ q # <<>> => Head(q) \in Commands /\ (Head(q) = "SEND_SMS" => Head(queue) = "START_SMS")
      <3>1. Len(queue) \in Nat /\ Len(q) \in Nat /\ QueueCapacity \in Nat
        BY <2>2 DEF ModemAssumption
      <3>2. QED
        BY <2>2, <3>1, TailChained
    <2> HIDE DEF q
    <2>4. TypeOK'
      <3>1. /\ pc' \in {"loop", "out_fail"} /\ queue' \in Seq(Commands) /\ pendingCommand' \in BOOLEAN
            /\ timer' \in {"armed", "expired"} /\ serialOut' \in Seq(Commands)
        BY <2>1, <2>3, ProcessQueueType
      <3>2. QED
        BY <1>2, <3>1 DEF TypeOK, lineUnchanged
    <2>5. QueueInv'
      <3>1. /\ fd # "closed" /\ (fd = "dead" => unplugsLeft < MaxUnplugs)
            /\ fd' = fd /\ unplugsLeft' = unplugsLeft
        BY DEF QueueInv, lineUnchanged
      <3>2. fd # "open" => unplugsLeft < MaxUnplugs
        BY <3>1 DEF TypeOK
      <3>3. QED
        BY <2>1, <2>3, <3>1, <3>2, ProcessQueueKeeps
    <2>6. LineInv'
      <3> SUFFICES ASSUME lateLeft = MaxLate
                   PROVE  LineInv'
        BY DEF LineInv, lineUnchanged
      <3>1. OneFinal(buffer)
        BY DEF LineInv, BufferInv
      <3>2. ~NoFinal(buffer) /\ NoFinal(SubSeq(buffer, 2, Len(buffer)))
        BY <3>1, FirstIsFinal DEF TypeOK
      <3>3. serialOut = <<>> /\ NoFinal(serialIn) /\ NoFinal(serialIn')
        BY <3>2 DEF LineInv, BufferInv, lineUnchanged
      <3>4. pc' = "loop" => NoFinal(buffer')
        <4>1. pc' = "loop" => buffer' = SubSeq(buffer, 2, Len(buffer))
          BY DEF Consume
        <4>2. QED
          BY <3>2, <4>1
      <3>5. CASE serialOut' = serialOut
        <4>1. CASE pc' = "loop"
          BY <2>4, <3>3, <3>4, <3>5, <4>1, QuietLine
        <4>2. CASE pc' = "out_fail" /\ fd # "open"
          BY <2>4, <3>3, <3>5, <4>2, QuietLine DEF lineUnchanged
        <4>3. CASE fd = "open" /\ pc' # "loop"
          BY <2>1, <4>3, ProcessQueueCases
        <4>4. QED
          BY <2>1, <4>1, <4>2, <4>3, ProcessQueueCases
      <3>6. CASE /\ fd = "open" /\ q # <<>> /\ serialOut' = Transmit(Head(q))
                 /\ pendingCommand' = TRUE /\ pc' = "loop"
        <4>1. Head(q) \in Commands /\ (Head(q) = "SEND_SMS" => promptMode')
          BY <2>3, <3>6 DEF lineUnchanged
        <4>2. fd' = "open"
          BY <3>6 DEF lineUnchanged
        <4>3. QED
          BY <2>4, <3>3, <3>4, <3>6, <4>1, <4>2, WriteLine
      <3>7. QED
        BY <2>1, <3>5, <3>6, ProcessQueueCases
    <2>7. QED
      BY <2>4, <2>5, <2>6
  <1>5. QED
    BY <1>3, <1>4

\* queueConstant and queueSms, called for a line: what is pending stays the first command, and
\* a command is written only when the queue was empty and the line quiet.
LEMMA EnqueueKeeps ==
    ASSUME ModemAssumption, IInv, pc = "loop", NEW c, c \in {<<"POLL">>, <<"START_SMS", "SEND_SMS">>},
           Enqueue(c, "loop"), NEW n \in 1 .. Len(buffer), Consume(n), lineUnchanged
    PROVE  IInv'
  <1> USE DEF IInv
  <1>1. n \in 0 .. Len(buffer)
    OBVIOUS
  <1>2. buffer' \in Seq(Units) /\ (buffer' = buffer \/ buffer' = SubSeq(buffer, n + 1, Len(buffer)))
    BY <1>1, ConsumeType
  <1>3. fd # "closed" /\ (queue # <<>> => pendingCommand) /\ (pendingCommand => queue # <<>>)
    BY DEF QueueInv
  <1>4. CASE Len(queue) + Len(c) > QueueCapacity
    <2>1. /\ pc' = "out_fail" /\ queue' = queue /\ pendingCommand' = pendingCommand
          /\ timer' = timer /\ serialOut' = serialOut
      BY <1>4 DEF Enqueue
    <2>2. TypeOK'
      BY <1>2, <2>1 DEF TypeOK, lineUnchanged
    <2>3. QueueInv'
      BY <1>3, <2>1 DEF QueueInv, lineUnchanged, Chained
    <2>4. LineInv'
      BY <1>1, <1>2, <2>1, KeepLine
    <2>5. QED
      BY <2>2, <2>3, <2>4
  <1>5. CASE ~(Len(queue) + Len(c) > QueueCapacity)
    <2> DEFINE q == queue \o c
    <2>1. ProcessQueue(q, pendingCommand, "loop")
      BY <1>5 DEF Enqueue
    <2>2. queue \in Seq(Commands) /\ Chained(queue) /\ pendingCommand \in BOOLEAN
      BY DEF TypeOK, QueueInv
    <2>3. /\ Chained(q) /\ q \in Seq(Commands) /\ q # <<>> /\ Len(q) = Len(queue) + Len(c)
          /\ Head(q) \in Commands
          /\ queue # <<>> => Head(q) = Head(queue)
          /\ queue = <<>> => Head(q) # "SEND_SMS"
      BY <2>2, AppendChained
    <2> HIDE DEF q
    <2>4. Len(q) <= QueueCapacity
      <3>1. Len(q) \in Nat /\ QueueCapacity \in Nat
        BY <2>3 DEF ModemAssumption
      <3>2. QED
        BY <1>5, <2>3, <3>1
    <2>5. TypeOK'
      <3>1. /\ pc' \in {"loop", "out_fail"} /\ queue' \in Seq(Commands) /\ pendingCommand' \in BOOLEAN
            /\ timer' \in {"armed", "expired"} /\ serialOut' \in Seq(Commands)
        BY <2>1, <2>2, <2>3, ProcessQueueType
      <3>2. QED
        BY <1>2, <3>1 DEF TypeOK, lineUnchanged
    <2>6. QueueInv'
      <3>1. /\ fd # "closed" /\ (fd = "dead" => unplugsLeft < MaxUnplugs)
            /\ fd' = fd /\ unplugsLeft' = unplugsLeft
        BY DEF QueueInv, lineUnchanged
      <3>2. fd # "open" => unplugsLeft < MaxUnplugs
        BY <3>1 DEF TypeOK
      <3>3. QED
        BY <2>1, <2>2, <2>3, <2>4, <3>1, <3>2, ProcessQueueKeeps
    <2>7. LineInv'
      <3>1. CASE serialOut' = serialOut /\ pendingCommand' = pendingCommand
        <4>1. queue' = q /\ pc' # "undefined"
          <5>1. queue' = q
            BY <2>1 DEF ProcessQueue
          <5>2. pc' \in {"loop", "out_fail"}
            BY <2>1, <2>2, <2>3, ProcessQueueType
          <5>3. QED
            BY <5>1, <5>2
        <4>2. queue # <<>> => Head(queue') = Head(queue)
          BY <2>3, <4>1
        <4>3. QED
          BY <1>1, <1>2, <3>1, <4>1, <4>2, KeepLine
      <3>2. CASE /\ fd = "open" /\ pendingCommand = FALSE /\ serialOut' = Transmit(Head(q))
                 /\ pendingCommand' = TRUE /\ pc' = "loop"
        <4> SUFFICES ASSUME lateLeft = MaxLate
                     PROVE  LineInv'
          BY DEF LineInv, lineUnchanged
        <4>1. serialOut = <<>> /\ NoFinal(serialIn) /\ NoFinal(buffer) /\ queue = <<>>
          BY <1>3, <3>2 DEF LineInv, HalfDuplex, BufferInv
        <4>2. NoFinal(buffer')
          <5>1. n + 1 \in 1 .. Len(buffer) + 1 /\ Len(buffer) \in 0 .. Len(buffer)
            BY DEF TypeOK
          <5>2. NoFinal(SubSeq(buffer, n + 1, Len(buffer)))
            BY <4>1, <5>1, PartOfLine DEF TypeOK
          <5>3. QED
            BY <1>2, <4>1, <5>2
        <4>3. fd' = "open" /\ NoFinal(serialIn')
          BY <3>2, <4>1 DEF lineUnchanged
        <4>4. QED
          BY <2>3, <2>5, <3>2, <4>1, <4>2, <4>3, WriteLine
      <3>3. QED
        BY <2>1, <2>2, <3>1, <3>2, ProcessQueueCases
    <2>8. QED
      BY <2>5, <2>6, <2>7
  <1>6. QED
    BY <1>4, <1>5

\* A disconnect leaves a quiet line, unless what is on it comes late.
LEMMA DisconnectKeeps ==
    ASSUME ModemAssumption, TypeOK, LineInv, Disconnect
    PROVE  /\ fd' = "closed" /\ promptMode' \in BOOLEAN
           /\ serialIn' \in Seq(Units) /\ serialOut' \in Seq(Commands)
           /\ lateLeft' \in Nat /\ lateLeft' <= MaxLate
           /\ TypeOK' /\ pc' \notin {"undefined", "loop"} => LineInv'
  <1>1. MaxLate \in Nat
    BY DEF ModemAssumption
  <1>2. CASE serialIn' = <<>> /\ serialOut' = <<>> /\ promptMode' = FALSE /\ UNCHANGED lateLeft
    <2>1. NoFinal(serialIn')
      BY <1>2 DEF NoFinal
    <2>2. fd' = "closed"
      BY DEF Disconnect
    <2>3. TypeOK' /\ pc' \notin {"undefined", "loop"} => LineInv'
      BY <1>2, <2>1, <2>2, QuietLine
    <2>4. lateLeft' \in Nat /\ lateLeft' <= MaxLate
      BY <1>2 DEF TypeOK
    <2>5. serialIn' \in Seq(Units) /\ serialOut' \in Seq(Commands)
      BY <1>2
    <2>6. promptMode' \in BOOLEAN
      BY <1>2, Zenon
    <2>7. QED
      BY <2>2, <2>3, <2>4, <2>5, <2>6
  <1>3. CASE /\ lateLeft > 0 /\ promptMode' = FALSE /\ lateLeft' = lateLeft - 1
             /\ UNCHANGED <<serialIn, serialOut>>
    <2>1. fd' = "closed" /\ lateLeft' \in Nat /\ lateLeft' <= MaxLate /\ lateLeft' # MaxLate
      BY <1>1, <1>3 DEF Disconnect, TypeOK
    <2>2. LineInv'
      BY <2>1 DEF LineInv
    <2>3. QED
      BY <1>3, <2>1, <2>2 DEF TypeOK
  <1>4. CASE fd # "open" /\ UNCHANGED <<promptMode, serialIn, serialOut, lateLeft>>
    <2>1. fd' = "closed"
      BY DEF Disconnect
    <2>2. lateLeft = MaxLate => serialOut' = <<>> /\ NoFinal(serialIn')
      BY <1>4 DEF LineInv, HalfDuplex
    <2>3. ASSUME TypeOK', pc' \notin {"undefined", "loop"}, lateLeft = MaxLate
          PROVE  LineInv'
      BY <2>1, <2>2, <2>3, QuietLine
    <2>4. lateLeft # MaxLate => LineInv'
      BY <1>4 DEF LineInv
    <2>5. QED
      BY <1>4, <2>1, <2>3, <2>4 DEF TypeOK
  <1>5. QED
    BY <1>2, <1>3, <1>4 DEF Disconnect

\* An answer is a sequence of units of which only the last one ends it, and it has a prompt only
\* when it is one.
LEMMA AnswersShape ==
    ASSUME NEW cmd \in Commands, NEW a, a \in Answers(cmd) \cup {<<Line("ERROR")>>}
    PROVE  /\ a \in Seq(Units) /\ OneFinal(a)
           /\ a # <<Line("PROMPT")>> => NoPrompt(a)
           /\ Len(a) = 3 => smsLeft # 0
  <1>1. \/ \E u \in Finals : a = <<u>>
        \/ smsLeft # 0 /\ \E x \in Units \ Finals, y \in Units \ Finals : a = <<x, y, Line("OK")>>
    <2>1. /\ \A m \in Messages : Header(m) \in Units \ Finals /\ Content(m) \in Units \ Finals
          /\ Line("BAD_CMGL") \in Units \ Finals /\ Line("OTHER") \in Units \ Finals
          /\ Line("OK") \in Finals /\ Line("ERROR") \in Finals /\ Line("PROMPT") \in Finals
      BY UnitsDiffer DEF Finals
    <2>2. CASE a = <<Line("ERROR")>>
      BY <2>1, <2>2
    <2>3. CASE a \in Answers(cmd)
      <3>1. CASE cmd = "POLL"
        <4>1. \/ a = <<Line("OK")>>
              \/ smsLeft # 0 /\ \E m \in Messages : a = <<Header(m), Content(m), Line("OK")>>
              \/ smsLeft # 0 /\ a = <<Line("BAD_CMGL"), Line("OTHER"), Line("OK")>>
          BY <2>3, <3>1 DEF Answers
        <4>2. QED
          BY <2>1, <4>1
      <3>2. CASE cmd # "POLL"
        <4>1. a = <<Line("OK")>> \/ a = <<Line("PROMPT")>>
          BY <2>3, <3>2 DEF Answers, Commands
        <4>2. QED
          BY <2>1, <4>1
      <3>3. QED
        BY <3>1, <3>2
    <2>4. QED
      BY <2>2, <2>3
  <1>2. ASSUME NEW u \in Finals, a = <<u>>
        PROVE  /\ a \in Seq(Units) /\ OneFinal(a) /\ Len(a) # 3
               /\ a # <<Line("PROMPT")>> => NoPrompt(a)
    <2>1. u \in Units
      BY UnitsDiffer
    <2>2. a \in Seq(Units) /\ Len(a) = 1 /\ a[1] = u
      BY <1>2, <2>1
    <2>3. OneFinal(a)
      BY <2>2 DEF OneFinal
    <2>4. a # <<Line("PROMPT")>> => NoPrompt(a)
      BY <1>2, <2>2 DEF NoPrompt
    <2>5. QED
      BY <2>2, <2>3, <2>4
  <1>3. ASSUME NEW x \in Units \ Finals, NEW y \in Units \ Finals, a = <<x, y, Line("OK")>>
        PROVE  a \in Seq(Units) /\ OneFinal(a) /\ NoPrompt(a)
    <2>1. Line("OK") \in Units /\ Line("OK") # Line("PROMPT") /\ Line("PROMPT") \in Finals
      BY UnitsDiffer
    <2>2. /\ a \in Seq(Units) /\ Len(a) = 3
          /\ a[1] \notin Finals /\ a[2] \notin Finals /\ a[3] = Line("OK")
      BY <1>3, <2>1
    <2>3. OneFinal(a)
      <3>1. ASSUME NEW i \in 1 .. 3, a[i] \in Finals
            PROVE  i = 3
        BY <2>2, <3>1
      <3>2. QED
        BY <2>2, <3>1 DEF OneFinal
    <2>4. NoPrompt(a)
      <3>1. a[1] # Line("PROMPT") /\ a[2] # Line("PROMPT") /\ a[3] # Line("PROMPT")
        BY <2>1, <2>2
      <3>2. QED
        BY <2>2, <3>1 DEF NoPrompt
    <2>5. QED
      BY <2>2, <2>3, <2>4
  <1>4. QED
    BY <1>1, <1>2, <1>3

-----------------------------------------------------------------------------
(***************************************************************************)
(* The invariant is inductive: one lemma per handler, one step per action. *)
(***************************************************************************)

\* The timer of the client: it connects, gives up a command that timed out, or polls.
LEMMA TimerKeeps ==
    ASSUME ModemAssumption, IInv, OnTimerFd
    PROVE  IInv'
  <1> USE DEF IInv
  <1>1. CASE TimerOpenFails
    <2>1. TypeOK'
      BY <1>1 DEF TimerOpenFails, TypeOK, modem
    <2>2. QueueInv'
      BY <1>1 DEF TimerOpenFails, QueueInv, Chained, modem
    <2>3. LineInv'
      BY <1>1 DEF TimerOpenFails, LineInv, HalfDuplex, BufferInv, PromptInv, modem
    <2>4. QED
      BY <2>1, <2>2, <2>3
  <1>2. CASE TimerConnects
    <2>1. "INIT" \in Commands /\ "POLL" \in Commands
      BY DEF Commands
    <2>2. serialOut' \in Seq(Commands) /\ serialOut' = Transmit("INIT")
      BY <1>2, <2>1, TransmitIs DEF TimerConnects, TypeOK
    <2>3. /\ queue' \in Seq(Commands) /\ Len(queue') = 2 /\ queue' # <<>>
          /\ queue'[1] = "INIT" /\ queue'[2] = "POLL"
      BY <1>2, <2>1 DEF TimerConnects
    <2>4. TypeOK'
      BY <1>2, <2>2, <2>3 DEF TimerConnects, TypeOK
    <2>5. QueueInv'
      <3>1. Chained(queue')
        BY <2>3 DEF Chained
      <3>2. Len(queue') <= QueueCapacity
        BY <2>3 DEF ModemAssumption
      <3>3. QED
        BY <1>2, <2>3, <3>1, <3>2 DEF TimerConnects, QueueInv
    <2>6. LineInv'
      <3>1. CASE lateLeft = MaxLate
        <4>1. serialOut = <<>> /\ NoFinal(serialIn) /\ serialIn' = serialIn
          BY <1>2, <3>1 DEF TimerConnects, LineInv, HalfDuplex
        <4>2. NoFinal(buffer') /\ pc' = "idle" /\ fd' = "open" /\ pendingCommand' = TRUE
          BY <1>2 DEF TimerConnects, NoFinal
        <4>3. QED
          BY <2>1, <2>2, <2>4, <4>1, <4>2, WriteLine
      <3>2. CASE lateLeft # MaxLate
        BY <1>2, <3>2 DEF TimerConnects, LineInv
      <3>3. QED
        BY <3>1, <3>2
    <2>7. QED
      BY <2>4, <2>5, <2>6
  <1>3. CASE TimerConnectFails
    <2>1. /\ "INIT" \in Commands /\ unplugsLeft \in Nat /\ unplugsLeft > 0
          /\ unplugsLeft <= MaxUnplugs /\ MaxUnplugs \in Nat /\ QueueCapacity \in Nat
      BY <1>3 DEF TimerConnectFails, TypeOK, Commands, ModemAssumption
    <2>2. /\ queue' \in Seq(Commands) /\ buffer' \in Seq(Units)
          /\ pendingCommand' => queue' # <<>>
          /\ Chained(queue') /\ Len(queue') <= QueueCapacity
      <3>1. CASE UNCHANGED <<buffer, queue, pendingCommand>>
        BY <3>1 DEF TypeOK, QueueInv
      <3>2. CASE buffer' = <<>> /\ queue' = <<"INIT">> /\ pendingCommand' = FALSE
        <4>1. Len(queue') = 1 /\ queue' \in Seq(Commands)
          BY <2>1, <3>2
        <4>2. QED
          BY <2>1, <3>2, <4>1 DEF Chained, ModemAssumption
      <3>3. QED
        BY <1>3, <3>1, <3>2 DEF TimerConnectFails
    <2>3. TypeOK'
      <3>1. pendingCommand' \in BOOLEAN /\ plugged' \in BOOLEAN /\ promptMode' \in BOOLEAN
        BY <1>3, Zenon DEF TimerConnectFails, TypeOK
      <3>2. QED
        BY <1>3, <2>1, <2>2, <3>1 DEF TimerConnectFails, TypeOK
    <2>4. QueueInv'
      BY <1>3, <2>1, <2>2 DEF TimerConnectFails, QueueInv
    <2>5. LineInv'
      <3>1. /\ pc' = "idle" /\ fd' = "closed" /\ serialOut' = <<>> /\ serialIn' = <<>>
            /\ NoFinal(serialIn')
        BY <1>3 DEF TimerConnectFails, NoFinal
      <3>2. QED
        BY <2>3, <3>1, QuietLine
    <2>6. QED
      BY <2>3, <2>4, <2>5
  <1>4. CASE TimerDisconnects
    <2>1. Disconnect
      BY <1>4 DEF TimerDisconnects
    <2>2. /\ fd' = "closed" /\ promptMode' \in BOOLEAN
          /\ serialIn' \in Seq(Units) /\ serialOut' \in Seq(Commands)
          /\ lateLeft' \in Nat /\ lateLeft' <= MaxLate
          /\ TypeOK' /\ pc' \notin {"undefined", "loop"} => LineInv'
      BY <2>1, DisconnectKeeps
    <2>3. TypeOK'
      BY <1>4, <2>2 DEF TimerDisconnects, TypeOK
    <2>4. QueueInv'
      BY <1>4, <2>2 DEF TimerDisconnects, QueueInv, Chained
    <2>5. LineInv'
      BY <1>4, <2>2, <2>3 DEF TimerDisconnects
    <2>6. QED
      BY <2>3, <2>4, <2>5
  <1>5. CASE TimerPolls
    <2>1. /\ queue = <<>> /\ pendingCommand = FALSE /\ pc = "idle" /\ pc' = "idle"
          /\ fd # "closed" /\ timer' = "armed"
      BY <1>5 DEF TimerPolls, QueueInv, TypeOK
    <2>2. "POLL" \in Commands /\ QueueCapacity \in Nat /\ QueueCapacity >= 2
      BY DEF Commands, ModemAssumption
    <2>3. Len(queue) < QueueCapacity
      BY <2>1, <2>2
    <2>4. queue' = <<"POLL">>
      BY <1>5, <2>1, <2>3 DEF TimerPolls
    <2>5. /\ queue' \in Seq(Commands) /\ Len(queue') = 1 /\ queue' # <<>> /\ Head(queue') = "POLL"
          /\ Chained(queue') /\ Len(queue') <= QueueCapacity
      BY <2>2, <2>4 DEF Chained
    <2>6. CASE fd = "open"
      <3>1. /\ pendingCommand' = TRUE /\ serialOut' = Transmit("POLL")
            /\ UNCHANGED <<fd, serialIn, promptMode, lateLeft, buffer, pendingCmdTag, plugged,
                           smsLeft, cmtiLeft, unplugsLeft>>
        BY <1>5, <2>3, <2>5, <2>6 DEF TimerPolls
      <3>2. serialOut' \in Seq(Commands)
        BY <2>2, <3>1, TransmitIs DEF TypeOK
      <3>3. TypeOK'
        BY <2>1, <2>5, <3>1, <3>2 DEF TypeOK
      <3>4. QueueInv'
        BY <2>1, <2>5, <3>1 DEF QueueInv
      <3>5. LineInv'
        <4>1. CASE lateLeft = MaxLate
          <5>1. serialOut = <<>> /\ NoFinal(serialIn) /\ NoFinal(buffer)
            BY <2>1, <2>6, <4>1 DEF LineInv, HalfDuplex, BufferInv
          <5>2. NoFinal(serialIn') /\ NoFinal(buffer') /\ fd' = "open"
            BY <2>6, <3>1, <5>1
          <5>3. QED
            BY <2>1, <2>2, <3>1, <3>3, <5>1, <5>2, WriteLine
        <4>2. CASE lateLeft # MaxLate
          BY <3>1, <4>2 DEF LineInv
        <4>3. QED
          BY <4>1, <4>2
      <3>6. QED
        BY <3>3, <3>4, <3>5
    <2>7. CASE fd # "open"
      <3>1. Disconnect /\ pendingCommand' = pendingCommand
        BY <1>5, <2>7 DEF TimerPolls
      <3>2. /\ fd' = "closed" /\ promptMode' \in BOOLEAN
            /\ serialIn' \in Seq(Units) /\ serialOut' \in Seq(Commands)
            /\ lateLeft' \in Nat /\ lateLeft' <= MaxLate
            /\ TypeOK' /\ pc' \notin {"undefined", "loop"} => LineInv'
        BY <3>1, DisconnectKeeps
      <3>3. TypeOK'
        BY <1>5, <2>1, <2>5, <3>1, <3>2 DEF TimerPolls, TypeOK
      <3>4. QueueInv'
        BY <2>1, <2>5, <3>1, <3>2 DEF QueueInv
      <3>5. QED
        BY <2>1, <3>2, <3>3, <3>4
    <2>8. QED
      BY <2>6, <2>7
  <1>6. QED
    BY <1>1, <1>2, <1>3, <1>4, <1>5 DEF OnTimerFd

\* A read: the units read and the rest of the line share at most one last unit.
LEMMA ReadKeeps ==
    ASSUME ModemAssumption, IInv, Read
    PROVE  IInv'
  <1> USE DEF IInv
  <1>1. PICK n \in 1 .. Len(serialIn) :
          /\ buffer' = buffer \o SubSeq(serialIn, 1, n)
          /\ serialIn' = SubSeq(serialIn, n + 1, Len(serialIn))
    BY DEF Read
  <1> DEFINE r == SubSeq(serialIn, 1, n)
  <1>2. serialIn \in Seq(Units) /\ buffer \in Seq(Units)
    BY DEF TypeOK
  <1>3. /\ 1 \in 1 .. Len(serialIn) + 1 /\ n \in 0 .. Len(serialIn)
        /\ n + 1 \in 1 .. Len(serialIn) + 1 /\ Len(serialIn) \in 0 .. Len(serialIn)
    BY <1>2
  <1>4. /\ r \in Seq(Units)
        /\ NoFinal(serialIn) => NoFinal(r)
        /\ OneFinal(serialIn) => OneFinal(r)
        /\ NoPrompt(serialIn) => NoPrompt(r)
    BY <1>2, <1>3, PartOfLine
  <1>5. /\ serialIn' \in Seq(Units)
        /\ NoFinal(serialIn) => NoFinal(serialIn')
        /\ OneFinal(serialIn) => OneFinal(serialIn')
        /\ NoPrompt(serialIn) => NoPrompt(serialIn')
    BY <1>1, <1>2, <1>3, PartOfLine
  <1>6. OneFinal(serialIn) /\ ~NoFinal(r) => NoFinal(serialIn')
    BY <1>1, <1>2, NothingBehindFinal
  <1>7. buffer' = buffer \o r
    BY <1>1
  <1> HIDE DEF r
  <1>8. /\ buffer' \in Seq(Units)
        /\ NoFinal(buffer) /\ NoFinal(r) => NoFinal(buffer')
        /\ NoFinal(buffer) /\ OneFinal(r) => OneFinal(buffer')
        /\ OneFinal(buffer) /\ NoFinal(r) => OneFinal(buffer')
        /\ NoPrompt(buffer) /\ NoPrompt(r) => NoPrompt(buffer')
    BY <1>2, <1>4, <1>7, LineGrows
  <1>9. /\ pc = "idle" /\ pc' = "loop" /\ fd = "open" /\ fd' = "open"
        /\ pendingCmdTag' = IF pendingCommand THEN Tag(Head(queue)) ELSE "NO_CMD"
        /\ UNCHANGED <<timer, queue, pendingCommand, plugged, serialOut, promptMode,
                       smsLeft, cmtiLeft, unplugsLeft, lateLeft>>
    BY DEF Read
  <1>10. TypeOK'
    BY <1>5, <1>8, <1>9 DEF TypeOK
  <1>11. QueueInv'
    BY <1>9 DEF QueueInv, Chained
  <1>12. LineInv'
    <2> SUFFICES ASSUME lateLeft = MaxLate
                 PROVE  HalfDuplex' /\ BufferInv' /\ PromptInv'
      BY <1>9 DEF LineInv
    <2>1. HalfDuplex /\ BufferInv /\ PromptInv
      BY DEF LineInv
    <2>2. HalfDuplex'
      BY <1>5, <1>9, <2>1 DEF HalfDuplex
    <2>3. BufferInv'
      <3>1. CASE NoFinal(r)
        <4>1. OneFinal(buffer')
          BY <1>8, <1>9, <2>1, <3>1 DEF BufferInv
        <4>2. ~NoFinal(buffer') => NoFinal(serialIn') /\ serialOut' = <<>> /\ pendingCommand'
          BY <1>5, <1>8, <1>9, <2>1, <3>1 DEF BufferInv
        <4>3. QED
          BY <1>9, <4>1, <4>2 DEF BufferInv
      <3>2. CASE ~NoFinal(r)
        <4>1. ~NoFinal(serialIn)
          BY <1>4, <3>2
        <4>2. /\ OneFinal(serialIn) /\ serialOut = <<>> /\ pendingCommand /\ NoFinal(buffer)
          BY <1>9, <2>1, <4>1 DEF HalfDuplex, BufferInv
        <4>3. OneFinal(buffer') /\ NoFinal(serialIn')
          BY <1>4, <1>6, <1>8, <3>2, <4>2
        <4>4. QED
          BY <1>9, <4>2, <4>3 DEF BufferInv
      <3>3. QED
        BY <3>1, <3>2
    <2>4. PromptInv'
      BY <1>4, <1>5, <1>8, <1>9, <2>1 DEF PromptInv
    <2>5. QED
      BY <2>2, <2>3, <2>4
  <1>13. QED
    BY <1>10, <1>11, <1>12

\* A turn of the loop that acknowledges and queues nothing.
LEMMA ParseKeeps ==
    ASSUME ModemAssumption, IInv, pc = "loop", pc' \in {"loop", "out", "out_fail", "overrun"},
           queueUnchanged, lineUnchanged, NEW n \in 0 .. Len(buffer),
           buffer' = buffer \/ Consume(n)
    PROVE  IInv'
  <1> USE DEF IInv
  <1>1. buffer' \in Seq(Units) /\ (buffer' = buffer \/ buffer' = SubSeq(buffer, n + 1, Len(buffer)))
    <2>1. CASE buffer' = buffer
      BY <2>1 DEF TypeOK
    <2>2. CASE Consume(n)
      BY <2>2, ConsumeType
    <2>3. QED
      BY <2>1, <2>2
  <1>2. TypeOK'
    BY <1>1 DEF TypeOK, queueUnchanged, lineUnchanged
  <1>3. QueueInv'
    BY DEF QueueInv, Chained, queueUnchanged, lineUnchanged
  <1>4. LineInv'
    BY <1>1, KeepLine DEF queueUnchanged
  <1>5. QED
    BY <1>2, <1>3, <1>4

\* The loop over the lines: the tag that was looked at once is the tag of the command that is
\* acknowledged, although the queue grows in between.
LEMMA LoopKeeps ==
    ASSUME ModemAssumption, IInv,
           \/ LineOk \/ LinePrompt \/ LineAfterPrompt \/ LineError \/ LineCmti
           \/ LineOther \/ LineSms \/ LineSmsIncomplete \/ NoLine
    PROVE  IInv'
  <1> USE DEF IInv
  <1>0. buffer \in Seq(Units) /\ Len(buffer) \in Nat /\ (buffer # <<>> => Len(buffer) >= 1)
    BY DEF TypeOK
  <1>1. CASE LineOk
    <2>1. /\ pc = "loop" /\ buffer # <<>> /\ Head(buffer) = Line("OK") /\ Consume(1) /\ lineUnchanged
      BY <1>1 DEF LineOk, AtUnit
    <2>2. CASE pendingCmdTag \in {"NO_CMD", "START_SMS"}
      <3>1. pc' = "out_fail" /\ queueUnchanged /\ 1 \in 0 .. Len(buffer)
        BY <1>0, <1>1, <2>1, <2>2 DEF LineOk
      <3>2. QED
        BY <2>1, <3>1, ParseKeeps
    <2>3. CASE pendingCmdTag \notin {"NO_CMD", "START_SMS"}
      <3>1. AckPending
        BY <1>1, <2>3 DEF LineOk
      <3>2. Head(buffer) \in Finals
        BY <2>1 DEF Finals
      <3>3. ASSUME lateLeft = MaxLate
            PROVE  Head(queue) # "START_SMS"
        <4>1. ~NoFinal(buffer)
          BY <1>0, <2>1, <3>2 DEF NoFinal
        <4>2. pendingCmdTag = Tag(Head(queue))
          BY <2>1, <3>3, <4>1 DEF LineInv, BufferInv
        <4>3. QED
          BY <2>3, <4>2 DEF Tag
      <3>4. QED
        BY <2>1, <3>1, <3>2, <3>3, AckKeeps
    <2>4. QED
      BY <2>2, <2>3
  <1>2. CASE LinePrompt
    <2>1. /\ pc = "loop" /\ buffer # <<>> /\ Head(buffer) = Line("PROMPT") /\ Consume(1) /\ lineUnchanged
      BY <1>2 DEF LinePrompt, AtUnit
    <2>2. CASE pendingCmdTag # "START_SMS"
      <3>1. pc' = "out_fail" /\ queueUnchanged /\ 1 \in 0 .. Len(buffer)
        BY <1>0, <1>2, <2>1, <2>2 DEF LinePrompt
      <3>2. QED
        BY <2>1, <3>1, ParseKeeps
    <2>3. CASE pendingCmdTag = "START_SMS"
      <3>1. AckPending
        BY <1>2, <2>3 DEF LinePrompt
      <3>2. Head(buffer) \in Finals
        BY <2>1 DEF Finals
      <3>3. ~NoPrompt(buffer)
        BY <1>0, <2>1 DEF NoPrompt
      <3>4. lateLeft = MaxLate /\ fd = "open" => promptMode
        BY <3>3 DEF LineInv, PromptInv
      <3>5. QED
        BY <2>1, <3>1, <3>2, <3>4, AckKeeps
    <2>4. QED
      BY <2>2, <2>3
  <1>3. CASE LineAfterPrompt
    <2>1. PICK n \in 2 .. Len(buffer) : pc' = "loop" /\ Consume(n)
      BY <1>3 DEF LineAfterPrompt
    <2>2. n \in 0 .. Len(buffer) /\ pc = "loop" /\ queueUnchanged /\ lineUnchanged
      BY <1>0, <1>3 DEF LineAfterPrompt, AtUnit
    <2>3. QED
      BY <2>1, <2>2, ParseKeeps
  <1>4. CASE LineError
    <2>1. /\ pc = "loop" /\ pc' = "out_fail" /\ buffer' = buffer /\ 0 \in 0 .. Len(buffer)
          /\ queueUnchanged /\ lineUnchanged
      BY <1>0, <1>4 DEF LineError, AtUnit
    <2>2. QED
      BY <2>1, ParseKeeps
  <1>5. CASE LineCmti
    <2>1. /\ pc = "loop" /\ Enqueue(<<"POLL">>, "loop") /\ Consume(1) /\ lineUnchanged
          /\ 1 \in 1 .. Len(buffer)
      BY <1>0, <1>5 DEF LineCmti, AtUnit
    <2>2. QED
      BY <2>1, EnqueueKeeps
  <1>6. CASE LineOther
    <2>1. /\ pc = "loop" /\ pc' = "loop" /\ Consume(1) /\ 1 \in 0 .. Len(buffer)
          /\ queueUnchanged /\ lineUnchanged
      BY <1>0, <1>6 DEF LineOther
    <2>2. QED
      BY <2>1, ParseKeeps
  <1>7. CASE LineSms
    <2>1. PICK m \in Messages :
            /\ AtUnit(Header(m)) /\ Len(buffer) > 1
            /\ IF m = "ip" THEN Enqueue(<<"START_SMS", "SEND_SMS">>, "loop")
               ELSE pc' = "loop" /\ queueUnchanged
            /\ Consume(2) /\ lineUnchanged
      BY <1>7 DEF LineSms
    <2>2. pc = "loop" /\ 2 \in 0 .. Len(buffer) /\ 2 \in 1 .. Len(buffer)
      BY <1>0, <2>1 DEF AtUnit
    <2>3. CASE m = "ip"
      <3>1. Enqueue(<<"START_SMS", "SEND_SMS">>, "loop")
        BY <2>1, <2>3
      <3>2. QED
        BY <2>1, <2>2, <3>1, EnqueueKeeps
    <2>4. CASE m # "ip"
      <3>1. pc' = "loop" /\ queueUnchanged
        BY <2>1, <2>4
      <3>2. QED
        BY <2>1, <2>2, <3>1, ParseKeeps
    <2>5. QED
      BY <2>3, <2>4
  <1>8. CASE LineSmsIncomplete
    <2>1. /\ pc = "loop" /\ pc' \in {"overrun", "out"} /\ buffer' = buffer /\ 0 \in 0 .. Len(buffer)
          /\ queueUnchanged /\ lineUnchanged
      BY <1>0, <1>8 DEF LineSmsIncomplete, AtUnit
    <2>2. QED
      BY <2>1, ParseKeeps
  <1>9. CASE NoLine
    <2>1. /\ pc = "loop" /\ pc' = "out" /\ buffer' = buffer /\ 0 \in 0 .. Len(buffer)
          /\ queueUnchanged /\ lineUnchanged
      BY <1>0, <1>9 DEF NoLine
    <2>2. QED
      BY <2>1, ParseKeeps
  <1>10. QED
    BY <1>1, <1>2, <1>3, <1>4, <1>5, <1>6, <1>7, <1>8, <1>9

\* The ends of the handler: a failed read, the disconnect, and the queue processed once more.
LEMMA EndKeeps ==
    ASSUME ModemAssumption, IInv, ReadFails \/ OutFail \/ Out
    PROVE  IInv'
  <1> USE DEF IInv
  <1>1. CASE ReadFails
    <2>1. TypeOK'
      BY <1>1 DEF ReadFails, TypeOK, modem
    <2>2. QueueInv'
      BY <1>1 DEF ReadFails, QueueInv, Chained, modem
    <2>3. LineInv'
      BY <1>1 DEF ReadFails, LineInv, HalfDuplex, BufferInv, PromptInv, modem
    <2>4. QED
      BY <2>1, <2>2, <2>3
  <1>2. CASE OutFail
    <2>1. Disconnect
      BY <1>2 DEF OutFail
    <2>2. /\ fd' = "closed" /\ promptMode' \in BOOLEAN
          /\ serialIn' \in Seq(Units) /\ serialOut' \in Seq(Commands)
          /\ lateLeft' \in Nat /\ lateLeft' <= MaxLate
          /\ TypeOK' /\ pc' \notin {"undefined", "loop"} => LineInv'
      BY <2>1, DisconnectKeeps
    <2>3. TypeOK'
      BY <1>2, <2>2 DEF OutFail, TypeOK
    <2>4. QueueInv'
      BY <1>2, <2>2 DEF OutFail, QueueInv, Chained
    <2>5. LineInv'
      BY <1>2, <2>2, <2>3 DEF OutFail
    <2>6. QED
      BY <2>3, <2>4, <2>5
  <1>3. CASE Out
    <2>1. /\ pc = "out" /\ ProcessQueue(queue, pendingCommand, "idle")
          /\ buffer' = buffer /\ lineUnchanged
      BY <1>3 DEF Out
    <2>2. queue \in Seq(Commands) /\ pendingCommand \in BOOLEAN
      BY DEF TypeOK
    <2>3. /\ pc' \in {"idle", "out_fail"} /\ queue' \in Seq(Commands) /\ pendingCommand' \in BOOLEAN
          /\ timer' \in {"armed", "expired"} /\ serialOut' \in Seq(Commands)
      BY <2>1, <2>2, ProcessQueueType
    <2>4. TypeOK'
      BY <2>1, <2>3 DEF TypeOK, lineUnchanged
    <2>5. QueueInv'
      <3>1. /\ Chained(queue) /\ Len(queue) <= QueueCapacity /\ (pendingCommand => queue # <<>>)
            /\ queue # <<>> /\ ~pendingCommand => unplugsLeft < MaxUnplugs
            /\ fd = "dead" => unplugsLeft < MaxUnplugs
            /\ fd' = fd /\ unplugsLeft' = unplugsLeft
        BY <2>1 DEF QueueInv, lineUnchanged
      <3>2. QED
        BY <2>1, <2>2, <3>1, ProcessQueueKeeps
    <2>6. serialOut' = serialOut /\ pendingCommand' = pendingCommand /\ queue' = queue
      <3>1. fd = "open" /\ queue # <<>> => pendingCommand
        BY <2>1 DEF QueueInv
      <3>2. QED
        BY <2>1, <2>2, <3>1, ProcessQueueCases
    <2>7. LineInv'
      <3> SUFFICES ASSUME lateLeft = MaxLate
                   PROVE  pc' # "undefined" /\ HalfDuplex' /\ BufferInv' /\ PromptInv'
        BY <2>1 DEF LineInv, lineUnchanged
      <3>1. HalfDuplex /\ BufferInv /\ PromptInv
        BY DEF LineInv
      <3>2. HalfDuplex'
        BY <2>1, <2>6, <3>1 DEF HalfDuplex, lineUnchanged
      <3>3. BufferInv'
        BY <2>1, <2>3, <2>6, <3>1 DEF BufferInv, lineUnchanged
      <3>4. PromptInv'
        BY <2>1, <2>6, <3>1 DEF PromptInv, lineUnchanged
      <3>5. QED
        BY <2>3, <3>2, <3>3, <3>4
    <2>8. QED
      BY <2>4, <2>5, <2>7
  <1>4. QED
    BY <1>1, <1>2, <1>3

\* The timer runs out, the modem answers or notifies, its plug is pulled or put back.
LEMMA WorldKeeps ==
    ASSUME ModemAssumption, IInv, pc \notin {"undefined", "overrun"}, World
    PROVE  IInv'
  <1> USE DEF IInv
  <1>1. CASE Expire
    <2>1. TypeOK'
      BY <1>1 DEF Expire, TypeOK, modem
    <2>2. QueueInv'
      BY <1>1 DEF Expire, QueueInv, Chained, modem
    <2>3. LineInv'
      BY <1>1 DEF Expire, LineInv, HalfDuplex, BufferInv, PromptInv, modem
    <2>4. QED
      BY <2>1, <2>2, <2>3
  <1>2. CASE ModemAnswers
    <2> DEFINE cmd == Head(serialOut)
    <2>1. /\ serialOut # <<>> /\ serialOut' = Tail(serialOut)
          /\ UNCHANGED <<client, plugged, cmtiLeft, unplugsLeft, lateLeft>>
      BY <1>2 DEF ModemAnswers
    <2>2. cmd \in Commands /\ serialOut' \in Seq(Commands)
      BY <2>1 DEF TypeOK
    <2>3. QueueInv'
      BY <2>1 DEF QueueInv, Chained, client
    <2>4. CASE promptMode /\ cmd # "SEND_SMS"
      <3>1. UNCHANGED <<serialIn, promptMode, smsLeft>>
        BY <1>2, <2>4 DEF ModemAnswers
      <3>2. TypeOK'
        BY <2>1, <2>2, <3>1 DEF TypeOK, client
      <3>3. LineInv'
        <4>1. CASE lateLeft = MaxLate
          <5>1. /\ pc # "undefined" /\ NoFinal(serialIn) /\ NoFinal(buffer) /\ Len(serialOut) <= 1
                /\ fd = "open"
            BY <2>1, <4>1 DEF LineInv, HalfDuplex, BufferInv
          <5>2. serialOut' = <<>>
            BY <2>1, <5>1 DEF TypeOK
          <5>3. pc' # "undefined" /\ NoFinal(serialIn') /\ NoFinal(buffer')
            BY <2>1, <3>1, <5>1 DEF client
          <5>4. QED
            BY <3>2, <5>2, <5>3, QuietLine
        <4>2. CASE lateLeft # MaxLate
          BY <2>1, <4>2 DEF LineInv
        <4>3. QED
          BY <4>1, <4>2
      <3>4. QED
        BY <2>3, <3>2, <3>3
    <2>5. CASE ~(promptMode /\ cmd # "SEND_SMS")
      <3>1. PICK a \in Answers(cmd) \cup {<<Line("ERROR")>>} :
              /\ serialIn' = serialIn \o a
              /\ promptMode' = (a = <<Line("PROMPT")>>)
              /\ smsLeft' = IF Len(a) = 3 THEN smsLeft - 1 ELSE smsLeft
        BY <1>2, <2>5 DEF ModemAnswers
      <3>2. /\ a \in Seq(Units) /\ OneFinal(a)
            /\ a # <<Line("PROMPT")>> => NoPrompt(a)
            /\ Len(a) = 3 => smsLeft # 0
        BY <2>2, AnswersShape
      <3>3. /\ serialIn' \in Seq(Units)
            /\ NoFinal(serialIn) => OneFinal(serialIn')
            /\ NoPrompt(serialIn) /\ NoPrompt(a) => NoPrompt(serialIn')
        BY <3>1, <3>2, LineGrows DEF TypeOK
      <3>4. TypeOK'
        <4>1. promptMode' \in BOOLEAN
          BY <3>1
        <4>2. smsLeft' \in Nat
          BY <3>1, <3>2 DEF TypeOK
        <4>3. QED
          BY <2>1, <2>2, <3>3, <4>1, <4>2 DEF TypeOK, client
      <3>5. LineInv'
        <4> SUFFICES ASSUME lateLeft = MaxLate
                     PROVE  pc' # "undefined" /\ HalfDuplex' /\ BufferInv' /\ PromptInv'
          BY <2>1 DEF LineInv
        <4>1. /\ pc # "undefined" /\ NoFinal(serialIn) /\ NoFinal(buffer) /\ Len(serialOut) <= 1
              /\ fd = "open" /\ pendingCommand
          BY <2>1 DEF LineInv, HalfDuplex, BufferInv
        <4>2. serialOut' = <<>>
          BY <2>1, <4>1 DEF TypeOK
        <4>3. NoPrompt(serialIn) /\ NoPrompt(buffer) /\ OneFinal(buffer)
          BY <4>1, Without DEF TypeOK
        <4>4. /\ pc' = pc /\ fd' = fd /\ buffer' = buffer /\ pendingCommand' = pendingCommand
          BY <2>1 DEF client
        <4>5. HalfDuplex'
          BY <3>3, <4>1, <4>2, <4>4 DEF HalfDuplex
        <4>6. BufferInv'
          BY <4>1, <4>3, <4>4 DEF BufferInv
        <4>7. PromptInv'
          <5>1. promptMode' \/ NoPrompt(serialIn')
            BY <3>1, <3>2, <3>3, <4>3
          <5>2. QED
            BY <4>2, <4>3, <4>4, <5>1 DEF PromptInv
        <4>8. QED
          BY <4>1, <4>4, <4>5, <4>6, <4>7
      <3>6. QED
        BY <2>3, <3>4, <3>5
    <2>6. QED
      BY <2>4, <2>5
  <1>3. CASE ModemNotifies
    <2>1. PICK l \in {"CMTI", "OTHER"} : serialIn' = Append(serialIn, Line(l))
      BY <1>3 DEF ModemNotifies
    <2>2. /\ cmtiLeft > 0 /\ cmtiLeft' = cmtiLeft - 1
          /\ UNCHANGED <<client, plugged, serialOut, promptMode, smsLeft, unplugsLeft, lateLeft>>
      BY <1>3 DEF ModemNotifies
    <2> DEFINE u == <<Line(l)>>
    <2>3. Line(l) \in Units /\ Line(l) \notin Finals /\ Line("PROMPT") \in Finals
      BY UnitsDiffer
    <2>4. u \in Seq(Units) /\ NoFinal(u) /\ NoPrompt(u)
      BY <2>3 DEF NoFinal, NoPrompt
    <2>5. serialIn' = serialIn \o u
      BY <2>1, <2>3 DEF TypeOK
    <2> HIDE DEF u
    <2>6. /\ serialIn' \in Seq(Units)
          /\ NoFinal(serialIn) => NoFinal(serialIn')
          /\ OneFinal(serialIn) => OneFinal(serialIn')
          /\ NoPrompt(serialIn) => NoPrompt(serialIn')
      BY <2>4, <2>5, LineGrows DEF TypeOK
    <2>7. TypeOK'
      BY <2>2, <2>6 DEF TypeOK, client
    <2>8. QueueInv'
      BY <2>2 DEF QueueInv, Chained, client
    <2>9. LineInv'
      <3> SUFFICES ASSUME lateLeft = MaxLate
                   PROVE  pc' # "undefined" /\ HalfDuplex' /\ BufferInv' /\ PromptInv'
        BY <2>2 DEF LineInv
      <3>1. HalfDuplex /\ BufferInv /\ PromptInv /\ pc # "undefined"
        BY DEF LineInv
      <3>2. HalfDuplex'
        BY <2>2, <2>6, <3>1 DEF HalfDuplex, client
      <3>3. BufferInv'
        BY <2>2, <2>6, <3>1 DEF BufferInv, client
      <3>4. PromptInv'
        BY <2>2, <2>6, <3>1 DEF PromptInv, client
      <3>5. QED
        BY <2>2, <3>1, <3>2, <3>3, <3>4 DEF client
    <2>10. QED
      BY <2>7, <2>8, <2>9
  <1>4. CASE Unplug
    <2>1. /\ unplugsLeft \in Nat /\ unplugsLeft > 0 /\ unplugsLeft <= MaxUnplugs /\ MaxUnplugs \in Nat
          /\ unplugsLeft' = unplugsLeft - 1
      BY <1>4 DEF Unplug, TypeOK, ModemAssumption
    <2>2. /\ plugged' = FALSE /\ serialIn' = <<>> /\ serialOut' = <<>> /\ promptMode' = FALSE
          /\ fd' = (IF fd = "open" THEN "dead" ELSE fd)
          /\ UNCHANGED <<pc, timer, queue, pendingCommand, buffer, pendingCmdTag, smsLeft, cmtiLeft, lateLeft>>
      BY <1>4 DEF Unplug
    <2>3. TypeOK'
      <3>1. plugged' \in BOOLEAN /\ promptMode' \in BOOLEAN
        BY <2>2, Zenon
      <3>2. QED
        BY <2>1, <2>2, <3>1 DEF TypeOK
    <2>4. QueueInv'
      BY <2>1, <2>2 DEF QueueInv, Chained, TypeOK
    <2>5. LineInv'
      <3> SUFFICES ASSUME lateLeft = MaxLate
                   PROVE  pc' # "undefined" /\ HalfDuplex' /\ BufferInv' /\ PromptInv'
        BY <2>2 DEF LineInv
      <3>1. HalfDuplex /\ BufferInv /\ PromptInv /\ pc # "undefined"
        BY DEF LineInv
      <3>2. NoFinal(serialIn') /\ OneFinal(serialIn')
        BY <2>2 DEF NoFinal, OneFinal
      <3>3. fd' # "open"
        BY <2>2
      <3>4. HalfDuplex'
        BY <2>2, <3>2 DEF HalfDuplex
      <3>5. BufferInv'
        BY <2>2, <3>1, <3>2, <3>3 DEF BufferInv
      <3>6. PromptInv'
        BY <2>2, <3>3 DEF PromptInv
      <3>7. QED
        BY <2>2, <3>1, <3>4, <3>5, <3>6
    <2>6. QED
      BY <2>3, <2>4, <2>5
  <1>5. CASE Plug
    <2>1. TypeOK'
      BY <1>5 DEF Plug, TypeOK, client
    <2>2. QueueInv'
      BY <1>5 DEF Plug, QueueInv, Chained, client
    <2>3. LineInv'
      BY <1>5 DEF Plug, LineInv, HalfDuplex, BufferInv, PromptInv, client
    <2>4. QED
      BY <2>1, <2>2, <2>3
  <1>6. QED
    BY <1>1, <1>2, <1>3, <1>4, <1>5 DEF World

\* The invariant holds of every behaviour of modemClient.c: a device that vanishes and answers
\* that are late are part of it.
THEOREM Invariance == Spec => []IInv
  <1>1. Init => IInv
    <2> SUFFICES ASSUME Init
                 PROVE  IInv
      OBVIOUS
    <2>1. TypeOK
      <3>1. /\ MaxSms \in Nat /\ MaxCmti \in Nat /\ MaxUnplugs \in Nat /\ MaxLate \in Nat
        BY ModemAssumption DEF ModemAssumption
      <3>2. pendingCommand \in BOOLEAN /\ promptMode \in BOOLEAN /\ plugged \in BOOLEAN
        BY Zenon DEF Init
      <3>3. QED
        BY <3>1, <3>2 DEF Init, TypeOK
    <2>2. QueueInv
      BY ModemAssumption DEF Init, QueueInv, Chained, ModemAssumption
    <2>3. LineInv
      BY DEF Init, LineInv, HalfDuplex, BufferInv, PromptInv, NoFinal, OneFinal, NoPrompt
    <2>4. QED
      BY <2>1, <2>2, <2>3 DEF IInv
  <1>2. IInv /\ [Next]_vars => IInv'
    <2> SUFFICES ASSUME IInv, [Next]_vars
                 PROVE  IInv'
      OBVIOUS
    <2>1. CASE UNCHANGED vars
      BY <2>1 DEF vars, client, modem, IInv, TypeOK, QueueInv, Chained, LineInv, HalfDuplex,
                  BufferInv, PromptInv
    <2>2. CASE pc \notin {"undefined", "overrun"} /\ OnTimerFd
      BY <2>2, ModemAssumption, TimerKeeps
    <2>3. CASE pc \notin {"undefined", "overrun"} /\ World
      BY <2>3, ModemAssumption, WorldKeeps
    <2>4. CASE pc \notin {"undefined", "overrun"} /\ OnFd
      <3>1. CASE Read
        BY <3>1, ModemAssumption, ReadKeeps
      <3>2. CASE ReadFails \/ OutFail \/ Out
        BY <3>2, ModemAssumption, EndKeeps
      <3>3. CASE \/ LineOk \/ LinePrompt \/ LineAfterPrompt \/ LineError \/ LineCmti
                 \/ LineOther \/ LineSms \/ LineSmsIncomplete \/ NoLine
        BY <3>3, ModemAssumption, LoopKeeps
      <3>4. QED
        BY <2>4, <3>1, <3>2, <3>3 DEF OnFd
    <2>5. QED
      BY <2>1, <2>2, <2>3, <2>4 DEF Next
  <1>3. QED
    BY <1>1, <1>2, PTL DEF Spec

\* No queued command is forgotten: in the event loop a connected client has one pending exactly
\* when its queue is not empty, and the queue never outgrows commandQueue.
THEOREM CommandsRemembered == Spec => []NoCommandForgotten
  <1>1. IInv => NoCommandForgotten
    BY DEF IInv, TypeOK, QueueInv, NoCommandForgotten
  <1>2. QED
    BY <1>1, Invariance, PTL

\* Without an answer that is late the line is half duplex, the text of a message is written only
\* to a modem at its prompt, and ackPending's assertion holds.
THEOREM HalfDuplexLine == Spec => []OnlyLateAnswersConfuse
  <1>1. IInv => OnlyLateAnswersConfuse
    BY DEF IInv, LineInv, HalfDuplex, PromptInv, OnlyLateAnswersConfuse
  <1>2. QED
    BY <1>1, Invariance, PTL

\* The handler can go round between out and out_fail only after a device vanished.
THEOREM HangNeedsUnplugging == Spec => []HangsOnlyWhenUnplugged
  <1>1. IInv => HangsOnlyWhenUnplugged
    BY DEF IInv, QueueInv, HangsOnlyWhenUnplugged, Hung
  <1>2. QED
    BY <1>1, Invariance, PTL
=============================================================================
