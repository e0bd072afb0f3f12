---------------------------- MODULE MCTelnetServer ---------------------------
(***************************************************************************)
(* Two clients after each other that send two inputs each: bytes that are  *)
(* typed, every kind of command with the bytes that could be taken for     *)
(* another one (the longest has every byte of the size escaped), and       *)
(* everything the parser kicks for.                                        *)
(***************************************************************************)
EXTENDS TelnetServer

\* The sizes are spelled out as they are sent.
Sent(size) == <<"IAC", "SB", "NAWS">> \o size \o <<"IAC", "SE">>

TextInputs ==
    { [bytes |-> <<b>>, means |-> <<Write(b)>>] : b \in {"x", "NUL", "NL", "SB"} }

CommandInputs ==
    { [bytes |-> <<"CR", "NUL">>, means |-> <<Write("CR")>>],
      [bytes |-> <<"CR", "NL">>, means |-> <<Write("CR")>>],
      [bytes |-> <<"IAC", "IAC">>, means |-> <<Write("IAC")>>],
      [bytes |-> <<"IAC", "NOP">>, means |-> <<>>],
      [bytes |-> <<"IAC", "WILL", "IAC">>, means |-> <<>>],
      [bytes |-> Sent(<<"NUL", "x", "NUL", "NL">>),
       means |-> <<Resize(<<"NUL", "x", "NUL", "NL">>)>>],
      [bytes |-> Sent(<<"NUL", "IAC", "IAC", "SE", "x">>),
       means |-> <<Resize(<<"NUL", "IAC", "SE", "x">>)>>],
      [bytes |-> Sent(<<"IAC", "IAC", "IAC", "IAC", "IAC", "IAC", "IAC", "IAC">>),
       means |-> <<Resize(<<"IAC", "IAC", "IAC", "IAC">>)>>] }

\* Not telnet: the client is kicked.
GarbageInputs ==
    { [bytes |-> b, means |-> <<Kicked>>] : b \in
        { <<"CR", "x">>, <<"IAC", "SE">>, <<"IAC", "x">>, <<"IAC", "SB", "x">>,
          <<"IAC", "SB", "NAWS", "x", "IAC", "x">>,
          <<"IAC", "SB", "NAWS", "x", "x", "x", "x", "x", "SE">> } }

MCInputs == TextInputs \cup CommandInputs \cup GarbageInputs
=============================================================================
