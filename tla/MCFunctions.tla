----------------------------- MODULE MCFunctions ----------------------------
(***************************************************************************)
(* Calls of the library and of the tools built on it, one at a time.  The  *)
(* curve is over the prime 2^20 - 3 with A = 5494, and its order is 8      *)
(* times the prime 130841; the hashes and ChaCha20 have words of eight     *)
(* bits and Poly1305 a modulus of 16 bits; AES, memmove and memset are as  *)
(* they are.  A record of the archive has two units.                       *)
(***************************************************************************)
EXTENDS CurveCalls, LibraryCalls, Archive, WebPacker

vars == <<curveVars, libraryVars, archiveVars, packerVars>>

\* One of the four programs runs.
Init ==
    \E program \in {"curve", "library", "archive", "webPacker"} :
        /\ CurveInit(IF program = "curve" THEN Calls ELSE {[op |-> "none"]})
        /\ IF program = "library" THEN LibraryInit ELSE LibraryIdle
        /\ ArchiveInit(IF program = "archive" THEN Trees ELSE {<<>>}, IF program = "archive" THEN ArgLists ELSE {<<>>})
        /\ PackerInit(IF program = "webPacker" THEN PackerCalls ELSE {[page |-> <<>>, paths |-> <<<<>>>>]})

notCurve == <<libraryVars, archiveVars, packerVars>>

Next ==
    \/ LadderLoop /\ UNCHANGED notCurve
    \/ LadderDone /\ UNCHANGED notCurve
    \/ BaseFirst /\ UNCHANGED notCurve
    \/ BaseOdd /\ UNCHANGED notCurve
    \/ BaseSixteen /\ UNCHANGED notCurve
    \/ BaseZero /\ UNCHANGED notCurve
    \/ BaseEven /\ UNCHANGED notCurve
    \/ BasepointDone /\ UNCHANGED notCurve
    \/ PublicDone /\ UNCHANGED notCurve
    \/ SignDone /\ UNCHANGED notCurve
    \/ VerifyStarts /\ UNCHANGED notCurve
    \/ Precompute /\ UNCHANGED notCurve
    \/ PrecomputeDone /\ UNCHANGED notCurve
    \/ DoubleLoop /\ UNCHANGED notCurve
    \/ VerifyDone /\ UNCHANGED notCurve
    \/ LibraryNext /\ UNCHANGED <<curveVars, archiveVars, packerVars>>
    \/ args # <<>> /\ ArchiveNext /\ UNCHANGED <<curveVars, libraryVars, packerVars>>
    \/ packed.page # <<>> /\ WebPacker /\ UNCHANGED <<curveVars, libraryVars, archiveVars>>

Spec == Init /\ [][Next]_vars

\* Some function with values that look random.
MCHash(in) ==
    LET mix[n \in 0 .. Len(in)] ==
            IF n = 0 THEN 7 ELSE MulModulo(mix[n - 1] + in[n] + 12345, 48271, 1048573)
        stream[k \in 0 .. 2 * ScalarBytes] ==
            IF k = 0 THEN mix[Len(in)] ELSE MulModulo(stream[k - 1] + k, 69621, 1048573)
    IN  [k \in 0 .. 2 * ScalarBytes - 1 |-> (stream[k + 1] \div 64) % ScalarByte]

MCSecrets == {0, 7, 349525, 1048575, 130841 * 4, 654321}
MCPublics == {1, 9, 26, 1048574}
MCSigners == {1, 2, 3}
MCMessages == {10, 11}
MCForgeries == {"none", "message", "key", "r", "s", "order", "orders"}
MCFieldInputs == [0 .. 4 -> {15, 26}] \cup {[n \in 0 .. 4 |-> IF n = 0 THEN k ELSE 15] : k \in 12 .. 15}
MCFieldSeconds == {[n \in 0 .. 4 |-> IF n = k THEN 26 ELSE m] : k \in 0 .. 4, m \in {0, 15}}

MCRotations == [a0 |-> <<7, 2, 3>>, a1 |-> <<1, 3, 2>>, b0 |-> <<2, 5, 6>>, b1 |-> <<6, 3, 1>>]
MCRoundKeys == [t \in 0 .. 23 |-> (t * 37 + 66) % 256]
MCQuarterKeys == [t \in 0 .. 3 |-> 90 + 31 * t]
MCInitial == [alg \in {"sha1", "sha2"} |->
                 [k \in 1 .. (IF alg = "sha1" THEN 5 ELSE 8) |-> (k * 59 + 47) % 256]]

MCMessage(n) == [k \in 1 .. n |-> (k * 7 + k * k) % 16]
MCHashed == {MCMessage(n) : n \in {0, 1, 27, 28, 31, 32, 33, 59, 60, 64, 65}}
MCPieces == {0, 1, 2, 3, 27, 31, 32, 33, 64}

MCClampMasks == <<59, 61, 15>>
MCPolyMessages == UNION {[1 .. n -> {0, 127}] : n \in 0 .. 5}
                  \cup {<<127, 127, 124, 127>>, <<127, 127, 125, 127>>, <<3, 99, 64, 17, 100, 7, 12>>}
MCPolyKeys == {<<1, 0, 0, 0>>, <<2, 0, 5, 9>>, <<127, 127, 127, 127>>, <<91, 77, 3, 64>>}

MCMemory == [a \in 0 .. 79 |-> a + 1]
MCMoves == {[d |-> 20 + k, s |-> 20, n |-> n] : k \in {-20, -17, -16, -15, -9, -8, -7, -3, -1, 0, 1, 2, 5, 8, 15, 16, 17, 20},
                                                n \in 0 .. 40}
MCEncoded == {[k \in 1 .. n |-> (k * 151 + n) % 256] : n \in 0 .. 13}
MCStrings == UNION {[1 .. n -> {45, 47, 48, 49, 50, 53, 56, 58, 65, 70, 71, 102, 103}] : n \in 0 .. 3}
             \cup {<<45, 49, 50, 56>>, <<45, 49, 50, 57>>, <<48, 48, 48, 50, 53, 53>>, <<50, 53, 54, 48>>,
                   <<48, 48, 102, 102>>, <<49, 48, 48>>, <<45, 49, 50, 57, 48>>}

MCAesWord(k) == <<k, (k * 3 + 1) % 256, (k * 7 + 129) % 256, 255 - k>>
MCAesCalls == {[in |-> [j \in 0 .. 3 |-> MCAesWord(k + 17 * j)], bytes |-> 64 * (k \div 64) .. 64 * (k \div 64) + 63,
                key |-> [j \in 1 .. nk |-> MCAesWord((k * 5 + 29 * j) % 256)]] :
               k \in {0, 77, 150, 200}, nk \in {4, 8}}
MCChaCalls == {[key |-> [j \in 1 .. 8 |-> (31 * j + k) % 256], low |-> k, high |-> 255 - k, nonce |-> 257 * k] :
               k \in {0, 1, 255}}
MCChaRotations == <<4, 3, 2, 7>>
MCChaConstant == <<101, 32, 50, 107>>

MCNameLength == <<1, 2, 3, 4, 5, 2>>
MCUnits(n) == File([k \in 1 .. n |-> IF k % 3 = 1 THEN ZeroUnit ELSE <<k>>])
MCTrees ==
    {<<1>> :> Directory @@ <<1, 2>> :> MCUnits(3) @@ <<2>> :> MCUnits(0) @@ <<4>> :> MCUnits(0),
     <<3>> :> Directory @@ <<1>> :> MCUnits(2) @@ <<3, 3>> :> Directory @@ <<3, 3, 1>> :> MCUnits(4),
     <<3>> :> Directory @@ <<3, 4>> :> Directory @@ <<2>> :> Directory,
     <<3>> :> Directory @@ <<3, 4>> :> Directory @@ <<3, 4, 1>> :> MCUnits(1),
     <<1>> :> MCUnits(8), <<2>> :> MCUnits(7), <<1>> :> Special @@ <<2>> :> MCUnits(1), <<>>}
MCArgLists ==
    LET o == [opt |-> "o"]
        a == [opt |-> "a"]
        d(n) == [opt |-> "d", name |-> n]
        p(path) == [opt |-> "p", path |-> path]
    IN  {<<o, a>>, <<o, d(1), p(<<1>>), a>>, <<o, p(<<2>>), a>>, <<a>>, <<o, d(2), o, a>>,
         <<p(<<4, 4, 3>>), o, d(1)>>, <<o, d(5), a>>, <<o, d(6)>>}

MCKinds == <<"html", "text", "encoded">>
MCStartPattern == [html |-> <<1, 2>>, text |-> <<5, 2>>, encoded |-> <<5, 6, 2>>]
MCEndPattern == [html |-> <<3, 4>>, text |-> <<3, 5>>, encoded |-> <<3, 5>>]
MCEncode64(s) == [k \in 1 .. Len(s) + 1 |-> IF k > Len(s) THEN 199 ELSE 100 + s[k]]
MCPagesTokens ==
    {<<Char(9)>>, <<Char(3), Char(5), Include("text", <<12>>), Char(8)>>,
     <<Include("html", <<12>>), Include("encoded", <<13>>), Char(7)>>,
     <<Char(3), Include("encoded", <<12>>), Include("html", <<13>>), Include("text", <<12>>), Char(4)>>,
     <<Char(8), Include("html", <<12>>)>>, <<Include("text", <<14>>), Char(7)>>}
MCIncluded ==
    {<<>>, <<Char(7), Char(3), Char(5)>>, <<Include("text", <<13>>)>>, <<Char(8), Include("encoded", <<13>>)>>}
MCPackerCalls ==
    {[page |-> <<10>>, paths |-> <<<<10>> :> p @@ <<12>> :> f, <<12>> :> <<Char(9)>> @@ <<13>> :> g>>] :
        p \in MCPagesTokens, f \in MCIncluded, g \in {<<Char(5), Char(1)>>, <<>>}}
    \cup {[page |-> <<11>>, paths |-> <<<<10>> :> <<Char(9)>>>>], [page |-> <<10>>, paths |-> <<>>]}
=============================================================================
