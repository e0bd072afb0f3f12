----------------------------- MODULE WebPacker ------------------------------
(***************************************************************************)
(* The tool webPacker (hc/tools): a page is read into a buffer, and every  *)
(* include in the buffer is replaced by the file it names, found in the    *)
(* first of the include paths that has it, until none is left.             *)
(*                                                                         *)
(* Characters are numbers.  A file is a sequence of tokens, characters or  *)
(* includes, and the program sees the characters these are written in.     *)
(***************************************************************************)
EXTENDS CoreLibrary, SequencesExt

CONSTANTS
    Kinds,                      \* the kinds of include, in the order start handles them
    StartPattern, EndPattern,   \* of a kind
    Encoded64,                  \* the kind that is encoded
    Encode64(_),                \* base64_encode, which CoreLibrary models
    FdSize,                     \* sizeof(int32_t): the include paths are before the buffer
    PackerReserve,              \* the memory that is reserved, 2^32 bytes
    PackerCalls                 \* [page, paths]: the page's name and the include paths, which
                                \* are functions from names to tokens

VARIABLES
    packed,         \* the call
    packerPc,       \* "init", "includes", "exited" or "crashed"
    includeFds,     \* how many include paths are open
    alloc,
    packerBuffer,
    kind,           \* which of the includes is handled next
    complete,       \* none was found in this round
    packerStatus,   \* -1 until the program exits
    packerFault,    \* a system call or an allocation failed (ghost)
    output          \* <<>> until the output was written, then <<its content>>

packerVars == <<packed, packerPc, includeFds, alloc, packerBuffer, kind, complete, packerStatus, packerFault, output>>

PackerInit(calls) ==
    /\ packed \in calls
    /\ packerPc = "init" /\ includeFds = 0 /\ alloc = allocator_init(PackerReserve)
    /\ packerBuffer = <<>> /\ kind = 1 /\ complete = TRUE
    /\ packerStatus = -1 /\ packerFault = FALSE
    /\ output = <<>>

Char(c) == [include |-> "none", text |-> <<c>>]
Include(k, name) == [include |-> k, text |-> name]

Written(tokens) ==
    FlattenSeq([i \in DOMAIN tokens |->
        IF tokens[i].include = "none" THEN tokens[i].text
        ELSE StartPattern[tokens[i].include] \o tokens[i].text \o EndPattern[tokens[i].include]])

-----------------------------------------------------------------------------

MatchesAt(i, pattern) == SubSeq(packerBuffer, i, i + Len(pattern) - 1) = pattern

\* The first index of the pattern from start on, 0 for none.  The loop ends one before
\* the last place that the pattern fits in.
findPattern(start, pattern) ==
    LET found == {i \in start .. Len(packerBuffer) - Len(pattern) : MatchesAt(i, pattern)}
    IN  IF found = {} THEN 0 ELSE CHOOSE i \in found : \A j \in found : i <= j

\* cleanup_init: the include paths are closed and the memory is given back.
PackerExit(status, fault) ==
    /\ packerPc' = "exited" /\ packerStatus' = status /\ packerFault' = fault
    /\ includeFds' = 0 /\ alloc' = allocator_init(0)

\* init opens the include paths; if one cannot be opened it closes those that were.
OpenIncludePath ==
    /\ packerPc = "init" /\ includeFds < Len(packed.paths)
    /\ \/ /\ includeFds' = includeFds + 1
          /\ alloc' = allocator_resize(alloc, FdSize * includeFds', TRUE)
          /\ alloc'.status = 0
          /\ UNCHANGED <<packerPc, packerStatus, packerFault>>
       \/ PackerExit(1, TRUE)
    /\ UNCHANGED <<packed, packerBuffer, kind, complete, output>>

\* n bytes from an index of the buffer can be read.
Readable(memory, index, n) ==
    \A k \in 0 .. n - 1 : memory.committed[(FdSize * includeFds + index + k) \div PageSize]

\* replaceWithFile: the name is copied behind the buffer, which is then given its new
\* size, smaller ones too, before what follows the size characters at the index is moved
\* and the file is read.  A move from a page that was given back is a crash.  The file's
\* size is taken before it is read, and one with more or less content by then is a failure.
Has(name) == {i \in DOMAIN packed.paths : name \in DOMAIN packed.paths[i]}
Content(name) == Written(packed.paths[CHOOSE i \in Has(name) : \A j \in Has(name) : i <= j][name])
replaceWithFile(at, size, name, encode) ==
    LET insert == IF encode THEN Encode64(Content(name)) ELSE Content(name)
        tail   == SubSeq(packerBuffer, at + size, Len(packerBuffer))
        named  == allocator_resize(alloc, alloc.size + Len(name) + 1, TRUE)
        new    == SubSeq(packerBuffer, 1, at - 1) \o insert \o tail
        sized(decommits) == allocator_resize(named, FdSize * includeFds + Len(new) + 1, decommits)
    IN
    /\ Has(name) # {} /\ named.status = 0
    /\ \E memory \in {sized(TRUE), sized(FALSE)} :
          /\ memory.status = 0
          /\ alloc' = memory
          /\ IF Readable(memory, at + size - 1, Len(tail))
               THEN packerPc' = "includes" /\ packerBuffer' = new
               ELSE packerPc' = "crashed" /\ UNCHANGED packerBuffer
    /\ UNCHANGED <<includeFds, packerStatus, packerFault>>
replaceFails(name) == PackerExit(1, Has(name) # {}) /\ UNCHANGED packerBuffer

ReadPage ==
    /\ packerPc = "init" /\ includeFds = Len(packed.paths)
    /\ replaceWithFile(1, 0, packed.page, FALSE) \/ replaceFails(packed.page)
    /\ UNCHANGED <<packed, kind, complete, output>>

StartOf(k) == findPattern(1, StartPattern[k])

\* Mutated form of EndOf: the end pattern may be one before the start pattern.
EndOfAnywhere(k) == findPattern(1, EndPattern[k])
EndOf(k) == findPattern(StartOf(k), EndPattern[k])

AtInclude == packerPc = "includes" /\ kind <= Len(Kinds)

NoInclude ==
    /\ AtInclude /\ StartOf(Kinds[kind]) = 0
    /\ kind' = kind + 1
    /\ UNCHANGED <<packed, packerPc, includeFds, alloc, packerBuffer, complete, packerStatus, packerFault, output>>

UnclosedInclude ==
    /\ AtInclude /\ StartOf(Kinds[kind]) # 0 /\ EndOf(Kinds[kind]) = 0
    /\ PackerExit(1, FALSE)
    /\ UNCHANGED <<packed, packerBuffer, kind, complete, output>>

HandleInclude ==
    /\ AtInclude /\ StartOf(Kinds[kind]) # 0 /\ EndOf(Kinds[kind]) # 0
    /\ LET k == Kinds[kind]
           at == StartOf(k)
           name == SubSeq(packerBuffer, at + Len(StartPattern[k]), EndOf(k) - 1)
       IN  \/ replaceWithFile(at, EndOf(k) + Len(EndPattern[k]) - at, name, k = Encoded64)
           \/ replaceFails(name)
    /\ kind' = kind + 1 /\ complete' = FALSE
    /\ UNCHANGED <<packed, output>>

NextRound ==
    /\ packerPc = "includes" /\ kind > Len(Kinds) /\ ~complete
    /\ kind' = 1 /\ complete' = TRUE
    /\ UNCHANGED <<packed, packerPc, includeFds, alloc, packerBuffer, packerStatus, packerFault, output>>

WriteOutput ==
    /\ packerPc = "includes" /\ kind > Len(Kinds) /\ complete
    /\ \/ output' = <<packerBuffer>> /\ PackerExit(0, FALSE)
       \/ UNCHANGED output /\ PackerExit(1, TRUE)
    /\ UNCHANGED <<packed, packerBuffer, kind, complete>>

WebPacker ==
    \/ OpenIncludePath \/ ReadPage \/ NoInclude \/ UnclosedInclude \/ HandleInclude \/ NextRound \/ WriteOutput

-----------------------------------------------------------------------------
(***************************************************************************)
(* Properties.                                                             *)
(***************************************************************************)

\* A page with every include replaced, down to the given depth; includes of missing files
\* are left.
Expand(tokens, depth) ==
    LET file(name) == packed.paths[CHOOSE i \in Has(name) : \A j \in Has(name) : i <= j][name]
        at[d \in 0 .. depth, ts \in {tokens} \cup UNION {{packed.paths[i][n] : n \in DOMAIN packed.paths[i]} :
                                                         i \in DOMAIN packed.paths}] ==
            FlattenSeq([i \in DOMAIN ts |->
                CASE ts[i].include = "none" -> ts[i].text
                  [] ts[i].include = Encoded64 /\ Has(ts[i].text) # {} -> Encode64(Written(file(ts[i].text)))
                  [] ts[i].include \notin {"none", Encoded64} /\ Has(ts[i].text) # {} /\ d > 0
                        -> at[d - 1, file(ts[i].text)]
                  [] OTHER -> Written(<<ts[i]>>)])
    IN  at[depth, tokens]

Tokens == UNION {UNION {Range(packed.paths[i][name]) : name \in DOMAIN packed.paths[i]} : i \in DOMAIN packed.paths}
Includes == {t \in Tokens : t.include # "none"}

Missing == \E t \in Includes : Has(t.text) = {}

\* An include that is longer than what replaces it.
Shrinks == \E t \in Includes :
    Has(t.text) # {} /\ Len(Written(<<t>>)) >
        Len(IF t.include = Encoded64 THEN Encode64(Content(t.text)) ELSE Content(t.text))

\* The output is the page with its includes replaced, those in included files too, in
\* whatever order the three kinds are found, and an encoded file is not looked into.
\* webPacker gives up only for a missing file or a failed call, and for a page that ends
\* with an include, which it takes for an unclosed one; every include path is closed then.
\* It may crash, moving what it has just given back, but not on a page whose includes are
\* all at least as long written out.
PageComplete ==
    /\ packerPc = "exited" =>
          /\ includeFds = 0
          /\ packerStatus = 0 =>
                output = <<Expand(<<Include(Kinds[1], packed.page)>>, Len(Kinds) + 1)>>
          /\ packerStatus = 1 /\ ~packerFault =>
                \/ Missing \/ Has(packed.page) = {}
                \/ \E i \in Has(packed.page) : Last(packed.paths[i][packed.page]).include # "none"
    /\ packerPc = "crashed" => Shrinks
=============================================================================
