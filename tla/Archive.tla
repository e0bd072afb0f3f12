------------------------------ MODULE Archive -------------------------------
(***************************************************************************)
(* The tools tar and untar (hc/tools): tar walks a directory and writes a  *)
(* record for every entry, and untar makes the entries again from what was *)
(* written, a record of RecordSize units at a time.                        *)
(*                                                                         *)
(* A path is a sequence of names, a tree a function from paths to a        *)
(* directory, something special or a file with its units, of which         *)
(* ZeroUnit stands for zero bytes.  A header is one unit that holds its    *)
(* fields, and zeros up to the size of a record.                           *)
(***************************************************************************)
EXTENDS Integers, Sequences, SequencesExt, FiniteSets, TLC

CONSTANTS
    Names, NameLength,          \* names, compared as numbers by util_cstrCmp, and their lengths
    NotNames,                   \* ".." and arguments with a '/', which no directory lists
    MaxNameLen, MaxPrefixLen,   \* tar_MAX_NAME_LEN, tar_MAX_PREFIX_LEN
    SizeDigits,                 \* octal digits of the field for the size
    RecordSize,                 \* tar_RECORD_SIZE
    BufferSize,                 \* of tar's buffer
    Trees, ArgLists             \* what tar is called on and with

ZeroUnit == <<0>>
File(units) == [kind |-> "file", units |-> units]
Directory == [kind |-> "directory", units |-> <<>>]
Special == [kind |-> "special", units |-> <<>>]

MaxFileSize == 8 ^ SizeDigits - 1

VARIABLES
    tree,       \* the directory that is archived
    changed,    \* the file that was changed while it was copied (ghost)
    tarPc,      \* where tar is: "options", "directory", "entries", "copy" or "exited"
    args, argvIndex,    \* the options, and which is next
    outputOpen,
    prefix,
    stack,      \* struct state: the open directories and their names, the last one first
    currentFd,  \* the path currentFd was opened for
    fileSize,   \* stat.st_size of currentFd
    totalWritten,
    openFds,    \* the paths that add has opened and not closed
    archive,    \* what was written to outFd
    tarStatus,
    untar       \* untar's variables, and the tree it makes

tarVars == <<tree, changed, tarPc, args, argvIndex, outputOpen, prefix, stack, currentFd, fileSize,
             totalWritten, openFds, archive, tarStatus>>
archiveVars == <<tarVars, untar>>

NoFile == <<>>

ArchiveInit(trees, argLists) ==
    /\ tree \in trees
    /\ changed = {}
    /\ tarPc = "options" /\ args \in argLists /\ argvIndex = 1
    /\ outputOpen = FALSE
    /\ prefix = <<>>
    /\ stack = <<>> /\ currentFd = <<>> /\ fileSize = 0 /\ totalWritten = 0 /\ openFds = {}
    /\ archive = <<>>
    /\ tarStatus = 0
    /\ untar = [pos |-> 0, zeroRecordCount |-> 0, file |-> NoFile, size |-> 0, dest |-> <<>>,
                status |-> -1, fault |-> FALSE]

-----------------------------------------------------------------------------
(***************************************************************************)
(* Records.                                                                *)
(***************************************************************************)

Zeros(n) == [k \in 1 .. n |-> ZeroUnit]

\* Mutated form of PadBytes: a whole record is padded with another.
PadBytesAlways(n) == RecordSize - (n % RecordSize)

\* math_PAD_BYTES
PadBytes(n) == (-n) % RecordSize

OctalDigits(n) == [i \in 1 .. SizeDigits |-> (n \div 8 ^ (SizeDigits - i)) % 8]

parseSize(digits) == FoldLeft(LAMBDA size, digit : size * 8 + digit, 0, digits)

PathLen(path) == FoldLeft(LAMBDA len, name : len + NameLength[name] + (IF len > 0 THEN 1 ELSE 0), 0, path)

\* The checks of writeRecord; a size of -1 is a directory.
Recordable(name, size) ==
    /\ NameLength[name] <= MaxNameLen
    /\ PathLen(prefix) <= MaxPrefixLen
    /\ size <= MaxFileSize

Header(name, size) ==
    <<<<IF size < 0 THEN "5" ELSE "0", name, prefix, OctalDigits(IF size < 0 THEN 0 ELSE size)>>>>
        \o Zeros(RecordSize - 1)

\* writeBuffer: everything is written, or an error leaves a part of it.
writeBuffer(units) == archive' = archive \o units
writeBufferFails(units) == \E k \in 0 .. Len(units) - 1 : archive' = archive \o SubSeq(units, 1, k)

-----------------------------------------------------------------------------
(***************************************************************************)
(* tar.                                                                    *)
(***************************************************************************)

Exit(status) == tarPc' = "exited" /\ tarStatus' = status

addUnchanged == UNCHANGED <<stack, currentFd, fileSize, totalWritten, openFds>>

Arg == args[argvIndex]
Option(opt) == tarPc = "options" /\ argvIndex <= Len(args) /\ Arg.opt = opt

NextOption == argvIndex' = argvIndex + 1 /\ tarPc' = "options" /\ UNCHANGED tarStatus

\* -o: finishes the last output, whatever comes of that, and opens the next.
OpenOutput ==
    /\ Option("o")
    /\ \/ archive' = <<>> /\ outputOpen' = TRUE /\ NextOption
       \/ /\ \E k \in (IF outputOpen THEN 0 .. 2 * RecordSize ELSE {0}) : writeBuffer(Zeros(k))
          /\ Exit(1) /\ UNCHANGED <<outputOpen, argvIndex>>
    /\ UNCHANGED <<tree, changed, args, prefix, untar>> /\ addUnchanged

\* -p
SetPrefix ==
    /\ Option("p")
    /\ IF PathLen(Arg.path) <= MaxPrefixLen + 1 + MaxNameLen
       THEN prefix' = Arg.path /\ NextOption
       ELSE Exit(1) /\ UNCHANGED <<prefix, argvIndex>>
    /\ UNCHANGED <<tree, changed, args, outputOpen, archive, untar>> /\ addUnchanged

validateName(name) == name \notin NotNames /\ NameLength[name] <= MaxNameLen

\* -d
AddDirectory ==
    /\ Option("d")
    /\ \/ /\ outputOpen /\ validateName(Arg.name) /\ Recordable(Arg.name, -1)
          /\ writeBuffer(Header(Arg.name, -1))
          /\ NextOption
       \/ /\ outputOpen /\ validateName(Arg.name) /\ Recordable(Arg.name, -1)
          /\ writeBufferFails(Header(Arg.name, -1))
          /\ Exit(1) /\ UNCHANGED argvIndex
       \/ /\ ~(outputOpen /\ validateName(Arg.name) /\ Recordable(Arg.name, -1))
          /\ Exit(1) /\ UNCHANGED <<archive, argvIndex>>
    /\ UNCHANGED <<tree, changed, args, outputOpen, prefix, untar>> /\ addUnchanged

\* -a: add opens the directory.
AddContents ==
    /\ Option("a")
    /\ \/ /\ outputOpen
          /\ currentFd' = <<>> /\ openFds' = openFds \cup {<<>>} /\ tarPc' = "directory"
          /\ UNCHANGED tarStatus
       \/ Exit(1) /\ UNCHANGED <<currentFd, openFds>>
    /\ UNCHANGED <<tree, changed, args, argvIndex, outputOpen, prefix, stack, fileSize, totalWritten, archive, untar>>

\* cleanup_currentFd and cleanup_rootFds.
RootFds == {stack[i].rootFd : i \in DOMAIN stack}
AddFails(closed) ==
    /\ openFds' = openFds \ closed
    /\ Exit(1)
    /\ UNCHANGED <<tree, changed, args, argvIndex, outputOpen, prefix, stack, currentFd, fileSize, totalWritten, untar>>

Children(path) == {name \in Names : Append(path, name) \in DOMAIN tree}

\* One round of sortNames' outer loop: name is moved before the greater ones.
InsertName(names, name) ==
    LET below == {i \in DOMAIN names : \A k \in i .. Len(names) : name < names[k]}
        at == IF below = {} THEN Len(names) + 1 ELSE CHOOSE i \in below : \A k \in below : i <= k
    IN  InsertAt(names, at, name)

sortNames(names) == FoldLeft(InsertName, <<>>, names)

\* The names of the directory come in any order.
ReadDirectory ==
    /\ tarPc = "directory"
    /\ \/ /\ \E names \in SetToSeqs(Children(currentFd)) :
                stack' = <<[rootFd |-> currentFd, names |-> sortNames(names)]>> \o stack
          /\ tarPc' = "entries"
          /\ UNCHANGED <<tree, changed, args, argvIndex, outputOpen, prefix, currentFd, fileSize, totalWritten, openFds,
                         tarStatus, untar>>
       \/ AddFails({currentFd} \cup RootFds)
    /\ UNCHANGED archive

AtEntry == tarPc = "entries" /\ stack[1].names # <<>>
EntryName == Head(stack[1].names)
EntryPath == Append(stack[1].rootFd, EntryName)
EntrySize == IF tree[EntryPath] = Directory THEN -1 ELSE Len(tree[EntryPath].units)
PopName == stack' = [stack EXCEPT ![1].names = Tail(@)]

\* The entry is opened and its header written; a directory is entered.
WriteEntry ==
    /\ AtEntry
    /\ tree[EntryPath] # Special /\ Recordable(EntryName, EntrySize)
    /\ writeBuffer(Header(EntryName, EntrySize))
    /\ PopName
    /\ currentFd' = EntryPath
    /\ IF tree[EntryPath] = Directory THEN prefix' = Append(prefix, EntryName) ELSE UNCHANGED prefix
    /\ fileSize' = EntrySize /\ totalWritten' = 0
    /\ openFds' = IF EntrySize = 0 THEN openFds ELSE openFds \cup {EntryPath}
    /\ tarPc' = CASE EntrySize < 0 -> "directory" [] EntrySize = 0 -> "entries" [] EntrySize > 0 -> "copy"
    /\ UNCHANGED <<tree, changed, args, argvIndex, outputOpen, tarStatus, untar>>

\* Opening, the kind of file, the sizes of its fields, or writing the header.
WriteEntryFails ==
    /\ AtEntry
    /\ \/ UNCHANGED archive
       \/ tree[EntryPath] # Special /\ Recordable(EntryName, EntrySize) /\ writeBufferFails(Header(EntryName, EntrySize))
    /\ AddFails(RootFds)

\* The environment: the file grows, or loses its end.
ChangeFile ==
    /\ tarPc = "copy" /\ changed = {}
    /\ \/ tree' = [tree EXCEPT ![currentFd].units = Append(@, ZeroUnit)]
       \/ tree' = [tree EXCEPT ![currentFd].units = Front(@)]
    /\ changed' = {currentFd}
    /\ UNCHANGED <<tarPc, args, argvIndex, outputOpen, prefix, stack, currentFd, fileSize, totalWritten, openFds, archive,
                   tarStatus, untar>>

ReadUnits(n) == SubSeq(tree[currentFd].units, totalWritten + 1, totalWritten + n)

\* A read returns what it likes, at most the buffer, and this is written.
CopyPart ==
    /\ tarPc = "copy"
    /\ \E n \in 1 .. BufferSize :
          /\ totalWritten + n <= Len(tree[currentFd].units)
          /\ \/ /\ writeBuffer(ReadUnits(n))
                /\ totalWritten' = totalWritten + n
                /\ UNCHANGED <<tree, changed, tarPc, args, argvIndex, outputOpen, prefix, stack, currentFd, fileSize, openFds,
                               tarStatus, untar>>
             \/ writeBufferFails(ReadUnits(n)) /\ AddFails({currentFd} \cup RootFds)

\* The end of the file: its record is filled up.  It fails if the read does, if the file has
\* another size than its header says, or if the zeros cannot be written.
CopyDone ==
    /\ tarPc = "copy" /\ totalWritten >= Len(tree[currentFd].units)
    /\ \/ /\ totalWritten = fileSize
          /\ writeBuffer(Zeros(PadBytes(totalWritten)))
          /\ openFds' = openFds \ {currentFd}
          /\ tarPc' = "entries"
          /\ UNCHANGED <<tree, changed, args, argvIndex, outputOpen, prefix, stack, currentFd, fileSize, totalWritten, tarStatus, untar>>
       \/ /\ \/ UNCHANGED archive
             \/ totalWritten = fileSize /\ writeBufferFails(Zeros(PadBytes(totalWritten)))
          /\ AddFails({currentFd} \cup RootFds)

\* The last name of a directory was handled.
LeaveDirectory ==
    /\ tarPc = "entries" /\ stack[1].names = <<>>
    /\ openFds' = openFds \ {stack[1].rootFd}
    /\ stack' = Tail(stack)
    /\ IF Len(stack) = 1 THEN NextOption /\ UNCHANGED prefix
       ELSE prefix' = Front(prefix) /\ UNCHANGED <<argvIndex, tarPc, tarStatus>>
    /\ UNCHANGED <<tree, changed, args, outputOpen, currentFd, fileSize, totalWritten, archive, untar>>

\* The options are done: finaliseOutput writes the two records that end an archive.
FinaliseOutput ==
    /\ tarPc = "options" /\ argvIndex > Len(args)
    /\ \/ /\ archive' = IF outputOpen THEN archive \o Zeros(2 * RecordSize) ELSE archive
          /\ Exit(0)
       \/ outputOpen /\ writeBufferFails(Zeros(2 * RecordSize)) /\ Exit(1)
    /\ UNCHANGED <<tree, changed, args, argvIndex, outputOpen, prefix, untar>> /\ addUnchanged

Tar ==
    \/ OpenOutput \/ SetPrefix \/ AddDirectory \/ AddContents
    \/ ReadDirectory \/ WriteEntry \/ WriteEntryFails \/ CopyPart \/ CopyDone \/ LeaveDirectory
    \/ FinaliseOutput

-----------------------------------------------------------------------------
(***************************************************************************)
(* untar, which is run on what tar left.                                   *)
(***************************************************************************)

Untarring == tarPc = "exited" /\ untar.status = -1
HasRecord == untar.pos + RecordSize <= Len(archive)
Record == SubSeq(archive, untar.pos + 1, untar.pos + RecordSize)
IsZeroRecord == Record = Zeros(RecordSize)
IsHeader == Len(Record[1]) > 1

TypeFlag == Record[1][1]

\* name[] as a C string: a name that fills its field runs on into the next, the mode.
CName(name) == IF NameLength[name] < MaxNameLen THEN <<name>> ELSE <<name, "0000777">>

Prefix == [k \in DOMAIN Record[1][3] |-> <<Record[1][3][k]>>]
Destination == Append(Prefix, CName(Record[1][2]))

\* createDir, createFile: the prefix has to be a directory and the entry not there.
Creatable ==
    /\ Prefix # <<>> => Prefix \in DOMAIN untar.dest /\ untar.dest[Prefix] = Directory
    /\ Destination \notin DOMAIN untar.dest

Create(entry) == (Destination :> entry) @@ untar.dest

AtHeader == Untarring /\ untar.size = 0
NextRecord == [untar EXCEPT !.pos = @ + RecordSize]

UntarZero ==
    /\ AtHeader /\ HasRecord /\ IsZeroRecord
    /\ untar' = [NextRecord EXCEPT !.zeroRecordCount = @ + 1, !.status = IF untar.zeroRecordCount = 1 THEN 0 ELSE @]

UntarDirectory ==
    /\ AtHeader /\ HasRecord /\ IsHeader /\ untar.zeroRecordCount = 0
    /\ TypeFlag = "5" /\ Creatable
    /\ untar' = [NextRecord EXCEPT !.dest = Create(Directory)]

UntarFile ==
    /\ AtHeader /\ HasRecord /\ IsHeader /\ untar.zeroRecordCount = 0
    /\ TypeFlag = "0" /\ Creatable
    /\ untar' = [NextRecord EXCEPT !.dest = Create(File(<<>>)), !.file = Destination, !.size = parseSize(Record[1][4])]

\* The next record of a file: what belongs to it is written.
UntarContent ==
    /\ Untarring /\ untar.size > 0 /\ HasRecord
    /\ LET toWrite == IF untar.size > RecordSize THEN RecordSize ELSE untar.size
       IN  untar' = [NextRecord EXCEPT !.dest[untar.file].units = @ \o SubSeq(Record, 1, toWrite), !.size = @ - toWrite]

\* The archive ends early, a record is none, or an entry cannot be made.
UntarRefuses ==
    /\ Untarring
    /\ \/ ~HasRecord
       \/ /\ untar.size = 0 /\ HasRecord /\ ~IsZeroRecord
          /\ ~IsHeader \/ untar.zeroRecordCount > 0 \/ ~Creatable
    /\ untar' = [untar EXCEPT !.status = 1]

\* A system call fails.
UntarFails ==
    /\ Untarring
    /\ untar' = [untar EXCEPT !.status = 1, !.fault = TRUE]

Untar ==
    /\ UntarZero \/ UntarDirectory \/ UntarFile \/ UntarContent \/ UntarRefuses \/ UntarFails
    /\ UNCHANGED tarVars

ArchiveNext == Tar \/ ChangeFile \/ Untar

-----------------------------------------------------------------------------
(***************************************************************************)
(* Properties.                                                             *)
(***************************************************************************)

\* What the options ask for: the entries of the last output and where they go.
Under(path, t) == [p \in {path \o q : q \in DOMAIN t} |-> t[SubSeq(p, Len(path) + 1, Len(p))]]

Wanted(options) ==
    FoldLeft(LAMBDA acc, o :
                CASE o.opt = "o" -> [acc EXCEPT !.dest = <<>>]
                  [] o.opt = "p" -> [acc EXCEPT !.prefix = o.path]
                  [] o.opt = "d" -> [acc EXCEPT !.dest = Under(acc.prefix, <<o.name>> :> Directory) @@ @]
                  [] o.opt = "a" -> [acc EXCEPT !.dest = Under(acc.prefix, tree) @@ @],
             [prefix |-> <<>>, dest |-> <<>>], options).dest

Renamed(t) ==
    LET to(p) == [k \in DOMAIN p |-> IF k = Len(p) THEN CName(p[k]) ELSE <<p[k]>>]
    IN  [q \in {to(p) : p \in DOMAIN t} |-> t[CHOOSE p \in DOMAIN t : to(p) = q]]

Rooted(t) == \A p \in DOMAIN t : Len(p) > 1 => Front(p) \in DOMAIN t /\ t[Front(p)] = Directory

\* The records of a directory are in the order of its names.
InOrder ==
    \A i, j \in 1 .. Len(archive) :
        i < j /\ Len(archive[i]) > 1 /\ Len(archive[j]) > 1 /\ archive[i][3] = archive[j][3]
            => archive[i][2] < archive[j][2]

\* untar makes again what tar found: if tar succeeded, so does untar, unless one of its own
\* calls fails or a directory that an entry goes into is in no record, and the tree it made
\* has every directory, name and unit, save of the one file that changed meanwhile.  A name
\* that fills its field of the header comes back with the mode appended.  The archive is the same whatever order the kernel lists the
\* directories in.  An archive whose writing failed at any unit is refused, unless
\* a file outgrew the size in its header and its rest is read as records.  The directories
\* and the file that add had opened are closed, whatever failed.
ArchiveRestored ==
    /\ tarPc = "exited" => openFds = {} /\ (InOrder \/ \E i \in DOMAIN args : args[i].opt = "d")
    /\ tarPc = "exited" /\ untar.status # -1 =>
          LET wanted == Renamed(Wanted(args))
          IN  /\ tarStatus = 0 /\ outputOpen /\ Rooted(wanted) /\ ~untar.fault =>
                    /\ untar.status = 0 /\ DOMAIN untar.dest = DOMAIN wanted
                    /\ Cardinality({p \in DOMAIN wanted : untar.dest[p] # wanted[p]}) <= Cardinality(changed)
              /\ untar.status = 0 /\ changed = {} => tarStatus = 0 \/ (argvIndex <= Len(args) /\ Arg.opt = "o")
=============================================================================
