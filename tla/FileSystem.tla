------------------------------ MODULE FileSystem ------------------------------
(***************************************************************************)
(* runtime/kernel/file_system.cpp: the files and searches of the guest,    *)
(* which reach the host through the roots of Content.                      *)
(*                                                                         *)
(* std::fstream is external.  A stream has one position for reading and    *)
(* writing, a fail and a bad flag, and what it wrote waits in its buffer   *)
(* until it is flushed: by a seek, by the close, or when it will.  Only    *)
(* one operation on a stream runs at a time, but a call makes several.     *)
(* A file's bytes are 0 until the guest writes 1; a file is open once at a *)
(* time, and a stream may be read and written in any order.                *)
(***************************************************************************)
EXTENDS Content

CONSTANTS HostFiles,      \* files that exist at first: [directory, file] -> bytes
          Files,          \* handles of files
          Searches,       \* handles of searches
          Amounts,        \* numbers of bytes that are read or written at once
          MaxSize,        \* bound on the size of a file and on offsets
          WordSize        \* 2^32, the range of each half of a file's size

VARIABLES disk,           \* the bytes of each host file, as others see them
          stream,         \* the files that are open
          builtPath,      \* resolve_path's thread_local, while a call needs it
          io,             \* the file call that each thread is in
          search          \* the searches

fileVars == <<disk, stream, builtPath, io, search>>

NoFile == <<2>>           \* no such file: no file has a byte 2
NoPath == <<>>            \* paths are pairs: a directory and a name in it, or ""
Paths == DOMAIN HostFiles
Modes == {"read", "write", "readwrite"}
Offsets == 0 .. MaxSize + 1

ASSUME FileAssumption ==
    /\ HostFiles \in [Paths -> Seq(Nat) \cup {NoFile}]
    /\ \A path \in Paths : \A directory \in {"Data", "Save", "."} :
         /\ path = <<path[1], path[2]>>
         /\ <<directory, path[2]>> \in Paths
         /\ path[2] \notin {"Data", "Save"}     \* no file has a directory's name
    /\ Amounts \subseteq Nat
    /\ MaxSize \in Nat
    /\ WordSize \in Nat \ {0}

FileInit ==
    /\ ContentInit
    /\ disk = HostFiles
    /\ stream = [h \in Files |-> Free]
    /\ builtPath = [t \in Callers |-> NoPath]
    /\ io = [t \in Callers |-> Free]
    /\ search = [s \in Searches |-> Free]

-----------------------------------------------------------------------------
(* resolve_path.  The root's text is looked up, copied to builtPath with    *)
(* the rest of the name behind it, and the host is given a path made from  *)
(* that: three steps, and other threads' calls may come between.  A root   *)
(* that is not open leaves the working directory.                          *)
(* asked is a history: the file or directory that the root, where it led   *)
(* when it was looked up, and the name stand for.  It is Lost when the     *)
(* root was closed before its text was copied.                             *)
Unasked == <<"unasked">>
Lost == <<"lost">>

BeginResolve(t, root, then) ==
    /\ use[t] = Free /\ io[t] = Free
    /\ Begin(t, [at |-> "resolve", root |-> root, reads |-> {"roots"}, changes |-> {}])
    /\ io' = [io EXCEPT ![t] = then]
    /\ UNCHANGED <<registry, rootMap, directories, enumerator, lastError, view, crashed>>
    /\ UNCHANGED <<disk, stream, builtPath, search>>

LookUpRoot(t) ==
    /\ XamGetRootPath(t)
    /\ LET root == use[t].root IN
         io' = [io EXCEPT ![t].asked =
                 <<IF rootMap[root] = NoRoot THEN "." ELSE rootMap[root], io[t].file>>]
    /\ UNCHANGED <<disk, stream, builtPath, search>>

(* What a view shows; the memory of an erased node may hold anything.      *)
Shown(t) ==
    CASE view[t] = EmptyView -> {"."}
      [] view[t] = Dangling -> directories \cup {NoRoot}
      [] OTHER -> {rootMap[view[t]]}

CopyView(t) ==
    /\ view[t] # NoView
    /\ view' = [view EXCEPT ![t] = NoView]
    /\ io' = IF view[t] = Dangling THEN [io EXCEPT ![t].asked = Lost] ELSE io
    /\ UNCHANGED <<registry, rootMap, directories, enumerator, lastError, use, raced, crashed>>
    /\ UNCHANGED <<disk, stream, search>>

(* A bug the code could have: builtPath without thread_local.              *)
BuildInOnePlace(t) ==
    /\ CopyView(t)
    /\ \E directory \in Shown(t) :
         builtPath' = [u \in Callers |-> <<directory, io[t].file>>]

BuildPath(t) ==
    /\ CopyView(t)
    /\ \E directory \in Shown(t) :
         builtPath' = [builtPath EXCEPT ![t] = <<directory, io[t].file>>]

resolve_path(t) == builtPath[t]

Resolved(t) ==
    /\ use[t] = Free /\ view[t] = NoView
    /\ builtPath[t] # NoPath
    /\ builtPath' = [builtPath EXCEPT ![t] = NoPath]

NewStream(path, mode, asked) ==
    [at |-> "open", path |-> path, mode |-> mode, bytes |-> disk[path], dirty |-> FALSE,
     position |-> 0, fail |-> FALSE, bad |-> FALSE,
     mark |-> 0,          \* history: where the guest's next plain read should read
     asked |-> asked]     \* history: the path that was asked for

(* Opening for writing alone creates or empties the file, opening in any   *)
(* other way finds it; dwCreationDisposition is not looked at.             *)
XCreateFileA(t, h) ==
    /\ io[t].at = "create" /\ Resolved(t)
    /\ stream[h] = Free
    /\ LET path == resolve_path(t)
           mode == io[t].mode
           new == NewStream(path, mode, io[t].asked)
           found == IF mode = "write" THEN path[1] \in directories
                    ELSE path \in Paths /\ disk[path] # NoFile
       IN  /\ \A g \in Files : stream[g] # Free => stream[g].path # path
           /\ \/ /\ found /\ mode = "write"
                 /\ disk' = [disk EXCEPT ![path] = <<>>]
                 /\ stream' = [stream EXCEPT ![h] = [new EXCEPT !.bytes = <<>>]]
                 /\ UNCHANGED lastError
              \/ /\ found /\ mode # "write"
                 /\ stream' = [stream EXCEPT ![h] = new]
                 /\ UNCHANGED <<disk, lastError>>
              \/ /\ ~found
                 /\ SetLastError(t, "host error")
                 /\ UNCHANGED <<disk, stream>>
    /\ io' = [io EXCEPT ![t] = Free]
    /\ UNCHANGED <<registry, rootMap, directories, enumerator, use, view, raced, crashed>>
    /\ UNCHANGED search

-----------------------------------------------------------------------------
Busy(h) == {t \in Callers : io[t] # Free /\ io[t].at \in {"clear", "seek", "test", "read", "done"}
                            /\ io[t].file = h}

(* A call on a stream begins; it and those in progress are mixed then.     *)
BeginIo(t, h, place, offset, n) ==
    /\ io[t] = Free /\ use[t] = Free
    /\ stream[h] # Free
    /\ io' = [u \in Callers |->
                IF u = t THEN [at |-> place, file |-> h, offset |-> offset, n |-> n,
                               mixed |-> Busy(h) # {}]
                ELSE IF u \in Busy(h) THEN [io[u] EXCEPT !.mixed = TRUE]
                ELSE io[u]]
    /\ UNCHANGED <<contentVars, disk, builtPath, search>>

Go(t, place) == io' = [io EXCEPT ![t].at = place]

(* The stream operations, as functions of the stream.                      *)
Flushed(s) == [s EXCEPT !.dirty = FALSE]
Cleared(s) == [s EXCEPT !.fail = FALSE, !.bad = FALSE]
SeekTo(s, offset) ==
    IF s.fail \/ s.bad THEN [s EXCEPT !.fail = TRUE]
    ELSE IF offset < 0 THEN [Flushed(s) EXCEPT !.fail = TRUE]
    ELSE [Flushed(s) EXCEPT !.position = offset]
Available(s, n) ==
    IF s.fail \/ s.bad \/ s.mode = "write" \/ s.position > Len(s.bytes) THEN 0
    ELSE IF Len(s.bytes) - s.position < n THEN Len(s.bytes) - s.position ELSE n
AfterRead(s, n) ==
    [s EXCEPT !.position = @ + Available(s, n),
              !.fail = @ \/ s.bad \/ Available(s, n) < n]
Written(bytes, position, n) ==
    [i \in 1 .. IF position + n > Len(bytes) THEN position + n ELSE Len(bytes) |->
       IF i > position /\ i <= position + n THEN 1
       ELSE IF i <= Len(bytes) THEN bytes[i] ELSE 0]
ToDisk(s) == disk' = IF s.dirty THEN [disk EXCEPT ![s.path] = s.bytes] ELSE disk

(* XReadFile with an XOVERLAPPED, and XReadFileEx, which is the same.      *)
XReadFileEx(t, h, offset, n) ==
    /\ BeginIo(t, h, "clear", offset, n)
    /\ UNCHANGED stream

(* XReadFile without: from where the stream is.                            *)
XReadFile(t, h, n) ==
    /\ BeginIo(t, h, "read", stream[h].mark, n)
    /\ UNCHANGED stream

(* A bug the code could have: the seek without the clear.                  *)
SkipClear(t) ==
    /\ io[t].at = "clear" /\ Go(t, "seek")
    /\ UNCHANGED <<contentVars, disk, stream, builtPath, search>>

Clear(t) ==
    /\ io[t].at = "clear" /\ Go(t, "seek")
    /\ stream' = [stream EXCEPT ![io[t].file] = Cleared(@)]
    /\ UNCHANGED <<contentVars, disk, builtPath, search>>

Seek(t) ==
    /\ io[t].at = "seek" /\ Go(t, "test")
    /\ LET h == io[t].file IN
         /\ stream' = [stream EXCEPT ![h] = SeekTo(@, io[t].offset)]
         /\ IF stream[h].fail \/ stream[h].bad THEN UNCHANGED disk ELSE ToDisk(stream[h])
    /\ UNCHANGED <<contentVars, builtPath, search>>

(* stream.bad() after the seek: the call returns FALSE.                    *)
TestBad(t) ==
    /\ io[t].at = "test"
    /\ IF stream[io[t].file].bad THEN io' = [io EXCEPT ![t] = Free] ELSE Go(t, "read")
    /\ UNCHANGED <<contentVars, disk, stream, builtPath, search>>

(* stream.read.  The bytes and their number are the call's result unless   *)
(* the stream is bad.                                                      *)
Read(t) ==
    /\ io[t].at = "read"
    /\ LET h == io[t].file
           s == stream[h]
           count == Available(s, io[t].n)
       IN  /\ stream' = [stream EXCEPT ![h] =
                 [AfterRead(s, io[t].n) EXCEPT !.mark =
                    IF io[t].mixed \/ count < io[t].n \/ io[t].offset < 0 THEN -1
                    ELSE io[t].offset + count]]
           /\ io' = [io EXCEPT ![t] =
                 [at |-> "done", file |-> h, offset |-> @.offset, n |-> @.n, mixed |-> @.mixed,
                  ok |-> ~s.bad, data |-> SubSeq(s.bytes, s.position + 1, s.position + count)]]
    /\ UNCHANGED <<contentVars, disk, builtPath, search>>

Return(t) ==
    /\ io[t].at \in {"done", "found nothing"}
    /\ io' = [io EXCEPT ![t] = Free]
    /\ UNCHANGED <<contentVars, disk, stream, builtPath, search>>

(* Calls that are not reads are one step; one that meets a call in         *)
(* progress takes away what that call can expect.                          *)
Whole(t, h) ==
    /\ io[t] = Free /\ use[t] = Free
    /\ stream[h] # Free
    /\ io' = [u \in Callers |-> IF u \in Busy(h) THEN [io[u] EXCEPT !.mixed = TRUE] ELSE io[u]]
    /\ UNCHANGED <<contentVars, builtPath, search>>

(* XSetFilePointer and XSetFilePointerEx: a clear and a seek; a position   *)
(* before the beginning fails, and the next read finds nothing.            *)
SetFilePointer(t, h, base, distance) ==
    /\ Whole(t, h)
    /\ LET s == stream[h]
           from == CASE base = "FILE_BEGIN" -> 0
                     [] base = "FILE_CURRENT" -> s.position
                     [] base = "FILE_END" -> Len(s.bytes)
       IN  /\ from + distance <= MaxSize + 1
           /\ stream' = [stream EXCEPT ![h] =
                 [SeekTo(Cleared(s), from + distance) EXCEPT !.mark = from + distance]]
           /\ ToDisk(s)

XSetFilePointer(t, h, base, distance) == SetFilePointer(t, h, base, distance)
XSetFilePointerEx(t, h, base, distance) == SetFilePointer(t, h, base, distance)

(* XWriteFile: on a stream that is not good nothing is written, and        *)
(* libraries differ in whether it is bad then; on one opened for reading   *)
(* it becomes bad.                                                         *)
XWriteFile(t, h, n) ==
    /\ Whole(t, h)
    /\ LET s == stream[h] IN
         /\ s.position + n <= MaxSize
         /\ \/ /\ s.fail \/ s.bad
               /\ \E bad \in BOOLEAN : stream' = [stream EXCEPT ![h].bad = @ \/ bad]
            \/ /\ ~(s.fail \/ s.bad) /\ s.mode = "read"
               /\ stream' = [stream EXCEPT ![h].bad = TRUE, ![h].mark = -1]
            \/ /\ ~(s.fail \/ s.bad) /\ s.mode # "read"
               /\ stream' = [stream EXCEPT ![h].bytes = Written(s.bytes, s.position, n),
                                           ![h].position = @ + n,
                                           ![h].dirty = TRUE,
                                           ![h].mark = -1]
    /\ UNCHANGED disk

(* XGetFileSizeA and XGetFileSizeExA ask the host, for the path: what is   *)
(* still in the stream's buffer is not counted.                            *)
XGetFileSizeA(h) == Len(disk[stream[h].path])
XGetFileSizeExA(h) == XGetFileSizeA(h)

(* The stream's buffer reaches the file when the library sees fit.         *)
Flush(h) ==
    /\ stream[h] # Free
    /\ stream[h].dirty
    /\ ToDisk(stream[h])
    /\ stream' = [stream EXCEPT ![h].dirty = FALSE]
    /\ UNCHANGED <<contentVars, builtPath, io, search>>

(* NtClose destroys the stream, which flushes it; the guest closes no file *)
(* that a call uses.                                                       *)
CloseFile(t, h) ==
    /\ io[t] = Free /\ use[t] = Free
    /\ stream[h] # Free /\ Busy(h) = {}
    /\ ToDisk(stream[h])
    /\ stream' = [stream EXCEPT ![h] = Free]
    /\ UNCHANGED <<contentVars, builtPath, io, search>>

-----------------------------------------------------------------------------
(* A search pattern under a root with a name of one letter: its length,    *)
(* the places of "\*" and "\*.*" in it (string_view::npos is -1, and the    *)
(* code's subtractions wrap round to it), and whether it means all files.  *)
NotFound == -1
Patterns ==
    {[length |-> 4, star |-> 2, stardot |-> NotFound, all |-> TRUE],        \* D:\*
     [length |-> 6, star |-> 2, stardot |-> 2, all |-> TRUE],               \* D:\*.*
     [length |-> 3, star |-> NotFound, stardot |-> NotFound, all |-> FALSE],   \* D:\
     [length |-> 9, star |-> NotFound, stardot |-> NotFound, all |-> FALSE]}   \* D:\*.hlsl

(* A bug the code could have: the other form is not looked for.            *)
SuffixOfStarOnly(p) == IF p.star = p.length - 2 THEN 1 ELSE 0

Suffix(p) ==
    IF p.star = p.length - 2 THEN 1
    ELSE IF p.stardot = p.length - 4 THEN 3
    ELSE 0

(* What is left of the pattern behind the root: nothing, which names the   *)
(* directory itself, or the name of none.                                  *)
NameOf(p) == IF p.length - Suffix(p) = 3 THEN "" ELSE "a pattern"

(* std::filesystem::directory_iterator.                                    *)
HostEntries(directory) ==
    {[name |-> path[2], size |-> Len(disk[path]), directory |-> FALSE] :
        path \in {q \in Paths : q[1] = directory /\ disk[q] # NoFile}}
    \cup {[name |-> inner, size |-> 0, directory |-> TRUE] :
            inner \in IF directory = "." THEN directories \ {"."} ELSE {}}

(* FindHandle lists what the path names if that is a directory.            *)
FindHandle(path) == IF path[2] = "" THEN HostEntries(path[1]) ELSE {}

(* Each half of the size goes to the field of the other half.              *)
fillFindData(entry) ==
    [cFileName |-> entry.name,
     dwFileAttributes |-> IF entry.directory THEN "DIRECTORY" ELSE "NORMAL",
     nFileSizeLow |-> entry.size \div WordSize,
     nFileSizeHigh |-> entry.size % WordSize]

(* History: the names that a search should return, which are those in the  *)
(* directory that was asked for; NoClaim for a pattern that does not mean  *)
(* all files, and for a directory that was Lost.                           *)
NoClaim == {"no claim"}
Expected(t) ==
    IF io[t].pattern.all /\ io[t].asked # Lost
    THEN {entry.name : entry \in HostEntries(io[t].asked[1])}
    ELSE NoClaim

(* The entries come in the order of the table's buckets, whatever that is; *)
(* without any the handle is invalid.                                      *)
XFindFirstFileA(t, s) ==
    /\ io[t].at = "find" /\ Resolved(t)
    /\ search[s] = Free
    /\ LET found == FindHandle(resolve_path(t))
       IN  \/ /\ found = {}
              /\ io' = [io EXCEPT ![t] = [at |-> "found nothing", expected |-> Expected(t)]]
              /\ UNCHANGED search
           \/ \E first \in found :
              /\ search' = [search EXCEPT ![s] =
                    [at |-> "open", left |-> found \ {first},
                     returned |-> <<fillFindData(first)>>, over |-> FALSE,
                     expected |-> Expected(t)]]
              /\ io' = [io EXCEPT ![t] = Free]
    /\ UNCHANGED <<contentVars, disk, stream>>

(* After it has returned FALSE the iterator is past the end: another call  *)
(* would move it on.                                                       *)
XFindNextFileA(t, s) ==
    /\ use[t] = Free /\ io[t] = Free
    /\ search[s].at = "open"
    /\ \/ \E next \in search[s].left :
            /\ search' = [search EXCEPT ![s].left = @ \ {next},
                                        ![s].returned = Append(@, fillFindData(next))]
            /\ UNCHANGED crashed
       \/ /\ search[s].left = {}
          /\ search' = [search EXCEPT ![s].over = TRUE]
          /\ crashed' = search[s].over
    /\ UNCHANGED <<registry, rootMap, directories, enumerator, lastError, use, view, raced>>
    /\ UNCHANGED <<disk, stream, builtPath, io>>

CloseSearch(t, s) ==
    /\ use[t] = Free /\ io[t] = Free
    /\ search[s].at = "open"
    /\ search' = [search EXCEPT ![s] = Free]
    /\ UNCHANGED <<contentVars, disk, stream, builtPath, io>>

-----------------------------------------------------------------------------
ResolveStep(t) == LookUpRoot(t) \/ BuildPath(t)

OpenStep(t, root) ==
    \/ \E file \in {path[2] : path \in Paths}, mode \in Modes :
         BeginResolve(t, root, [at |-> "create", file |-> file, mode |-> mode,
                                asked |-> Unasked])
    \/ \E h \in Files : XCreateFileA(t, h)

(* The pattern D:\ loses all its characters; the path is empty then, no    *)
(* root is looked up, nothing is found and nothing changes.                *)
SearchStep(t, root) ==
    \/ \E p \in Patterns :
         /\ p.length > Suffix(p)
         /\ BeginResolve(t, root, [at |-> "find", file |-> NameOf(p), pattern |-> p,
                                   asked |-> Unasked])
    \/ \E s \in Searches : XFindFirstFileA(t, s) \/ XFindNextFileA(t, s) \/ CloseSearch(t, s)

StreamStep(t) ==
    \/ Clear(t) \/ Seek(t) \/ TestBad(t) \/ Read(t) \/ Return(t)
    \/ \E h \in Files :
         \/ \E offset \in Offsets, n \in Amounts : XReadFileEx(t, h, offset, n)
         \/ \E n \in Amounts : XReadFile(t, h, n) \/ XWriteFile(t, h, n)
         \/ \E base \in {"FILE_BEGIN", "FILE_CURRENT", "FILE_END"}, distance \in {-1, 0, 1} :
              XSetFilePointer(t, h, base, distance) \/ XSetFilePointerEx(t, h, base, distance)
         \/ Flush(h) \/ CloseFile(t, h)

FileNext ==
    /\ ~raced /\ ~crashed
    /\ \E t \in Callers :
         \/ io[t] = Free /\ ContentStep(t) /\ UNCHANGED fileVars
         \/ \E root \in AllRoots : OpenStep(t, root) \/ SearchStep(t, root)
         \/ ResolveStep(t) \/ StreamStep(t)

FileSpec == FileInit /\ [][FileNext]_<<contentVars, fileVars>>

-----------------------------------------------------------------------------
(* Whatever threads open and close roots and resolve paths meanwhile, the  *)
(* file that a call opens is the one it asked for: the name it gave, in    *)
(* the directory that its own root led to.  The one exception is a root    *)
(* that another thread closes after the look-up and before the copy of its *)
(* text, for which any path may come out (file_system.cpp:18-22).          *)
FilesAreWhereTheirRootsLed ==
    \A h \in Files : stream[h] # Free => stream[h].asked \in {stream[h].path, Lost}

(* A read that reports success and that no other call on the file overlaps *)
(* has the file's bytes from its offset, as many as there are: whatever    *)
(* reads, seeks and writes failed before, for a read with an offset, and   *)
(* for a plain one if every read before it since the last seek was full.   *)
(* And once a seek has flushed them, the host knows of all bytes written.  *)
ReadsReturnTheFile ==
    /\ \A t \in Callers :
         io[t].at = "done" /\ io[t].ok /\ ~io[t].mixed /\ io[t].offset >= 0
         /\ stream[io[t].file].mode # "write"
         => LET bytes == stream[io[t].file].bytes
                last == io[t].offset + io[t].n
            IN  io[t].data = SubSeq(bytes, io[t].offset + 1,
                                    IF last < Len(bytes) THEN last ELSE Len(bytes))
    /\ \A h \in Files :
         stream[h] # Free /\ ~stream[h].dirty => XGetFileSizeA(h) = Len(stream[h].bytes)

(* A search for all files of a directory, by D:\* or D:\*.*, returns the    *)
(* name of each entry that the directory had when it was listed, and no    *)
(* name twice; it says that there are no more only when it has, and that   *)
(* there are none only if there were none.  And so do the enumerators of   *)
(* Content.  What is told of sizes is not judged: see fillFindData.        *)
SearchesAreComplete ==
    /\ \A s \in Searches :
         search[s] # Free /\ search[s].expected # NoClaim =>
            LET names == [i \in DOMAIN search[s].returned |-> search[s].returned[i].cFileName]
            IN  /\ IsInjective(names)
                /\ Range(names) \subseteq search[s].expected
                /\ search[s].over => Range(names) = search[s].expected
    /\ \A t \in Callers :
         io[t].at = "found nothing" => io[t].expected \in {{}, NoClaim}

ListingsAreComplete == EnumerationsAreComplete /\ SearchesAreComplete

=============================================================================
