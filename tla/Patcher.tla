-------------------------------- MODULE Patcher -------------------------------
(***************************************************************************)
(* utils/xex_patcher.cpp: XexPatcher::apply, which makes a new executable  *)
(* of a base and a delta patch, on bytes and on files, with the mapped     *)
(* files of utils/memory_mapped_file.cpp.                                  *)
(*                                                                         *)
(* Files are those of Executables.  A header is a record and a delta of it *)
(* names the header it was made for; the image is a sequence of words.     *)
(* The body of a patch is a chain of blocks, each with the size and the    *)
(* digest of the next, whose first is in the patch's header.  A block has  *)
(* a record at some of its byte offsets, and zeros at the others.  SHA-1   *)
(* and LZX are external: a digest is what was digested, and compressed     *)
(* data turns into its result where it finds the words it was made for.    *)
(***************************************************************************)
EXTENDS Executables

CONSTANTS Bases,         \* the executables that are patched
          Patches        \* the patches

VARIABLES base, patch,   \* the two files of this behaviour
          skipData,      \* the caller gives bytes, and wants the header alone
          mapped,        \* the files that are mapped
          at,            \* where apply is
          header,        \* the new header, at the front of outBytes
          out,           \* the new image, the rest of outBytes
          block,         \* the block in work: its number, size, digest, and the
                         \* offset of the record that is next in it
          result,        \* what apply returned
          output,        \* the file at newXexPath: "old" is one from before
          closeFailed    \* history: the last flush of the output failed

patchVars == <<base, patch, skipData, mapped, at, header, out, block, result, output,
               closeFailed>>

Pending == "none"
NoHeader == [imageSize |-> 0]
NoDeltaBlock == [number |-> 0, offset |-> 0, size |-> 0, hash |-> <<>>]

-----------------------------------------------------------------------------
(* What the makers of a base and of a patch mean: the base's contents with *)
(* the patch's edits, one after the other.                                 *)
DescriptorOf(p) == getOptHeaderPtr(p, "DELTA_PATCH_DESCRIPTOR")

Splice(words, offset, new) ==
    SubSeq(words, 1, offset) \o new \o SubSeq(words, offset + Len(new) + 1, Len(words))

Edited(words, edit) ==
    Splice(words, edit.new,
           CASE edit.compressed = 0 -> [i \in 1 .. edit.length |-> Zero]
             [] edit.compressed = 1 -> SubSeq(words, edit.old + 1, edit.old + edit.length)
             [] OTHER -> edit.data.result)

(* The image before the first edit, and after each.                        *)
Unedited(p, contents) ==
    LET descriptor == DescriptorOf(p)
        room == contents \o [i \in 1 .. descriptor.newHeader.imageSize - Len(contents) |-> Zero]
    IN  IF descriptor.imageSource = 0 THEN room
        ELSE Splice(room, descriptor.imageTarget,
                    SubSeq(room, descriptor.imageSource + 1,
                           descriptor.imageSource + descriptor.imageSize))

Stages(p, contents) ==
    LET stage[k \in 0 .. Len(p.edits)] ==
            IF k = 0 THEN Unedited(p, contents) ELSE Edited(stage[k - 1], p.edits[k])
    IN  stage

(* memcpy is not for ranges that overlap.                                  *)
Apart(to, from, n) == n = 0 \/ to + n <= from \/ from + n <= to

HeaderIsApart(descriptor) ==
    descriptor.sourceOffset > 0 =>
        Apart(descriptor.targetOffset, descriptor.sourceOffset, descriptor.sourceSize)

MovesAreApart(p) ==
    LET descriptor == DescriptorOf(p)
    IN  /\ HeaderIsApart(descriptor)
        /\ descriptor.imageSource # 0 =>
             Apart(descriptor.imageTarget, descriptor.imageSource, descriptor.imageSize)
        /\ \A k \in 1 .. Len(p.edits) :
             p.edits[k].compressed = 1 => Apart(p.edits[k].new, p.edits[k].old, p.edits[k].length)

(* The records of a block: sizeof(Xex2DeltaPatch) is 16, its data begins   *)
(* at 12.                                                                  *)
EndOfRecords == [new |-> 0, old |-> 0, length |-> 0, compressed |-> 0]
RecordIn(b, offset) == IF offset \in DOMAIN b.records THEN b.records[offset] ELSE EndOfRecords
Behind(offset, record) ==
    offset + 16 + IF record.compressed \in {0, 1} THEN -4 ELSE record.compressed - 4
IsOver(b, offset) == offset >= b.length \/ RecordIn(b, offset) = EndOfRecords

(* What the makers keep to.  The blocks as a patch's maker digested them,  *)
(* `made`, form the chain that starts in the header; their records are the *)
(* edits in turn, `before` says how many of them precede each place.  The  *)
(* edits lie in the image if that has room for the base, and compressed    *)
(* ones were made for the words they find.  A key that unwraps to garbage  *)
(* unwraps nothing.                                                        *)
BlocksAreWell(p) ==
    LET first == FormatOf(p).first
        n == Len(p.made)
        InfoOf(i) == IF i = 1 THEN first ELSE p.made[i - 1].next
    IN  /\ n \in Nat
        /\ \A i \in 1 .. n : InfoOf(i).size > 0 /\ InfoOf(i).hash = p.made[i]
        /\ InfoOf(n + 1).size = 0
        /\ IF n = 0 THEN Len(p.edits) = 0
           ELSE <<1, 0>> \in DOMAIN p.before /\ p.before[<<1, 0>>] = 0
        /\ \A place \in DOMAIN p.before :
              LET b == p.made[place[1]]
                  record == RecordIn(b, place[2])
                  next == IF IsOver(b, place[2]) THEN <<place[1] + 1, 0>>
                          ELSE <<place[1], Behind(place[2], record)>>
                  passed == p.before[place] + IF IsOver(b, place[2]) THEN 0 ELSE 1
              IN  /\ place[1] \in 1 .. n /\ p.before[place] \in 0 .. Len(p.edits)
                  /\ ~IsOver(b, place[2]) => passed <= Len(p.edits) /\ record = p.edits[passed]
                  /\ IF next = <<n + 1, 0>> THEN passed = Len(p.edits)
                     ELSE next \in DOMAIN p.before /\ p.before[next] = passed

EditsAreWell(p) ==
    LET descriptor == DescriptorOf(p)
        size == descriptor.newHeader.imageSize
        stage == Stages(p, p.source)
        IsRange(offset, length) == offset \in Nat /\ length \in Nat /\ offset + length <= size
    IN  Len(p.source) <= size =>
        /\ descriptor.imageSource \in Nat
        /\ descriptor.imageSource # 0 =>
             /\ IsRange(descriptor.imageSource, descriptor.imageSize)
             /\ IsRange(descriptor.imageTarget, descriptor.imageSize)
        /\ \A k \in 1 .. Len(p.edits) :
              LET edit == p.edits[k] IN
              /\ IsRange(edit.new, edit.length) /\ IsRange(edit.old, edit.length)
              /\ edit.compressed \in Nat
              /\ edit.compressed > 1 =>
                   /\ edit.data.result \in Seq(Words("plain")) /\ Len(edit.data.result) = edit.length
                   /\ edit.data.madeFor = SubSeq(stage[k - 1], edit.old + 1, edit.old + edit.length)

PatchIsWell(p) ==
    /\ DescriptorOf(p).imageKeySource.under # "garbled"
    /\ DescriptorOf(p).imageKeySource.key = p.sourceKey
    /\ DescriptorOf(p).newHeader.imageSize \in Nat
    /\ Len(p.edits) \in Nat /\ Len(p.source) \in Nat /\ DOMAIN p.source = 1 .. Len(p.source)
    /\ BlocksAreWell(p)
    /\ EditsAreWell(p)

ASSUME PatchesAssumption ==
    /\ \A b \in Bases : b.magic = "XEX2" =>
         /\ b.aesKey.under = "retail" /\ b.aesKey.key # "garbled"
         /\ LET format == FormatOf(b)
            IN  format # Missing /\ format.compression \in {"NONE", "BASIC"}
                /\ format.encryption \in {"NONE", "NORMAL"} => BodyIsWell(b)
    /\ \A p \in Patches : DescriptorOf(p) # Missing /\ FormatOf(p) # Missing
                         /\ FormatOf(p).compression = "DELTA" => PatchIsWell(p)

-----------------------------------------------------------------------------
PatchInit ==
    /\ base \in Bases /\ patch \in Patches
    /\ skipData \in BOOLEAN
    /\ mapped = {}
    /\ at = "open"
    /\ header = NoHeader
    /\ out = <<>>
    /\ block = NoDeltaBlock
    /\ result = Pending
    /\ output \in {"none", "old"}
    /\ closeFailed = FALSE

Descriptor == DescriptorOf(patch)
PatchFormat == FormatOf(patch)
BaseFormat == FormatOf(base)

Inputs == <<base, patch, skipData>>
Continue(place) == at' = place /\ UNCHANGED <<Inputs, mapped, result>>

(* Every return of apply destroys the mapped files, which unmaps and       *)
(* closes what open had opened.                                            *)
EndWith(r) ==
    /\ result' = r
    /\ mapped' = {}
    /\ at' = "over"
    /\ UNCHANGED Inputs

-----------------------------------------------------------------------------
(* MemoryMappedFile::open: the handle, the size, the mapping.  When one of *)
(* them fails, what was opened before is closed, and isOpen is false.      *)
open(f) == \/ mapped' = mapped \cup {f}
           \/ UNCHANGED mapped

OpenBase ==
    /\ at = "open"
    /\ IF skipData THEN UNCHANGED mapped ELSE open("base")
    /\ at' = "open patch"
    /\ UNCHANGED <<Inputs, header, out, block, result, output, closeFailed>>

OpenPatch ==
    /\ at = "open patch"
    /\ IF skipData THEN UNCHANGED mapped ELSE open("patch")
    /\ at' = "test"
    /\ UNCHANGED <<Inputs, header, out, block, result, output, closeFailed>>

TestOpen ==
    /\ at = "test"
    /\ IF skipData \/ mapped = {"base", "patch"} THEN Continue("validate") ELSE EndWith("FileOpenFailed")
    /\ UNCHANGED <<header, out, block, output, closeFailed>>

(* The tests of the headers and of the descriptor, in their order.         *)
Flaw ==
    CASE base.magic # "XEX2" -> "XexFileInvalid"
      [] patch.magic # "XEX2" -> "PatchFileInvalid"
      [] patch.flags = {} -> "PatchFileInvalid"
      [] Descriptor = Missing -> "PatchFileInvalid"
      [] PatchFormat = Missing -> "PatchFileInvalid"
      [] PatchFormat.compression # "DELTA" -> "PatchFileInvalid"
      [] Descriptor.sourceOffset > base.headerSize -> "PatchIncompatible"
      [] Descriptor.sourceSize > base.headerSize - Descriptor.sourceOffset -> "PatchIncompatible"
      [] Descriptor.targetOffset > Descriptor.sizeOfTargetHeaders -> "PatchIncompatible"
      [] Descriptor.sourceSize > Descriptor.sizeOfTargetHeaders - Descriptor.targetOffset
            -> "PatchIncompatible"
      [] OTHER -> Pending

Validate ==
    /\ at = "validate"
    /\ IF Flaw = Pending THEN Continue("header") ELSE EndWith(Flaw)
    /\ UNCHANGED <<header, out, block, output, closeFailed>>

(* The new header.  The delta makes it of the header that it was made for; *)
(* of another, or when the move before it overlaps itself, it makes an     *)
(* error or any header, which may be the right one in all that is read:    *)
(* digestSource, the digest of the header it was made for, is not looked   *)
(* at.  The image's size is the new header's.  A base with more words is   *)
(* copied past its end, and a wrong offset leads anywhere: what comes of   *)
(* those is not followed.                                                  *)
HeaderIsMeant == base.header = Descriptor.madeFor /\ HeaderIsApart(Descriptor)

WrongHeaders ==
    {[Descriptor.newHeader EXCEPT !.aesKey.under = under, !.hasFormat = hasFormat,
                                  !.imageSize = imageSize] :
        under \in {Descriptor.newHeader.aesKey.under, "garbled"}, hasFormat \in BOOLEAN,
        imageSize \in {Descriptor.newHeader.imageSize, Descriptor.newHeader.imageSize + 1,
                      Len(base.body)}}

PatchHeader ==
    /\ at = "header"
    /\ \/ /\ PatchFormat.windowSize = 0 \/ ~HeaderIsMeant
          /\ EndWith("PatchFailed")
          /\ UNCHANGED <<header, out>>
       \/ /\ PatchFormat.windowSize > 0
          /\ header' \in IF HeaderIsMeant THEN {Descriptor.newHeader} ELSE WrongHeaders
          /\ out' = [i \in 1 .. header'.imageSize |->
                       IF i <= Len(base.body) THEN base.body[i] ELSE Zero]
          /\ Continue(IF Len(base.body) > header'.imageSize THEN "overrun" ELSE "keys")
       \/ /\ PatchFormat.windowSize > 0 /\ ~HeaderIsMeant
          /\ Continue("overrun")
          /\ UNCHANGED <<header, out>>
    /\ UNCHANGED <<block, output, closeFailed>>

(* The keys: the patch names the key of its base under the new key.        *)
BaseKey == Unwrap("retail", base.aesKey)
NewKey == Unwrap("retail", header.aesKey)
PatchKey == Unwrap(NewKey, patch.aesKey)

CheckKeys ==
    /\ at = "keys"
    /\ IF Unwrap(NewKey, Descriptor.imageKeySource) # BaseKey THEN EndWith("PatchIncompatible")
       ELSE IF skipData THEN EndWith("Success")
       ELSE Continue("decrypt")
    /\ UNCHANGED <<header, out, block, output, closeFailed>>

DecryptBase ==
    /\ at = "decrypt"
    /\ IF BaseFormat = Missing \/ BaseFormat.encryption \notin {"NONE", "NORMAL"}
       THEN EndWith("XexFileInvalid") /\ UNCHANGED out
       ELSE /\ Continue("unpack")
            /\ out' = IF BaseFormat.encryption = "NONE" THEN out
                      ELSE Decrypt(BaseKey, SubSeq(out, 1, Len(base.body)))
                           \o SubSeq(out, Len(base.body) + 1, Len(out))
    /\ UNCHANGED <<header, block, output, closeFailed>>

-----------------------------------------------------------------------------
(* One block of the base, in place: the cursors stand behind its zeros and *)
(* behind its data.                                                        *)
UnpackBlock(b, done) ==
    LET zeros == Clear0(done.image, done.out - b.zeroSize, b.zeroSize)
        to == done.out - b.zeroSize - b.dataSize
        from == done.src - b.dataSize
    IN  [image |-> Copy(zeros, to, zeros, from, b.dataSize), out |-> to, src |-> from]

UnpackInPlace(words, blocks) ==
    LET n == Len(blocks)
        done[i \in 0 .. n] ==
            IF i = 0 THEN [image |-> words, out |-> SizeUnpacked(blocks), src |-> PackedSize(blocks)[n]]
            ELSE UnpackBlock(blocks[n + 1 - i], done[i - 1])
    IN  done[n].image

UnpackBase ==
    /\ at = "unpack"
    /\ \/ /\ BaseFormat.compression = "BASIC"
          /\ IF Len(out) < SizeUnpacked(BaseFormat.blocks)
             THEN EndWith("XexFileInvalid") /\ UNCHANGED out
             ELSE Continue("format") /\ out' = UnpackInPlace(out, BaseFormat.blocks)
       \/ /\ BaseFormat.compression \in {"NORMAL", "DELTA"}
          /\ EndWith("XexFileUnsupported") /\ UNCHANGED out
       \/ BaseFormat.compression = "NONE" /\ Continue("format") /\ UNCHANGED out
       \/ /\ BaseFormat.compression \notin {"BASIC", "NORMAL", "DELTA", "NONE"}
          /\ EndWith("XexFileInvalid") /\ UNCHANGED out
    /\ UNCHANGED <<header, block, output, closeFailed>>

(* The new header says that nothing is encrypted or compressed; the patch  *)
(* is decrypted; words of the image move where the descriptor says.        *)
PatchWords(i) == IF PatchFormat.encryption = "NONE" THEN patch.body[i]
                 ELSE [patch.body[i] EXCEPT !.key = IF @ = PatchKey THEN "plain" ELSE "garbled"]

BlockAt(n, info) == [number |-> n, offset |-> 0, size |-> info.size, hash |-> info.hash]

(* A memcpy from one range of the image to another.  One past the end is   *)
(* not followed; when they overlap it may leave anything: here what        *)
(* memmove would, or words that nobody meant.                              *)
Unmeant(n) == [i \in 1 .. n |-> Word(99)]
Within(offset, n) == offset + n <= Len(out)

Move(to, from, n, place) ==
    IF Within(to, n) /\ Within(from, n)
    THEN /\ out' \in {Copy(out, to, out, from, n)} \cup
                     IF Apart(to, from, n) THEN {} ELSE {Copy(out, to, Unmeant(n), 0, n)}
         /\ Continue(place)
    ELSE Continue("overrun") /\ UNCHANGED out

UpdateFormat ==
    /\ at = "format"
    /\ \/ /\ ~header.hasFormat
          /\ EndWith("PatchFailed") /\ UNCHANGED <<header, out, block>>
       \/ /\ header.hasFormat
          /\ header' = [header EXCEPT !.encryption = "NONE", !.compression = "NONE"]
          /\ IF PatchFormat.encryption \notin {"NONE", "NORMAL"}
             THEN EndWith("PatchFileInvalid") /\ UNCHANGED <<out, block>>
             ELSE /\ block' = BlockAt(1, PatchFormat.first)
                  /\ IF Descriptor.imageSource = 0 THEN Continue("block") /\ UNCHANGED out
                     ELSE Move(Descriptor.imageTarget, Descriptor.imageSource,
                               Descriptor.imageSize, "block")
    /\ UNCHANGED <<output, closeFailed>>

-----------------------------------------------------------------------------
(* The digest of the next block, whose size and digest stand before it.    *)
TrustBlock ==
    /\ at = "block"
    /\ block.size > 0
    /\ Continue("records")
    /\ UNCHANGED <<header, out, block, output, closeFailed>>

CheckBlock ==
    /\ at = "block"
    /\ block.size > 0
    /\ IF PatchWords(block.number) = block.hash THEN Continue("records") ELSE EndWith("PatchFailed")
    /\ UNCHANGED <<header, out, block, output, closeFailed>>

Current == RecordIn(PatchWords(block.number), block.offset)

(* lzxDeltaApplyPatch, one record: zeros, a move, or data, which are       *)
(* decompressed with the old words in the window.                          *)
lzxDeltaApplyPatch ==
    /\ at = "records"
    /\ ~IsOver(PatchWords(block.number), block.offset)
    /\ LET edit == Current
           inside == Within(edit.new, edit.length) /\ Within(edit.old, edit.length)
           old == SubSeq(out, edit.old + 1, edit.old + edit.length)
       IN  \/ /\ edit.compressed = 0
              /\ out' = Clear0(out, edit.new, edit.length)
              /\ Continue(IF Within(edit.new, edit.length) THEN "records" ELSE "overrun")
           \/ /\ edit.compressed = 1
              /\ Move(edit.new, edit.old, edit.length, "records")
           \/ /\ edit.compressed > 1 /\ ~inside
              /\ Continue("overrun") /\ UNCHANGED out
           \/ /\ edit.compressed > 1 /\ inside
              /\ old = edit.data.madeFor
              /\ out' = Copy(out, edit.new, edit.data.result, 0, edit.length)
              /\ Continue("records")
           \/ /\ edit.compressed > 1 /\ inside
              /\ old # edit.data.madeFor
              /\ \/ EndWith("PatchFailed") /\ UNCHANGED out
                 \/ /\ out' = Copy(out, edit.new, Unmeant(edit.length), 0, edit.length)
                    /\ Continue("records")
    /\ block' = [block EXCEPT !.offset = Behind(block.offset, Current)]
    /\ UNCHANGED <<header, output, closeFailed>>

NextBlock ==
    /\ at = "records"
    /\ IsOver(PatchWords(block.number), block.offset)
    /\ block' = BlockAt(block.number + 1, PatchWords(block.number).next)
    /\ Continue("block")
    /\ UNCHANGED <<header, out, output, closeFailed>>

-----------------------------------------------------------------------------
(* The output: a stream that cannot be opened leaves what was there.       *)
OpenOutput ==
    /\ at = "block" /\ block.size = 0
    /\ \/ EndWith("FileOpenFailed") /\ UNCHANGED output
       \/ Continue("write") /\ output' = "empty"
    /\ UNCHANGED <<header, out, block, closeFailed>>

(* A write that fails sets the bad flag, and the file is removed after the *)
(* close.  A close that cannot flush sets only the fail flag, which nobody *)
(* tests.                                                                  *)
WriteOutput ==
    /\ at = "write"
    /\ \/ EndWith("Success") /\ output' = "whole" /\ UNCHANGED closeFailed
       \/ EndWith("FileWriteFailed") /\ output' = "none" /\ UNCHANGED closeFailed
       \/ EndWith("Success") /\ output' = "partial" /\ closeFailed' = TRUE
    /\ UNCHANGED <<header, out, block>>

PatchNext ==
    \/ OpenBase \/ OpenPatch \/ TestOpen \/ Validate \/ PatchHeader \/ CheckKeys
    \/ DecryptBase \/ UnpackBase \/ UpdateFormat \/ CheckBlock \/ lzxDeltaApplyPatch
    \/ NextBlock \/ OpenOutput \/ WriteOutput

PatchSpec == PatchInit /\ [][PatchNext]_patchVars

-----------------------------------------------------------------------------
IsMadeFor(b, p) ==
    b.header = DescriptorOf(p).madeFor /\ ContentsOf(b) = p.source /\ MovesAreApart(p)

Target == Stages(patch, ContentsOf(base))[Len(patch.edits)]

(* Success means that base and patch belong together by their keys, which  *)
(* is all that is compared: a base with another header or other contents   *)
(* than the patch was made for may be patched too.  On the base that it    *)
(* was made for the new image is what the edits make of its contents,      *)
(* however both are packed and encrypted, and no damaged block survives,   *)
(* if no move overlaps itself.  The output is whole, unless the close      *)
(* failed, which apply does not notice; any other result leaves it as it   *)
(* was, or none after a failed write; and the files are unmapped.          *)
PatchesAreVerified ==
    /\ result = "Success" =>
         /\ BaseKey = patch.sourceKey
         /\ ~skipData /\ IsMadeFor(base, patch) => out = Target
         /\ ~skipData /\ ~closeFailed => output = "whole"
    /\ result \notin {Pending, "Success"} =>
         output \in IF result = "FileWriteFailed" THEN {"none"} ELSE {"none", "old"}
    /\ result # Pending => mapped = {}

=============================================================================
