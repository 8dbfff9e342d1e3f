------------------------------ MODULE Executables -----------------------------
(***************************************************************************)
(* Loading an executable: LdrLoadModule of runtime/main.cpp, which copies  *)
(* it to the guest's memory, and utils/image.cpp with utils/xex.cpp, which *)
(* make of it an image of sections and symbols for the recompiler.         *)
(*                                                                         *)
(* A file is a record of what its headers say and a sequence of words, its *)
(* body.  A word is a value, the byte order it is stored in, and the key   *)
(* that it is encrypted with; AES is external, and the wrong key leaves    *)
(* garbled words.  Offsets count words from 0, as pointers do, and the     *)
(* element i + 1 of a sequence is the word at offset i.                    *)
(***************************************************************************)
EXTENDS Integers, Sequences, FiniteSets

CONSTANTS Executables,   \* the files to load
          Exports        \* the tables of names: library -> [ordinal -> name]

VARIABLES file,          \* the file of this behaviour
          guest,         \* the guest's memory from the file's load address on
          image          \* the Image that ParseImage returned

execVars == <<file, guest, image>>

Word(value) == [key |-> "plain", order |-> "big", value |-> value]
ByteSwap(word) == [word EXCEPT !.order = IF @ = "big" THEN "little" ELSE "big"]
Zero == Word(0)
Missing == [key |-> "none"]
NoImage == [data |-> <<>>, sections |-> {}, symbols |-> {}]

Decrypt(key, words) ==
    [i \in DOMAIN words |->
       [words[i] EXCEPT !.key = IF @ = key THEN "plain" ELSE "garbled"]]
Unwrap(key, wrapped) == IF wrapped.under = key THEN wrapped.key ELSE "garbled"

(* memcpy of n words to an offset from an offset of another sequence, and  *)
(* memset of n words to 0.                                                 *)
Copy(to, offset, from, start, n) ==
    [i \in DOMAIN to |-> IF offset < i /\ i <= offset + n THEN from[start + i - offset] ELSE to[i]]
Clear0(to, offset, n) ==
    [i \in DOMAIN to |-> IF offset < i /\ i <= offset + n THEN Zero ELSE to[i]]

(* The first optional header with the key.                                 *)
getOptHeaderPtr(xex, key) ==
    LET found == SelectSeq(xex.headers, LAMBDA header : header.key = key)
    IN  IF found = <<>> THEN Missing ELSE found[1].value

-----------------------------------------------------------------------------
(* A bug the code could have: the pointer is not moved past the zeros.     *)
CopyBlockOnly(at, block) ==
    [to |-> Clear0(Copy(at.to, at.dest, at.from, at.src, block.dataSize),
                   at.dest + block.dataSize, block.zeroSize),
     from |-> at.from,
     src |-> at.src + block.dataSize,
     dest |-> at.dest + block.dataSize]

(* One block: its data, then zeros; both pointers move on.                 *)
CopyBlock(at, block) ==
    [to |-> Clear0(Copy(at.to, at.dest, at.from, at.src, block.dataSize),
                   at.dest + block.dataSize, block.zeroSize),
     from |-> at.from,
     src |-> at.src + block.dataSize,
     dest |-> at.dest + block.dataSize + block.zeroSize]

(* The words of the first blocks, packed and unpacked.                     *)
PackedSize(blocks) ==
    LET size[i \in 0 .. Len(blocks)] ==
            IF i = 0 THEN 0 ELSE size[i - 1] + blocks[i].dataSize
    IN  size
UnpackedSize(blocks) ==
    LET size[i \in 0 .. Len(blocks)] ==
            IF i = 0 THEN 0 ELSE size[i - 1] + blocks[i].dataSize + blocks[i].zeroSize
    IN  size
SizeUnpacked(blocks) == UnpackedSize(blocks)[Len(blocks)]

(* What both loaders do with the body, into a destination of their own.    *)
Unpack(to, body, format, imageSize) ==
    LET copied[i \in 0 .. Len(format.blocks)] ==
            IF i = 0 THEN [to |-> to, from |-> body, src |-> 0, dest |-> 0]
            ELSE CopyBlock(copied[i - 1], format.blocks[i])
    IN  IF format.compression = "NONE" THEN Copy(to, 0, body, 0, imageSize)
        ELSE copied[Len(format.blocks)].to

(* LdrLoadModule, of the XEX file that main names, or of none: then the    *)
(* memory stays as it is.  It does not look at the encryption: main loads  *)
(* a file that was decrypted before.                                       *)
LdrLoadModule ==
    /\ file.magic = "XEX2" \/ file.body = <<>>
    /\ guest' = IF file.body = <<>> THEN guest
                ELSE Unpack(guest, file.body, getOptHeaderPtr(file, "FILE_FORMAT_INFO"),
                            file.imageSize)
    /\ UNCHANGED <<file, image>>

-----------------------------------------------------------------------------
(* Image::Map: a set ordered by base, which keeps the first of two         *)
(* sections with one base.                                                 *)
Map(sections, section) ==
    IF \E other \in sections : other.base = section.base THEN sections
    ELSE sections \cup {section}

(* Image::Find: the last section that begins at or below the address, and  *)
(* its data from there.  Below every section there is no previous one.     *)
FindOffset(sections, address) ==
    LET below == {section \in sections : section.base <= address}
        last == CHOOSE s \in below : \A other \in below : other.base <= s.base
    IN  last.data + address - last.base

FindSection(sections, name) ==
    LET found == {section \in sections : section.name = name}
    IN  IF found = {} THEN Missing
        ELSE CHOOSE s \in found : \A other \in found : s.base <= other.base

(* SymbolTable::find: among the symbols that start at the address the last *)
(* one that is not empty; one that starts below is not looked at.          *)
FindSymbol(symbols, address) ==
    LET there == {symbol \in symbols : symbol.address = address /\ symbol.size > 0}
    IN  IF there = {} THEN Missing
        ELSE CHOOSE s \in there : \A other \in there : other.serial <= s.serial

(* The stub that takes the place of a function's thunk.                    *)
Stub == <<Word(60), Word(60), Word(60), Word(78)>>

(* The body of the loop over the descriptors of a library: the word at the *)
(* thunk is swapped where it is, then replaced if it is of a function.     *)
BindImport(img, names, thunk) ==
    LET offset == FindOffset(img.sections, thunk)
        swapped == [img.data EXCEPT ![offset + 1] = ByteSwap(@)]
        word == swapped[offset + 1]
        type == word.value \div 100
        ordinal == word.value % 100
    IN  IF type = 0 THEN [img EXCEPT !.data = swapped]
        ELSE [img EXCEPT
                !.data = Copy(swapped, offset, Stub, 0, 4),
                !.symbols = IF ordinal \in DOMAIN names
                            THEN @ \cup {[name |-> names[ordinal], address |-> thunk, size |-> 4,
                                          serial |-> Cardinality(@)]}
                            ELSE @]

NamesOf(library) == IF library \in DOMAIN Exports THEN Exports[library] ELSE <<>>

BindLibrary(img, library) ==
    LET bound[i \in 0 .. Len(library.thunks)] ==
            IF i = 0 THEN img
            ELSE BindImport(bound[i - 1], NamesOf(library.name), library.thunks[i])
    IN  bound[Len(library.thunks)]

BindLibraries(img, libraries) ==
    LET bound[i \in 0 .. Len(libraries)] ==
            IF i = 0 THEN img ELSE BindLibrary(bound[i - 1], libraries[i])
    IN  bound[Len(libraries)]

(* Xex2LoadImage.  The headers of the image itself say which sections it   *)
(* has; the data of each is where its address is.                          *)
PeSection(xex, pe) ==
    [name |-> pe.name, base |-> xex.base + pe.address, size |-> pe.size, data |-> pe.address]
PeSections(xex) ==
    LET done[i \in 0 .. Len(xex.sections)] ==
            IF i = 0 THEN {} ELSE Map(done[i - 1], PeSection(xex, xex.sections[i]))
    IN  done[Len(xex.sections)]

Xex2LoadImage(xex) ==
    LET format == getOptHeaderPtr(xex, "FILE_FORMAT_INFO")
        key == Unwrap("retail", xex.aesKey)
        source == IF format.encryption = "NORMAL" THEN Decrypt(key, xex.body) ELSE xex.body
        size == IF format.compression = "NONE" THEN xex.imageSize
                ELSE SizeUnpacked(format.blocks)
        data == Unpack([i \in 1 .. size |-> Zero], source, format, xex.imageSize)
        libraries == getOptHeaderPtr(xex, "IMPORT_LIBRARIES")
        unbound == [data |-> data, sections |-> PeSections(xex), symbols |-> {}]
    IN  IF libraries = Missing THEN unbound ELSE BindLibraries(unbound, libraries)

(* ElfLoadImage: the data is the whole file.  The image's base is that of  *)
(* the first PT_LOAD segment; what is subtracted from an address for the   *)
(* section's offset, Map adds again.  Sections of type 0 are left out.     *)
ElfSection(s) == [name |-> s.name, base |-> s.address, size |-> s.size, data |-> s.offset]
ElfSections(elf) ==
    LET done[i \in 0 .. Len(elf.sections)] ==
            IF i = 0 THEN {}
            ELSE IF elf.sections[i].type = 0 THEN done[i - 1]
            ELSE Map(done[i - 1], ElfSection(elf.sections[i]))
    IN  done[Len(elf.sections)]

ElfLoadImage(elf) == [data |-> elf.body, sections |-> ElfSections(elf), symbols |-> {}]

ParseImage ==
    /\ image = NoImage
    /\ image' = CASE file.magic = "ELF" -> ElfLoadImage(file)
                  [] file.magic = "XEX2" -> Xex2LoadImage(file)
                  [] OTHER -> NoImage
    /\ UNCHANGED <<file, guest>>

-----------------------------------------------------------------------------
(* What the format means: each block's words, in their order, followed by  *)
(* its zeros.                                                              *)
Meaning(blocks, body) ==
    LET packed == PackedSize(blocks)
        unpacked == UnpackedSize(blocks)
    IN  [k \in 1 .. SizeUnpacked(blocks) |->
           LET i == CHOOSE i \in DOMAIN blocks : unpacked[i - 1] < k /\ k <= unpacked[i]
               n == k - unpacked[i - 1]
           IN  IF n <= blocks[i].dataSize THEN body[packed[i - 1] + n] ELSE Zero]

FormatOf(xex) == getOptHeaderPtr(xex, "FILE_FORMAT_INFO")
ContentsOf(xex) ==
    LET plain == [i \in DOMAIN xex.body |-> [xex.body[i] EXCEPT !.key = "plain"]]
    IN  IF FormatOf(xex).compression = "NONE" THEN plain ELSE Meaning(FormatOf(xex).blocks, plain)

(* The thunks of a file, by library and number, and what each imports.     *)
ImportLibraries(xex) ==
    LET libraries == getOptHeaderPtr(xex, "IMPORT_LIBRARIES")
    IN  IF libraries = Missing THEN <<>> ELSE libraries
Thunks(xex) ==
    UNION {{<<l, i>> : i \in DOMAIN ImportLibraries(xex)[l].thunks} : l \in DOMAIN ImportLibraries(xex)}
ImportOf(xex, p) ==
    LET library == ImportLibraries(xex)[p[1]]
        word == ContentsOf(xex)[library.thunks[p[2]] - xex.base + 1]
    IN  [address |-> library.thunks[p[2]], library |-> library.name,
         type |-> word.value \div 100, ordinal |-> word.value % 100]
Imports(xex) == {ImportOf(xex, p) : p \in Thunks(xex)}

(* What the makers of files keep to.  A body has the words that its blocks *)
(* say, encrypted with the file's key if at all; sections and thunks lie   *)
(* in the image, no thunk in another's stub; the sections of an ELF file   *)
(* that are loaded have a name and a place of their own.                   *)
Words(key) == [key : {key}, order : {"big", "little"}, value : Nat]
BodyKey(xex) == IF FormatOf(xex).encryption = "NORMAL" THEN xex.aesKey.key ELSE "plain"
BodyIsWell(xex) ==
    /\ xex.body \in Seq(Words(BodyKey(xex)))
    /\ xex.aesKey.under = "retail"
    /\ Len(FormatOf(xex).blocks) \in Nat /\ DOMAIN FormatOf(xex).blocks = 1 .. Len(FormatOf(xex).blocks)
    /\ \A i \in DOMAIN FormatOf(xex).blocks :
          FormatOf(xex).blocks[i].dataSize \in Nat /\ FormatOf(xex).blocks[i].zeroSize \in Nat
    /\ FormatOf(xex).compression \in {"NONE", "BASIC"}
    /\ FormatOf(xex).compression = "BASIC" =>
         Len(xex.body) = PackedSize(FormatOf(xex).blocks)[Len(FormatOf(xex).blocks)]

(* The words from the image's start that binding the import may change.    *)
Room(xex, p) == LET import == ImportOf(xex, p)
                    offset == import.address - xex.base
                IN  offset + 1 .. offset + IF import.type = 0 THEN 1 ELSE 4

XexIsWell(xex) ==
    /\ BodyIsWell(xex)
    /\ FormatOf(xex).encryption \in {"NONE", "NORMAL"}
    /\ xex.base \in Nat
    /\ xex.imageSize = IF FormatOf(xex).compression = "NONE" THEN Len(xex.body)
                       ELSE SizeUnpacked(FormatOf(xex).blocks)
    /\ Len(xex.sections) \in Nat /\ DOMAIN xex.sections = 1 .. Len(xex.sections)
    /\ \A i \in DOMAIN xex.sections :
          LET pe == xex.sections[i] IN
          pe.address \in Nat /\ pe.size \in Nat /\ pe.address + pe.size <= xex.imageSize
    /\ DOMAIN ImportLibraries(xex) = 1 .. Len(ImportLibraries(xex)) /\ Len(ImportLibraries(xex)) \in Nat
    /\ \A l \in DOMAIN ImportLibraries(xex) :
          LET thunks == ImportLibraries(xex)[l].thunks IN
          DOMAIN thunks = 1 .. Len(thunks) /\ Len(thunks) \in Nat
    /\ \A p \in Thunks(xex) :
          /\ ImportOf(xex, p).address \in Nat
          /\ Room(xex, p) \subseteq 1 .. xex.imageSize
          /\ \E i \in DOMAIN xex.sections : xex.base + xex.sections[i].address <= ImportOf(xex, p).address
          /\ \A q \in Thunks(xex) : p # q => Room(xex, p) \cap Room(xex, q) = {}

ElfIsWell(elf) ==
    /\ Len(elf.sections) \in Nat /\ DOMAIN elf.sections = 1 .. Len(elf.sections)
    /\ \A i \in DOMAIN elf.sections : elf.sections[i].address \in Nat
    /\ \A i, j \in DOMAIN elf.sections :
          LET s == elf.sections[i]
              t == elf.sections[j]
          IN  s.loaded => /\ s.type # 0 /\ s.size \in Nat /\ s.offset \in Nat
                          /\ i # j /\ t.type # 0 =>
                               /\ t.name # s.name /\ t.address # s.address
                               /\ t.address \notin s.address .. s.address + s.size - 1

ASSUME FilesAssumption ==
    \A f \in Executables : /\ f.imageSize \in Nat
                           /\ f.magic = "XEX2" => XexIsWell(f)
                           /\ f.magic = "ELF" => ElfIsWell(f)

-----------------------------------------------------------------------------
ExecInit(files) ==
    /\ file \in files
    /\ guest = [i \in 1 .. file.imageSize |-> Word(99)]
    /\ image = NoImage

ExecNext == LdrLoadModule \/ ParseImage

ExecSpec == ExecInit(Executables) /\ [][ExecNext]_execVars

-----------------------------------------------------------------------------
(* What each loader makes of a file, beside what the file means.           *)
LoadedAsMeant ==
    file.magic = "XEX2" /\ file.body # <<>> /\ guest[1] # Word(99) /\ FormatOf(file).encryption = "NONE"
    => guest = ContentsOf(file)

Functions(xex) == {import \in Imports(xex) : import.type # 0}
Named(import) == /\ import.library \in DOMAIN Exports
                 /\ import.ordinal \in DOMAIN Exports[import.library]

WordAsMeant(xex, img, address) ==
    LET word == img.data[FindOffset(img.sections, address) + 1]
        original == ContentsOf(xex)[address - xex.base + 1]
    IN  IF \E import \in Functions(xex) : address \in import.address .. import.address + 3
        THEN \E import \in Functions(xex) : /\ address \in import.address .. import.address + 3
                                           /\ word = Stub[address - import.address + 1]
        ELSE IF \E import \in Imports(xex) : address = import.address THEN word = ByteSwap(original)
        ELSE word = original

SymbolsAsMeant(xex, img) ==
    /\ \A import \in Functions(xex) :
         LET symbol == FindSymbol(img.symbols, import.address)
         IN  IF Named(import) THEN symbol.name = Exports[import.library][import.ordinal]
             ELSE symbol = Missing
    /\ Cardinality(img.symbols) = Cardinality({import \in Functions(xex) : Named(import)})

XexAsMeant(xex, img) ==
    /\ \A section \in img.sections : \A address \in section.base .. section.base + section.size - 1 :
         WordAsMeant(xex, img, address)
    /\ SymbolsAsMeant(xex, img)

ElfAsMeant(elf, img) ==
    \A j \in DOMAIN elf.sections :
       LET s == elf.sections[j] IN
       s.loaded =>
         /\ FindSection(img.sections, s.name).base = s.address
         /\ \A i \in 0 .. s.size - 1 : FindOffset(img.sections, s.address + i) = s.offset + i

(* Both loaders unpack a file to the same words, those that its blocks     *)
(* mean (main's loader if nobody encrypted it); every address of a section *)
(* that is loaded leads to the word that the file puts there; and every    *)
(* import is bound: a function has its stub, and a symbol with the name    *)
(* that its own library gives its ordinal, if it gives one, a variable is  *)
(* swapped, and nothing else has changed.                                  *)
ImagesAreWhole ==
    /\ LoadedAsMeant
    /\ file.magic = "XEX2" /\ image # NoImage => XexAsMeant(file, image)
    /\ file.magic = "ELF" /\ image # NoImage => ElfAsMeant(file, image)

=============================================================================
