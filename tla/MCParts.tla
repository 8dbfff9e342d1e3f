----------------------------- MODULE MCParts --------------------------------
(***************************************************************************)
(* The instance that TLC checks of components that share no state with one *)
(* another or with the rest: what a guest thread has of its own, its       *)
(* notifications, the audio driver and the conversions of the kernel's     *)
(* calls; the loader and the patcher of executables, calls between host    *)
(* and guest, the title database, the vector helpers, and the pipelines of *)
(* the video driver.  `part` names the one that a behaviour is about; the  *)
(* others stay as they start.  Once an index was freed by one who did not  *)
(* have it nothing is claimed of the indices, and their part ends.         *)
(***************************************************************************)
EXTENDS ThreadServices, Notifications, AudioDriver, Conversions,
        Patcher, HookArguments, TitleDatabase, VectorOps, Pipeline, SequencesExt

VARIABLE part

-----------------------------------------------------------------------------
(* Executables: an image of twelve words in two sections, three thunks in  *)
(* it, under every packing below, encrypted or not, with its libraries in  *)
(* either order; and an ELF file with a section that is not loaded.        *)
Block(data, zero) == [dataSize |-> data, zeroSize |-> zero]
Packings ==
    {<<Block(12, 0)>>, <<Block(3, 3), Block(3, 3)>>, <<Block(3, 2), Block(0, 1), Block(3, 3)>>,
     <<Block(3, 0), Block(0, 3), Block(2, 0), Block(1, 3)>>, <<Block(3, 3), Block(6, 0)>>}
ImageWords == <<1, 2, 101, 0, 0, 0, 6, 2, 103, 0, 0, 0>>

RECURSIVE Packed(_, _)
Packed(blocks, words) ==
    IF blocks = <<>> THEN <<>>
    ELSE SubSeq(words, 1, Head(blocks).dataSize)
         \o Packed(Tail(blocks), SubSeq(words, Head(blocks).dataSize + Head(blocks).zeroSize + 1, Len(words)))

Encrypted(key, words) == [i \in DOMAIN words |-> [Word(words[i]) EXCEPT !.key = key]]

Libraries ==
    LET xam == [name |-> "xam.xex", thunks |-> <<102, 107>>]
        kernel == [name |-> "xboxkrnl.exe", thunks |-> <<108>>]
        other == [name |-> "other.xex", thunks |-> <<108>>]
        late == [name |-> "xboxkrnl.exe", thunks |-> <<107, 102>>]
        none == [name |-> "xam.xex", thunks |-> <<>>]
    IN  {<<xam, kernel>>, <<kernel, xam>>, <<other, xam>>, <<xam, other>>, <<late, other>>,
         <<none, late>>, <<>>}

Xex(compression, blocks, encryption, libraries) ==
    [magic |-> "XEX2", imageSize |-> 12, base |-> 100,
     aesKey |-> [under |-> "retail", key |-> "k"],
     headers |-> <<[key |-> "FILE_FORMAT_INFO",
                    value |-> [compression |-> compression, encryption |-> encryption,
                               blocks |-> blocks]]>>
                 \o (IF libraries = <<>> THEN <<>>
                     ELSE <<[key |-> "IMPORT_LIBRARIES", value |-> libraries]>>),
     sections |-> <<[name |-> ".text", address |-> 2, size |-> 5],
                    [name |-> ".data", address |-> 7, size |-> 5]>>,
     body |-> Encrypted(IF encryption = "NORMAL" THEN "k" ELSE "plain", Packed(blocks, ImageWords))]

Elf ==
    [magic |-> "ELF", imageSize |-> 1, base |-> 20, body |-> [i \in 1 .. 8 |-> Word(i)],
     sections |->
       <<[type |-> 0, name |-> "", address |-> 0, offset |-> 0, size |-> 0, loaded |-> FALSE],
         [type |-> 1, name |-> ".text", address |-> 20, offset |-> 2, size |-> 2, loaded |-> TRUE],
         [type |-> 1, name |-> ".data", address |-> 24, offset |-> 4, size |-> 2, loaded |-> TRUE],
         [type |-> 3, name |-> ".strtab", address |-> 0, offset |-> 6, size |-> 1, loaded |-> FALSE],
         [type |-> 3, name |-> ".comment", address |-> 0, offset |-> 7, size |-> 1, loaded |-> FALSE]>>]

MCExecutables ==
    {Xex("BASIC", blocks, encryption, libraries) :
        blocks \in Packings, encryption \in {"NONE", "NORMAL"}, libraries \in Libraries}
    \cup {Xex("NONE", <<Block(12, 0)>>, encryption, libraries) :
             encryption \in {"NONE", "NORMAL"}, libraries \in Libraries}
    \cup {Elf, [Elf EXCEPT !.magic = "none", !.body = <<>>]}

MCExports == "xam.xex" :> [ordinal \in {1, 5} |-> "Xam"]
             @@ "xboxkrnl.exe" :> [ordinal \in {1, 3} |-> "Kernel"]

-----------------------------------------------------------------------------
(* Patches: a base in every packing and patches of two blocks, whose       *)
(* second edits read what the first ones wrote, some with a move that      *)
(* overlaps itself; then each of them with one thing wrong.                *)
PatchedWords == <<1, 2, 0, 0, 3, 4>>
Base(key, encryption, compression, blocks) ==
    [magic |-> "XEX2", headerSize |-> 4, header |-> 1,
     aesKey |-> [under |-> "retail", key |-> key],
     headers |-> <<[key |-> "FILE_FORMAT_INFO",
                    value |-> [compression |-> compression, encryption |-> encryption,
                               blocks |-> blocks]]>>,
     body |-> Encrypted(IF encryption = "NORMAL" THEN key ELSE "plain",
                        Packed(blocks, PatchedWords))]
GoodBase == Base("k", "NONE", "NONE", <<Block(6, 0)>>)

MCBases ==
    {Base("k", encryption, "BASIC", blocks) :
        encryption \in {"NONE", "NORMAL"},
        blocks \in {<<Block(2, 2), Block(2, 0)>>, <<Block(2, 1), Block(0, 1), Block(1, 0), Block(1, 0)>>}}
    \cup {Base("k", encryption, "NONE", <<Block(6, 0)>>) :
             encryption \in {"NONE", "NORMAL", "UNKNOWN"}}
    \cup {Base("k", "NONE", compression, <<Block(6, 0)>>) :
             compression \in {"NORMAL", "DELTA", "UNKNOWN"}}
    \cup {Base("other", "NONE", "NONE", <<Block(6, 0)>>),
          [GoodBase EXCEPT !.header = 2],
          [Base("k", "NONE", "NONE", <<Block(4, 0)>>) EXCEPT !.header = 2],
          [GoodBase EXCEPT !.body[5] = Word(5)],
          [GoodBase EXCEPT !.magic = "ELF"],
          [GoodBase EXCEPT !.headers = <<>>],
          Base("k", "NONE", "BASIC", <<Block(2, 7)>>)}

Edit(new, old, length, compressed, madeFor, made) ==
    [new |-> new, old |-> old, length |-> length, compressed |-> compressed] @@
    IF compressed < 2 THEN << >> ELSE
    "data" :> [madeFor |-> Encrypted("plain", madeFor), result |-> Encrypted("plain", made)]
EditsWith(move) ==
    <<<<Edit(0, 4, 2, 6, <<3, 4>>, <<7, 8>>), move>>,
      <<Edit(1, 0, 1, 0, <<>>, <<>>), Edit(4, 0, 2, 5, <<7, 0>>, <<9, 9>>)>>>>

(* The records of a block at their offsets, and zeros for the last ones.   *)
RECURSIVE LaidOut(_, _)
LaidOut(edits, offset) ==
    IF edits = <<>> THEN << >>
    ELSE (offset :> Head(edits))
         @@ LaidOut(Tail(edits), offset + 12 + (IF Head(edits).compressed < 2 THEN 0 ELSE Head(edits).compressed))

RECURSIVE Chain(_)
Chain(blocks) ==
    IF blocks = <<>> THEN [first |-> [size |-> 0, hash |-> <<>>], body |-> <<>>]
    ELSE LET rest == Chain(Tail(blocks))
             records == LaidOut(Head(blocks), 0)
             words == [key |-> "plain", next |-> rest.first, records |-> records,
                       length |-> IF Len(blocks) = 1 THEN 60 ELSE 30]
         IN  [first |-> [size |-> 24 + words.length, hash |-> words], body |-> <<words>> \o rest.body]

(* The edits before each place, by block and offset.                       *)
EditsBefore == (<<1, 0>> :> 0) @@ (<<1, 18>> :> 1) @@ (<<1, 30>> :> 2)
          @@ (<<2, 0>> :> 2) @@ (<<2, 12>> :> 3) @@ (<<2, 29>> :> 4)

PatchWith(move, encryption, imageSource) ==
    LET edits == EditsWith(move)
        chain == Chain(edits)
    IN  [magic |-> "XEX2", flags |-> {"DELTA"}, sourceKey |-> "k",
         source |-> Encrypted("plain", PatchedWords),
         aesKey |-> [under |-> "new", key |-> "p"],
         edits |-> edits[1] \o edits[2], made |-> chain.body, before |-> EditsBefore,
         body |-> [i \in 1 .. 2 |-> [chain.body[i] EXCEPT
                                       !.key = IF encryption = "NORMAL" THEN "p" ELSE "plain"]],
         headers |->
           <<[key |-> "DELTA_PATCH_DESCRIPTOR",
              value |-> [sourceOffset |-> 1, sourceSize |-> 2, targetOffset |-> 3,
                         sizeOfTargetHeaders |-> 5, madeFor |-> 1,
                         imageKeySource |-> [under |-> "new", key |-> "k"],
                         imageSource |-> imageSource, imageSize |-> 2, imageTarget |-> 6,
                         newHeader |-> [imageSize |-> 8, hasFormat |-> TRUE,
                                        encryption |-> encryption, compression |-> "DELTA",
                                        aesKey |-> [under |-> "retail", key |-> "new"]]]],
             [key |-> "FILE_FORMAT_INFO",
              value |-> [compression |-> "DELTA", encryption |-> encryption, windowSize |-> 1,
                         first |-> chain.first]]>>]
PatchOf(encryption, imageSource) ==
    PatchWith(Edit(6, 0, 1, 1, <<>>, <<>>), encryption, imageSource)
GoodPatch == PatchOf("NONE", 0)

DescriptorWith(field, value) == [GoodPatch EXCEPT !.headers[1].value[field] = value]
FormatWith(field, value) == [GoodPatch EXCEPT !.headers[2].value[field] = value]
MCPatches ==
    {PatchOf(encryption, imageSource) : encryption \in {"NONE", "NORMAL"}, imageSource \in {0, 4, 5}}
    \cup {PatchOf("UNKNOWN", 0), PatchWith(Edit(6, 5, 2, 1, <<>>, <<>>), "NONE", 0), DescriptorWith("targetOffset", 2),
          [GoodPatch EXCEPT !.magic = "ELF"], [GoodPatch EXCEPT !.flags = {}],
          [GoodPatch EXCEPT !.headers = Tail(@)], [GoodPatch EXCEPT !.headers = <<@[1]>>],
          FormatWith("compression", "BASIC"), FormatWith("windowSize", 0),
          DescriptorWith("sourceOffset", 5), DescriptorWith("sourceSize", 4),
          DescriptorWith("targetOffset", 6), DescriptorWith("targetOffset", 4),
          DescriptorWith("newHeader", [GoodPatch.headers[1].value.newHeader EXCEPT !.hasFormat = FALSE]),
          DescriptorWith("newHeader", [GoodPatch.headers[1].value.newHeader EXCEPT !.imageSize = 5])}
    \cup {[GoodPatch EXCEPT !.body[i].records[0].new = 3] : i \in 1 .. 2}
    \cup {[GoodPatch EXCEPT !.body[1].next.size = 0], [GoodPatch EXCEPT !.body[2].length = 12]}

-----------------------------------------------------------------------------
(* Calls: kinds in turn, with a null pointer, in place of it a word that   *)
(* does not fit, more floats than registers and integers on the stack.     *)
CallOf(kinds, values) == [kinds |-> kinds, values |-> values]
MCCalls ==
    {CallOf(<<>>, <<>>),
     CallOf(<<"int", "float", "pointer">>, <<20, 5, 0>>),
     CallOf([i \in 1 .. 23 |-> IF i % 3 = 2 THEN "int" ELSE "float"], [i \in 1 .. 23 |-> i])}
MCResults == {[kind |-> "int", value |-> 3], [kind |-> "pointer", value |-> 0]}
MCModes == [flush : BOOLEAN, round : {0, 1}]

-----------------------------------------------------------------------------
(* Databases: texts of several lengths, an empty and a missing one, an     *)
(* achievement without an image; the resources in either order, a spare    *)
(* entry of the free space or of the table; and buffers of another kind.   *)
OneByOne(texts) ==       \* one behind the other
    LET Before(i) == FoldLeft(LAMBDA sum, text : sum + 4 + text.length, 0, SubSeq(texts, 1, i - 1))
    IN  [i \in DOMAIN texts |-> [start |-> 14 + Before(i)] @@ texts[i]]
English ==
    OneByOne(<<[id |-> 1, length |-> 5, string |-> "Start"], [id |-> 3, length |-> 0, string |-> ""],
              [id |-> 2, length |-> 9, string |-> "Start now"], [id |-> 2, length |-> 4, string |-> "twin"],
              [id |-> 6, length |-> 3, string |-> "End"]>>)
German ==
    OneByOne(<<[id |-> 6, length |-> 4, string |-> "Ende"], [id |-> 1, length |-> 6, string |-> "Anfang"]>>)
Achievements ==
    <<[id |-> 2, name |-> 1, unlocked |-> 2, locked |-> 3, image |-> 8, score |-> 10],
      [id |-> 4, name |-> 6, unlocked |-> 5, locked |-> 1, image |-> 9, score |-> 50],
      [id |-> 3, name |-> 2, unlocked |-> 2, locked |-> 2, image |-> 7, score |-> 5]>>

TextBlob(texts) ==
    LET Starting(gap) == [offset \in {texts[i].start + gap : i \in DOMAIN texts} |->
                            texts[CHOOSE i \in DOMAIN texts : offset = texts[i].start + gap]]
    IN  [size |-> 80, at |-> (0 :> [count |-> Len(texts)]) @@ Starting(0) @@ Starting(4)]
AchievementBlob ==
    [size |-> 14 + 36 * 3,
     at |-> [offset \in {0} \cup {14 + 36 * i : i \in 0 .. 2} |->
               IF offset = 0 THEN [count |-> 3] ELSE Achievements[((offset - 14) \div 36) + 1]]]
ImageBlob(picture) == [size |-> 40, at |-> 0 :> [image |-> picture]]
Resource(ns, id, blob) == [ns |-> ns, id |-> id, blob |-> blob]
Resources ==
    <<Resource("STRING_TABLE", 1, TextBlob(English)), Resource("IMAGE", 8, ImageBlob("flag")),
      Resource("METADATA", XACHSignature, AchievementBlob), Resource("STRING_TABLE", 3, TextBlob(German)),
      Resource("IMAGE", 7, ImageBlob("cup"))>>

DatabaseOf(resources, spare, free) ==
    LET table == Len(resources) + spare
        content == 24 + 18 * table + 8 * free
        Offset(i) == FoldLeft(LAMBDA sum, r : sum + r.blob.size, 0, SubSeq(resources, 1, i - 1))
        first == 0 :> [signature |-> "XDBF", entryTableLength |-> table,
                        entryCount |-> Len(resources), freeSpaceTableLength |-> free]
        entries == [offset \in {24 + 18 * i : i \in 0 .. Len(resources) - 1} |->
                      LET i == ((offset - 24) \div 18) + 1
                      IN  [ns |-> resources[i].ns, id |-> resources[i].id, offset |-> Offset(i),
                           length |-> resources[i].blob.size]]
        blobs == FoldLeft(LAMBDA all, i :
                            all @@ [offset \in {content + Offset(i) + o : o \in DOMAIN resources[i].blob.at} |->
                                      resources[i].blob.at[offset - content - Offset(i)]],
                          << >>, [i \in DOMAIN resources |-> i])
        IdsOf(ns) == {resource.id : resource \in {r \in Range(resources) : r.ns = ns}}
    IN  [size |-> content + 1000, at |-> first @@ entries @@ blobs,
         meaning |-> [achievements |-> IF IdsOf("METADATA") = {} THEN <<>> ELSE Achievements,
                      images |-> [id \in IdsOf("IMAGE") |-> IF id = 8 THEN "flag" ELSE "cup"],
                      strings |-> [language \in IdsOf("STRING_TABLE") |->
                                     IF language = 1 THEN English ELSE German]]]

NoDatabase == [size |-> 0, at |-> << >>, meaning |-> [achievements |-> <<>>]]
MCDatabases ==
    {NoDatabase, [NoDatabase EXCEPT !.size = 100]}
    \cup {DatabaseOf(Resources, spare, free) : spare \in {0, 1}, free \in {0, 2}}
    \cup {DatabaseOf(SubSeq(Reverse(Resources), 1, 4), 0, 1), DatabaseOf(Tail(Resources), 0, 0),
            DatabaseOf(<<Resources[4], Resources[1]>>, 0, 0)}

-----------------------------------------------------------------------------
MCMemory == [i \in 0 .. 47 |-> i + 7]

(* Parameters: every render state that the code uses and two that it does  *)
(* not, some with two values; and for two samplers one state of each kind  *)
(* and the filters.                                                        *)
MCRenderParameters ==
    {"ZENABLE", "CULLMODE", "BLENDFACTOR", "SRCBLEND", "STENCILENABLE", "TWOSIDEDSTENCILMODE"} \X {0}
    \cup
    {"ZENABLE", "ZFUNC", "ZWRITEENABLE", "FILLMODE", "CULLMODE", "ALPHABLENDENABLE",
     "SEPARATEALPHABLENDENABLE", "BLENDFACTOR", "SRCBLEND", "DESTBLEND", "BLENDOP", "SRCBLENDALPHA",
     "DESTBLENDALPHA", "BLENDOPALPHA", "STENCILENABLE", "TWOSIDEDSTENCILMODE", "STENCILFAIL",
     "STENCILZFAIL", "STENCILPASS", "STENCILFUNC", "STENCILREF", "STENCILMASK", "STENCILWRITEMASK",
     "CCW_STENCILFAIL", "CCW_STENCILZFAIL", "CCW_STENCILPASS", "CCW_STENCILFUNC", "CCW_STENCILREF",
     "CCW_STENCILMASK", "COLORWRITEENABLE"} \X {6}
MCSamplerParameters ==
    {0, 15} \X {"ADDRESSU", "BORDERCOLOR", "MAGFILTER", "MINFILTER", "MIPFILTER", "MAGFILTERZ"} \X {1, 4}

-----------------------------------------------------------------------------
(* Texts shorter and longer than the buffers, with bytes that are not      *)
(* ASCII.                                                                  *)
MCTexts == {<<>>, <<65>>, <<128, 65>>, <<127, 255, 66>>, <<67, 68, 69, 70, 71>>}

-----------------------------------------------------------------------------
serviceParts == <<servicesVars, notifyVars, audioVars, convVars>>
libraryParts == <<execVars, patchVars, hookVars, titleVars, vectorVars, pipelineVars>>
vars == <<part, serviceParts, libraryParts>>

NoFile == [magic |-> "none", imageSize |-> 0, body |-> <<>>]
PatchIdle ==
    /\ base = NoFile /\ patch = NoFile /\ skipData = FALSE /\ mapped = {} /\ at = "idle"
    /\ header = NoHeader /\ out = <<>> /\ block = NoDeltaBlock /\ result = Pending
    /\ output = "none" /\ closeFailed = FALSE

Init ==
    /\ part \in {"locks", "storage", "notifications", "audio", "conversions",
                "executables", "patches", "calls", "titles", "vectors", "pipelines"}
    /\ ServicesInit
    /\ NotifyInit
    /\ AudioInit
    /\ part # "audio" => ~surround /\ device = NoDevice /\ ~downMix
    /\ ConversionsInit
    /\ ExecInit(IF part = "executables" THEN Executables ELSE {NoFile})
    /\ IF part = "patches" THEN PatchInit ELSE PatchIdle
    /\ HookInit /\ (part # "calls" => mxcsr = CHOOSE mode \in Modes : TRUE)
    /\ TitleInit /\ (part # "titles" => database = NoDatabase)
    /\ VectorInit
    /\ PipelineInit

ServiceNext ==
    \/ /\ \E t \in GuestThreads :
            \/ part \in {"locks", "storage"} /\ ContextStep(t)
            \/ part = "locks" /\ LockStep(t)
            \/ part = "storage" /\ ~freedTwice /\ TlsStep(t)
       /\ UNCHANGED <<notifyVars, audioVars, convVars>>
    \/ part = "notifications" /\ NotifyNext /\ UNCHANGED <<servicesVars, audioVars, convVars>>
    \/ part = "audio" /\ AudioNext /\ UNCHANGED <<servicesVars, notifyVars, convVars>>
    \/ part = "conversions" /\ ConversionsNext /\ UNCHANGED <<servicesVars, notifyVars, audioVars>>

LibraryNext ==
    \/ /\ part = "executables" /\ ExecNext
       /\ UNCHANGED <<patchVars, hookVars, titleVars, vectorVars, pipelineVars>>
    \/ /\ part = "patches" /\ PatchNext
       /\ UNCHANGED <<execVars, hookVars, titleVars, vectorVars, pipelineVars>>
    \/ /\ part = "calls" /\ HookNext
       /\ UNCHANGED <<execVars, patchVars, titleVars, vectorVars, pipelineVars>>
    \/ /\ part = "titles" /\ TitleNext
       /\ UNCHANGED <<execVars, patchVars, hookVars, vectorVars, pipelineVars>>
    \/ /\ part = "vectors" /\ VectorNext
       /\ UNCHANGED <<execVars, patchVars, hookVars, titleVars, pipelineVars>>
    \/ /\ part = "pipelines" /\ PipelineNext
       /\ UNCHANGED <<execVars, patchVars, hookVars, titleVars, vectorVars>>

Next ==
    /\ UNCHANGED part
    /\ \/ ServiceNext /\ UNCHANGED libraryParts
       \/ LibraryNext /\ UNCHANGED serviceParts

Spec == Init /\ [][Next]_vars /\ AudioFairness

=============================================================================
