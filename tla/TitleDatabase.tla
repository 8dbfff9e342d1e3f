----------------------------- MODULE TitleDatabase ----------------------------
(***************************************************************************)
(* utils/xdbf_wrapper.cpp: the lookups in a title's database, an XDBF file *)
(* in memory.  A file is a function from byte offsets to the records that  *)
(* begin there, the string after a string's entry among them; at any other *)
(* offset a read finds Unknown.  `meaning` is what its maker put into it.  *)
(***************************************************************************)
EXTENDS Integers, Sequences, FiniteSetsExt

CONSTANT Databases      \* the buffers: [size, at, meaning]

VARIABLES database,     \* the buffer of this behaviour
          wrapper,      \* the XDBFWrapper: whether it kept the buffer, and pContent
          question,     \* history: the last lookup
          answer        \* what it returned, under the name of the lookup

titleVars == <<database, wrapper, question, answer>>

HeaderSize == 24        \* the sizes of the packed structures of xdbf.h
EntrySize == 18
FreeSpaceEntrySize == 8
XSTRHeaderSize == 14
XSTREntrySize == 4
XACHHeaderSize == 14
XACHEntrySize == 36

XACHSignature == 1480672072    \* 0x58414348, the id of the achievements
Languages == {1, 3}     \* English, German
NoWrapper == [buffer |-> FALSE, content |-> 0]
NoResource == [buffer |-> 0, size |-> 0]
NoAchievement == [id |-> 0, name |-> "", unlocked |-> "", locked |-> "", score |-> 0, image |-> NoResource]
Unknown == [signature |-> "unknown", ns |-> "unknown", count |-> 0, id |-> 0, length |-> 0]

RecordAt(db, offset) == IF offset \in DOMAIN db.at THEN db.at[offset] ELSE Unknown
Bytes(offset) == RecordAt(database, offset)

-----------------------------------------------------------------------------
(* What the format promises of a file: behind the table of entries, which  *)
(* need not be full, and that of the free space are the resources that its *)
(* maker put there, each name once; texts follow one another, each behind  *)
(* its entry, `start` bytes into its block, and achievements have one size.*)
IsXDBF(db) == db.size > HeaderSize /\ RecordAt(db, 0).signature = "XDBF"
IsFull(db) == RecordAt(db, 0).entryCount = RecordAt(db, 0).entryTableLength

Table(db) == 1 .. RecordAt(db, 0).entryCount
Entry(db, i) == RecordAt(db, HeaderSize + EntrySize * (i - 1))
Content(db) == HeaderSize + EntrySize * RecordAt(db, 0).entryTableLength
               + FreeSpaceEntrySize * RecordAt(db, 0).freeSpaceTableLength
Data(db, i) == Content(db) + Entry(db, i).offset
Ids(db, ns) == {Entry(db, i).id : i \in {j \in Table(db) : Entry(db, j).ns = ns}}

HoldsTexts(db, data, texts) ==
    /\ RecordAt(db, data).count = Len(texts)
    /\ \A i \in DOMAIN texts :
          LET entry == RecordAt(db, data + texts[i].start) IN
          /\ texts[i].start \in Nat /\ texts[i].length \in Nat
          /\ texts[i].start = IF i = 1 THEN XSTRHeaderSize
                              ELSE texts[i - 1].start + XSTREntrySize + texts[i - 1].length
          /\ entry.id = texts[i].id /\ entry.length = texts[i].length
          /\ IF texts[i].length = 0 THEN texts[i].string = ""
             ELSE RecordAt(db, data + texts[i].start + XSTREntrySize).string = texts[i].string

HoldsAchievements(db, data, achievements) ==
    /\ RecordAt(db, data).count = Len(achievements)
    /\ \A i \in DOMAIN achievements :
          \A field \in {"id", "score", "name", "unlocked", "locked", "image"} :
            RecordAt(db, data + XACHHeaderSize + XACHEntrySize * (i - 1))[field] = achievements[i][field]

WellMade(db) ==
    /\ \A length \in {"entryCount", "entryTableLength", "freeSpaceTableLength"} :
          RecordAt(db, 0)[length] \in Nat
    /\ \A i, j \in Table(db) :
          Entry(db, i).ns = Entry(db, j).ns /\ Entry(db, i).id = Entry(db, j).id => i = j
    /\ DOMAIN db.meaning.strings = Ids(db, "STRING_TABLE")
    /\ DOMAIN db.meaning.images = Ids(db, "IMAGE")
    /\ XACHSignature \notin Ids(db, "METADATA") => db.meaning.achievements = <<>>
    /\ \A texts \in {db.meaning.strings[language] : language \in DOMAIN db.meaning.strings} :
          DOMAIN texts = 1 .. Len(texts) /\ Len(texts) \in Nat
    /\ DOMAIN db.meaning.achievements = 1 .. Len(db.meaning.achievements)
    /\ \A i \in Table(db) :
          LET entry == Entry(db, i) IN
          /\ entry.offset \in Nat
          /\ entry.ns = "STRING_TABLE" => HoldsTexts(db, Data(db, i), db.meaning.strings[entry.id])
          /\ entry.ns = "METADATA" /\ entry.id = XACHSignature =>
               HoldsAchievements(db, Data(db, i), db.meaning.achievements)
          /\ entry.ns = "IMAGE" => RecordAt(db, Data(db, i)).image = db.meaning.images[entry.id]

ASSUME FormatAssumption ==
    \A db \in Databases : db.size \in Nat /\ (IsXDBF(db) => WellMade(db))

-----------------------------------------------------------------------------
TitleInit ==
    /\ database \in Databases
    /\ wrapper = NoWrapper
    /\ question = <<"none">>
    /\ answer = <<>>

(* The constructor: no buffer, or one that is too small or of another      *)
(* kind, is dropped; the pointers of such a wrapper are never written.     *)
XDBFWrapper ==
    /\ question = <<"none">>
    /\ LET header == Bytes(0)
       IN  wrapper' = IF database.size <= HeaderSize \/ header.signature # "XDBF" THEN NoWrapper
                      ELSE [buffer |-> TRUE,
                            content |-> HeaderSize + EntrySize * header.entryCount
                                        + FreeSpaceEntrySize * header.freeSpaceTableLength]
    /\ question' = <<"open">>
    /\ UNCHANGED <<database, answer>>

(* The first entry of the name space with the id.                          *)
GetResource(ns, id) ==
    LET found == {i \in Table(database) : Entry(database, i).ns = ns /\ Entry(database, i).id = id}
        entry == Entry(database, Min(found))
    IN  IF found = {} THEN NoResource
        ELSE [buffer |-> wrapper.content + entry.offset, size |-> entry.length]

-----------------------------------------------------------------------------
(* A bug the code could have: the string behind an entry is not skipped.   *)
EntryOnly(entry) == XSTREntrySize
EntryAndString(entry) == XSTREntrySize + entry.length

(* The offsets of the entries of a block, each where the one before ended. *)
StringEntries(block) ==
    LET at[i \in 1 .. Bytes(block.buffer).count] ==
            IF i = 1 THEN block.buffer + XSTRHeaderSize
            ELSE at[i - 1] + EntryAndString(Bytes(at[i - 1]))
    IN  at

GetString(language, id) ==
    LET block == GetResource("STRING_TABLE", language)
        entries == StringEntries(block)
        found == {i \in DOMAIN entries : Bytes(entries[i]).id = id}
        at == entries[Min(found)]
    IN  IF block = NoResource \/ found = {} \/ Bytes(at).length = 0 THEN ""
        ELSE Bytes(at + XSTREntrySize).string

(* One achievement, with its strings in the language and its image, if the *)
(* file has it.                                                            *)
Achievement(entry, language) ==
    [id |-> entry.id, score |-> entry.score,
     name |-> GetString(language, entry.name),
     unlocked |-> GetString(language, entry.unlocked),
     locked |-> GetString(language, entry.locked),
     image |-> GetResource("IMAGE", entry.image)]

AchievementEntries ==
    LET block == GetResource("METADATA", XACHSignature)
    IN  IF block = NoResource THEN <<>>
        ELSE [i \in 1 .. Bytes(block.buffer).count |->
                block.buffer + XACHHeaderSize + XACHEntrySize * (i - 1)]

GetAchievements(language) ==
    LET entries == AchievementEntries
    IN  [i \in DOMAIN entries |-> Achievement(Bytes(entries[i]), language)]

GetAchievement(language, id) ==
    LET entries == AchievementEntries
        found == {i \in DOMAIN entries : Bytes(entries[i]).id = id}
    IN  IF found = {} THEN NoAchievement ELSE Achievement(Bytes(entries[Min(found)]), language)

(* The lookups of a caller, who looks at pBuffer before.                   *)
Lookup ==
    /\ wrapper.buffer
    /\ UNCHANGED <<database, wrapper>>
    /\ \E language \in Languages :
         \/ question' = <<"all", language>> /\ answer' = [all |-> GetAchievements(language)]
         \/ \E id \in 1 .. 4 : question' = <<"one", language, id>> /\ answer' = [one |-> GetAchievement(language, id)]
         \/ \E id \in 1 .. 7 : question' = <<"string", language, id>> /\ answer' = [string |-> GetString(language, id)]

TitleNext == XDBFWrapper \/ Lookup

TitleSpec == TitleInit /\ [][TitleNext]_titleVars

-----------------------------------------------------------------------------
(* What the maker meant by a string and an achievement.                    *)
Text(db, language, id) ==
    LET texts == IF language \in DOMAIN db.meaning.strings THEN db.meaning.strings[language] ELSE <<>>
        found == {i \in DOMAIN texts : texts[i].id = id}
    IN  IF found = {} THEN "" ELSE texts[Min(found)].string

Meant(db, achievement, language) ==
    [id |-> achievement.id, score |-> achievement.score, name |-> Text(db, language, achievement.name),
     unlocked |-> Text(db, language, achievement.unlocked), locked |-> Text(db, language, achievement.locked)]

(* What was returned for an achievement is what was meant, with the image. *)
Same(db, got, achievement, language) ==
    /\ \A field \in {"id", "score", "name", "unlocked", "locked"} :
         got[field] = Meant(db, achievement, language)[field]
    /\ IF achievement.image \in DOMAIN db.meaning.images
       THEN RecordAt(db, got.image.buffer).image = db.meaning.images[achievement.image]
       ELSE got.image = NoResource

StringIsMeant == answer.string = Text(database, question[2], question[3])

OneIsMeant ==
    LET meant == database.meaning.achievements
        found == {i \in DOMAIN meant : meant[i].id = question[3]}
    IN  IF found = {} THEN answer.one = NoAchievement
        ELSE Same(database, answer.one, meant[Min(found)], question[2])

AllAreMeant ==
    /\ DOMAIN answer.all = DOMAIN database.meaning.achievements
    /\ \A i \in DOMAIN answer.all : Same(database, answer.all[i], database.meaning.achievements[i], question[2])

(* Every lookup in a file whose table of entries is full returns what its  *)
(* maker put there: strings in their language however long the ones before *)
(* them, achievements in their order with their own strings and the image  *)
(* with their id, nothing for what is not there; a buffer that is too      *)
(* small or of another kind is not kept.                                   *)
RecordsAreFound ==
    /\ wrapper.buffer => IsXDBF(database)
    /\ wrapper.buffer /\ IsFull(database) =>
         /\ question[1] = "string" => StringIsMeant
         /\ question[1] = "one" => OneIsMeant
         /\ question[1] = "all" => AllAreMeant

=============================================================================
