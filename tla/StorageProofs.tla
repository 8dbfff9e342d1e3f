----------------------------- MODULE StorageProofs -----------------------------
(***************************************************************************)
(* Safety of what is in files and of what a guest has handles for: of      *)
(* FileSystem, with Content under it, of KernelObjects, of TitleDatabase,  *)
(* of Executables and of Patcher, for every value of their constants.      *)
(*                                                                         *)
(* Files: FileInv, whose parts are                                         *)
(*                                                                         *)
(*  - of the roots: that one that is open leads to a directory there is;   *)
(*  - of a path being made (PathInv): that a view is of a root that is     *)
(*    open and leads where it was asked for, unless it dangles, and that   *)
(*    what was built of it is the path that was asked for, unless that     *)
(*    was lost;                                                            *)
(*  - of an enumerator (EnumInv): that the packages of its making are      *)
(*    still there, and that it has returned those behind it, each once,    *)
(*    unless it skipped some or their order was changed;                   *)
(*  - of a search (SearchInv): that the names it has returned are those    *)
(*    that were expected and are not left, each once;                      *)
(*  - of the streams: that the disk holds what they have flushed, and that *)
(*    no two have one path;                                                *)
(*  - of the calls on them: that one which no other overlaps has the       *)
(*    stream for itself, in no error state, at the offset it was asked     *)
(*    for; and of a plain read, that the stream is where the one before    *)
(*    left it unless another read moves it now.                            *)
(*                                                                         *)
(* Kernel objects (Spec is theirs).  HeaderInv: an address written to a    *)
(* header, even one from before its last initialisation, is of a live      *)
(* object that nothing else refers to.  CompleteInv: once the signature    *)
(* is there and nobody is in between the signature and the address, the    *)
(* object is of the header's class.  CallInv: what each place in a query   *)
(* knows of its header.  HandleInv: an open handle is of a live object.    *)
(*                                                                         *)
(* The title database.  A walk over records of varying length meets each   *)
(* where its maker put it, and ends behind the last; so a lookup answers   *)
(* with the text that was meant, or with nothing when there is none.       *)
(*                                                                         *)
(* Executables.  ExecInv: what is loaded is what the blocks of the file    *)
(* mean (UnpackWritesMeaning), and binding an import changes the words of  *)
(* that import only, so that each word is bound or as it was (XexIsBound). *)
(*                                                                         *)
(* Patches.  PatchInv, by the place that apply is at: for the base that    *)
(* the patch was made for, what the new image holds there; and for any, a  *)
(* block that has the digest expected of it is the maker's, and its        *)
(* records are the maker's edits.  Unpacking in place never overwrites a   *)
(* block whose turn is still to come (BlockIsTurned).                      *)
(***************************************************************************)
EXTENDS FileSystem, KernelObjects, TitleDatabase, Patcher, PowersProofs, SequenceTheorems,
        FiniteSetTheorems, TLAPS

-----------------------------------------------------------------------------
(* The directories that a root can lead to, and the entries of a registry. *)
Directories == {"Data", "Save", "."}
Items == [file : {"Game", "Save"} \cup NewFiles, root : Directories]

RootsOK ==
    /\ rootMap \in [AllRoots -> Directories \cup {NoRoot}]
    /\ directories \subseteq Directories

UseOK ==
    /\ use = [t \in Callers |-> use[t]]
    /\ \A t \in Callers :
         /\ use[t].at \in {"create", "close", "resolve"} => use[t].root \in AllRoots
         /\ use[t].at = "create" => use[t].content \in Contents

(* No file is registered twice.                                            *)
ListOK(list) ==
    /\ list \in Seq(Items) /\ IsInjective(list)
    /\ \A a, b \in Range(list) : a.file = b.file => a = b

RegistryOK ==
    /\ registry = [kind \in ContentTypes |-> registry[kind]]
    /\ \A kind \in ContentTypes : ListOK(registry[kind])

-----------------------------------------------------------------------------
(* What SetToSeqs makes of a finite set.                                   *)
LEMMA Orders ==
    ASSUME NEW S, IsFiniteSet(S), NEW f \in SetToSeqs(S)
    PROVE  f \in Seq(S) /\ IsInjective(f) /\ Range(f) = S
<1> DEFINE n == Cardinality(S)
           D == 1 .. n
<1>1. f \in [D -> S] /\ \A i, j \in D : i # j => f[i] # f[j]
  BY DEF SetToSeqs
<1>2. n \in Nat
  BY FS_CardinalityType
<1>3. IsFiniteSet(D) /\ Cardinality(D) = n
  BY <1>2, FS_Interval
<1> HIDE DEF D, n
<1>4. IsInjective(f)
  BY <1>1 DEF IsInjective
<1>5. Range(f) = S
  <2>1. Range(f) \subseteq S
    BY <1>1 DEF Range
  <2>2. ASSUME NEW x \in S, x \notin Range(f) PROVE FALSE
    <3> DEFINE T == S \ {x}
    <3>1. f \in [D -> T]
      BY <1>1, <2>2 DEF Range
    <3>2. IsFiniteSet(T) /\ Cardinality(T) = n - 1
      BY FS_RemoveElement DEF n
    <3> HIDE DEF T
    <3>3. Cardinality(T) < Cardinality(D)
      BY <1>2, <1>3, <3>2
    <3>4. \E i, j \in D : i # j /\ f[i] = f[j]
      BY <1>3, <3>1, <3>2, <3>3, FS_PigeonHole
    <3> QED
      BY <1>1, <3>4
  <2> QED
    BY <2>1, <2>2
<1>6. f \in Seq(S)
  BY <1>1, <1>2, SeqDef DEF D
<1> QED
  BY <1>4, <1>5, <1>6

LEMMA RangeIsFinite ==
    ASSUME NEW S, NEW s \in Seq(S)
    PROVE  IsFiniteSet(Range(s)) /\ Range(s) \subseteq S
<1>1. Len(s) \in Nat /\ s \in [1 .. Len(s) -> S] /\ DOMAIN s = 1 .. Len(s)
  BY LenProperties
<1>2. IsFiniteSet(1 .. Len(s))
  BY <1>1, FS_Interval
<1>3. s \in Surjection(1 .. Len(s), Range(s))
  BY <1>1 DEF Surjection, Range
<1> QED
  BY <1>1, <1>2, <1>3, FS_Surjection DEF Range

(* A list with one file more is a list still, and differs from every list  *)
(* of the files before.                                                    *)
LEMMA Registered ==
    ASSUME NEW list, ListOK(list), NEW item \in Items,
           \A a \in Range(list) : a.file # item.file,
           NEW longer \in SetToSeqs(Range(list) \cup {item})
    PROVE  ListOK(longer) /\ Range(longer) = Range(list) \cup {item} /\ item \notin Range(list)
<1>1. IsFiniteSet(Range(list)) /\ Range(list) \subseteq Items
  BY RangeIsFinite DEF ListOK
<1>2. IsFiniteSet(Range(list) \cup {item})
  BY <1>1, FS_AddElement
<1>3. /\ longer \in Seq(Range(list) \cup {item}) /\ IsInjective(longer)
      /\ Range(longer) = Range(list) \cup {item}
  BY <1>2, Orders
<1>4. longer \in Seq(Items)
  BY <1>1, <1>3, SeqMonotonic
<1>5. \A a, b \in Range(list) \cup {item} : a.file = b.file => a = b
  BY DEF ListOK
<1> QED
  BY <1>3, <1>4, <1>5 DEF ListOK

-----------------------------------------------------------------------------
(* Calls begin with a root that there is, and end.                         *)
LEMMA BeginKeeps ==
    ASSUME UseOK, NEW t \in Callers, NEW record, record.root \in AllRoots,
           record.at = "create" => record.content \in Contents, Begin(t, record)
    PROVE  UseOK' /\ use'[t] = record
<1>1. use' = [use EXCEPT ![t] = record]
  BY DEF Begin
<1>2. use' = [u \in Callers |-> use'[u]] /\ use'[t] = record
      /\ \A u \in Callers \ {t} : use'[u] = use[u]
  BY <1>1 DEF UseOK
<1> QED
  BY <1>2 DEF UseOK

LEMMA FinishKeeps ==
    ASSUME UseOK, NEW t \in Callers, Finish(t)
    PROVE  UseOK'
<1>1. use' = [use EXCEPT ![t] = Free]
  BY DEF Finish
<1>2. use' = [u \in Callers |-> use'[u]] /\ use'[t] = Free
      /\ \A u \in Callers \ {t} : use'[u] = use[u]
  BY <1>1 DEF UseOK
<1>3. Free.at = "free"
  BY DEF Free
<1> QED
  BY <1>2, <1>3 DEF UseOK

(* A package leads to a directory, and its file is in the list of its type *)
(* when it exists.                                                         *)
LEMMA ContentsHaveRoots ==
    ASSUME RegistryOK, NEW content \in Contents
    PROVE  /\ content.type \in ContentTypes
           /\ content.file \in {"Game", "Save"} \cup NewFiles
           /\ ListOK(registry[content.type])
           /\ Exists(content) => RootOf(content) \in Directories
           /\ ~Exists(content) => \A a \in Range(registry[content.type]) : a.file # content.file
<1>1. content.type \in ContentTypes /\ content.file \in {"Game", "Save"} \cup NewFiles
  BY DEF Contents, GameContent, ContentTypes
<1>2. ListOK(registry[content.type])
  BY <1>1 DEF RegistryOK
<1>3. EntryOf(content) \subseteq Items
  BY <1>2, RangeIsFinite DEF ListOK, EntryOf
<1>4. Exists(content) => RootOf(content) \in Directories
  BY <1>3 DEF Exists, RootOf, Items
<1>5. ~Exists(content) => \A a \in Range(registry[content.type]) : a.file # content.file
  BY DEF Exists, EntryOf
<1> QED
  BY <1>1, <1>2, <1>4, <1>5

(* Opening a root that is open keeps its directory.                        *)
LEMMA OpenedKeeps ==
    ASSUME RootsOK, NEW root \in AllRoots, NEW path \in Directories,
           XamRootCreate(root, path)
    PROVE  rootMap' \in [AllRoots -> Directories \cup {NoRoot}]
  BY DEF RootsOK, XamRootCreate

LEMMA SameRoots ==
    ASSUME RootsOK, UNCHANGED <<rootMap, directories>>
    PROVE  RootsOK'
  BY DEF RootsOK

-----------------------------------------------------------------------------
(* Where an enumerator is that has n items of a list behind it.            *)
PositionAfter(list, n) == IF n = Len(list) THEN "end" ELSE list[n + 1].file

FirstOf(list, n) == {list[i] : i \in 1 .. n}

EnumeratorFields ==
    {"at", "type", "fetch", "position", "returned", "over", "skipped", "shuffled", "made"}

(* The items behind an enumerator that were in its list when it was made   *)
(* have been returned, and nothing that is before it has.                  *)
Progress(e, list, n) ==
    /\ e.position = PositionAfter(list, n)
    /\ e.returned \in Seq(Items) /\ IsInjective(e.returned)
    /\ Range(e.returned) \subseteq FirstOf(list, n)
    /\ Range(e.made) \cap FirstOf(list, n) \subseteq Range(e.returned)
    /\ e.over => n = Len(list)

EnumeratorOK(e, list) ==
    /\ DOMAIN e = EnumeratorFields
    /\ e.at = "open" /\ e.type \in ContentTypes /\ e.fetch \in Nat
    /\ Range(e.made) \subseteq Range(list)
    /\ ~e.skipped /\ ~e.shuffled => \E n \in 0 .. Len(list) : Progress(e, list, n)

EnumInv ==
    /\ enumerator = [e \in Enumerators |-> enumerator[e]]
    /\ \A e \in Enumerators :
         enumerator[e] # Free => EnumeratorOK(enumerator[e], registry[enumerator[e].type])

-----------------------------------------------------------------------------
LEMMA Lengths ==
    ASSUME NEW list, ListOK(list)
    PROVE  /\ list \in Seq(Items) /\ Len(list) \in Nat /\ DOMAIN list = 1 .. Len(list)
           /\ Range(list) = FirstOf(list, Len(list))
           /\ \A i \in 1 .. Len(list) : list[i] \in Items /\ list[i].file # "end"
           /\ \A i, j \in 1 .. Len(list) : list[i] = list[j] => i = j
<1>1. list \in Seq(Items) /\ Len(list) \in Nat /\ DOMAIN list = 1 .. Len(list)
  BY LenProperties DEF ListOK
<1>2. Range(list) = FirstOf(list, Len(list))
  BY <1>1 DEF Range, FirstOf
<1>3. \A i \in 1 .. Len(list) : list[i] \in Items /\ list[i].file # "end"
  <2>1. \A i \in 1 .. Len(list) : list[i] \in Items
    BY <1>1, ElementOfSeq
  <2>2. \A item \in Items : item.file # "end"
    BY ContentAssumption DEF Items
  <2> QED
    BY <2>1, <2>2
<1>4. \A i, j \in 1 .. Len(list) : list[i] = list[j] => i = j
  BY <1>1 DEF ListOK, IsInjective
<1> QED
  BY <1>1, <1>2, <1>3, <1>4

(* A list that has got another item and whose old items kept their order:  *)
(* what was behind a place in it is behind it still.                       *)
LEMMA GrownList ==
    ASSUME NEW list, ListOK(list), NEW longer, ListOK(longer), NEW item, item \notin Range(list),
           Range(longer) = Range(list) \cup {item}, InOrder(list) \subseteq InOrder(longer),
           NEW n \in 0 .. Len(list)
    PROVE  \E m \in 0 .. Len(longer) :
              /\ PositionAfter(longer, m) = PositionAfter(list, n)
              /\ n = Len(list) => m = Len(longer)
              /\ FirstOf(list, n) \subseteq FirstOf(longer, m)
              /\ FirstOf(longer, m) \subseteq FirstOf(list, n) \cup {item}
<1> DEFINE k == Len(list)
           l == Len(longer)
<1>1. /\ k \in Nat /\ DOMAIN list = 1 .. k /\ Range(list) = FirstOf(list, k)
      /\ \A i, j \in 1 .. k : list[i] = list[j] => i = j
  BY Lengths
<1>2. /\ l \in Nat /\ DOMAIN longer = 1 .. l /\ Range(longer) = FirstOf(longer, l)
      /\ \A i, j \in 1 .. l : longer[i] = longer[j] => i = j
  BY Lengths
<1>3. CASE n = k
  <2>1. PositionAfter(longer, l) = PositionAfter(list, n)
    BY <1>3 DEF PositionAfter
  <2>2. FirstOf(list, n) \subseteq FirstOf(longer, l)
        /\ FirstOf(longer, l) \subseteq FirstOf(list, n) \cup {item}
    BY <1>1, <1>2, <1>3
  <2>3. l \in 0 .. Len(longer)
    BY <1>2
  <2> QED
    BY <2>1, <2>2, <2>3
<1>4. CASE n # k
  <2> DEFINE next == n + 1
  <2>1. next \in 1 .. k /\ n \in Nat /\ n < next
    <3>1. k \in Nat /\ n \in 0 .. k
      BY <1>1
    <3> HIDE DEF k
    <3> QED
      BY <1>4, <3>1
  <2> HIDE DEF k, l
  <2>2. list[next] \in Range(longer)
    BY <1>1, <2>1 DEF Range
  <2>3. PICK j \in 1 .. l : longer[j] = list[next]
    BY <1>2, <2>2 DEF Range
  <2> DEFINE m == j - 1
  <2>4. m \in 0 .. l /\ m # l /\ m + 1 = j
    BY <1>2, <2>3
  <2>5. PositionAfter(longer, m) = PositionAfter(list, n)
    BY <1>4, <2>3, <2>4 DEF PositionAfter, k, l
  <2> HIDE DEF m
  <2>6. ASSUME NEW a \in 1 .. k, NEW b \in 1 .. k, a < b
        PROVE  \E c, d \in 1 .. l : c < d /\ longer[c] = list[a] /\ longer[d] = list[b]
    <3> DEFINE pair == <<list[a], list[b]>>
    <3>1. pair \in InOrder(list)
      BY <1>1, <2>6 DEF InOrder, Range
    <3>2. pair \in InOrder(longer)
      BY <3>1
    <3>3. PICK c, d \in 1 .. l : c < d /\ pair = <<longer[c], longer[d]>>
      BY <1>2, <3>2 DEF InOrder
    <3> QED
      BY <3>3
  <2>7. ASSUME NEW i \in 1 .. n PROVE list[i] \in FirstOf(longer, m)
    <3>1. i \in 1 .. k /\ i < next
      BY <1>1, <2>1
    <3>2. PICK c, d \in 1 .. l : c < d /\ longer[c] = list[i] /\ longer[d] = list[next]
      BY <2>1, <2>6, <3>1
    <3>3. d = j
      BY <1>2, <2>3, <3>2
    <3>4. c \in 1 .. m
      BY <1>2, <2>4, <3>2, <3>3
    <3> QED
      BY <3>2, <3>4 DEF FirstOf
  <2>8. ASSUME NEW c \in 1 .. m PROVE longer[c] \in FirstOf(list, n) \cup {item}
    <3>1. c \in 1 .. l /\ c < j
      BY <1>2, <2>4
    <3>2. longer[c] \in Range(list) \cup {item}
      BY <1>2, <3>1 DEF Range
    <3>3. ASSUME NEW i \in 1 .. k, longer[c] = list[i] PROVE i \in 1 .. n
      <4>1. i # next
        BY <1>2, <2>3, <3>1, <3>3
      <4>2. ~(next < i)
        <5> SUFFICES ASSUME next < i PROVE FALSE
          OBVIOUS
        <5>1. PICK a, b \in 1 .. l : a < b /\ longer[a] = list[next] /\ longer[b] = list[i]
          BY <2>1, <2>6, <3>3
        <5>2. a = j /\ b = c
          BY <1>2, <2>3, <3>1, <3>3, <5>1
        <5> QED
          BY <1>2, <3>1, <5>1, <5>2
      <4> QED
        BY <1>1, <2>1, <4>1, <4>2
    <3>4. longer[c] \in Range(list) => \E i \in 1 .. k : longer[c] = list[i]
      BY <1>1 DEF Range
    <3> QED
      BY <3>2, <3>3, <3>4 DEF FirstOf
  <2>9. /\ FirstOf(list, n) \subseteq FirstOf(longer, m)
        /\ FirstOf(longer, m) \subseteq FirstOf(list, n) \cup {item}
    BY <2>7, <2>8 DEF FirstOf
  <2> QED
    BY <1>4, <2>4, <2>5, <2>9 DEF k, l
<1> QED
  BY <1>3, <1>4

(* One enumerator, when its list has got an item.                          *)
LEMMA GrownEnumerator ==
    ASSUME NEW e, NEW list, EnumeratorOK(e, list), ListOK(list),
           NEW longer, ListOK(longer), NEW item, item \notin Range(list),
           Range(longer) = Range(list) \cup {item},
           NEW r, r = [e EXCEPT !.shuffled = @ \/ ~(InOrder(list) \subseteq InOrder(longer))]
    PROVE  EnumeratorOK(r, longer) /\ r.type = e.type
<1> DEFINE shuffled == e.shuffled \/ ~(InOrder(list) \subseteq InOrder(longer))
<1>1. r = [e EXCEPT !.shuffled = shuffled] /\ DOMAIN e = EnumeratorFields
  BY DEF EnumeratorOK
<1>2. ~shuffled => ~e.shuffled /\ InOrder(list) \subseteq InOrder(longer)
  OBVIOUS
<1> HIDE DEF shuffled
<1>3. /\ DOMAIN r = EnumeratorFields /\ r.at = e.at /\ r.type = e.type /\ r.fetch = e.fetch
      /\ r.position = e.position /\ r.returned = e.returned /\ r.over = e.over
      /\ r.skipped = e.skipped /\ r.made = e.made /\ r.shuffled = shuffled
  BY <1>1 DEF EnumeratorFields
<1>4. /\ e.at = "open" /\ e.type \in ContentTypes /\ e.fetch \in Nat
      /\ Range(e.made) \subseteq Range(list)
      /\ ~e.skipped /\ ~e.shuffled => \E n \in 0 .. Len(list) : Progress(e, list, n)
  BY DEF EnumeratorOK
<1>5. ASSUME ~r.skipped, ~r.shuffled
      PROVE  \E m \in 0 .. Len(longer) : Progress(r, longer, m)
  <2>1. InOrder(list) \subseteq InOrder(longer) /\ ~e.skipped /\ ~e.shuffled
    BY <1>2, <1>3, <1>5
  <2>2. PICK n \in 0 .. Len(list) : Progress(e, list, n)
    BY <1>4, <2>1
  <2>3. PICK m \in 0 .. Len(longer) :
              /\ PositionAfter(longer, m) = PositionAfter(list, n)
              /\ n = Len(list) => m = Len(longer)
              /\ FirstOf(list, n) \subseteq FirstOf(longer, m)
              /\ FirstOf(longer, m) \subseteq FirstOf(list, n) \cup {item}
    BY <2>1, GrownList
  <2>4. Range(e.made) \cap FirstOf(longer, m) \subseteq Range(e.returned)
    BY <1>4, <2>2, <2>3 DEF Progress
  <2>5. /\ e.position = PositionAfter(longer, m) /\ Range(e.returned) \subseteq FirstOf(longer, m)
        /\ e.over => m = Len(longer)
    BY <2>2, <2>3 DEF Progress
  <2>6. Progress(r, longer, m)
    BY <1>3, <2>2, <2>4, <2>5, Zenon DEF Progress
  <2> QED
    BY <2>6
<1>6. Range(r.made) \subseteq Range(longer)
  BY <1>3, <1>4
<1> QED
  BY <1>3, <1>4, <1>5, <1>6 DEF EnumeratorOK

LEMMA SameEnumerators ==
    ASSUME EnumInv, UNCHANGED <<registry, enumerator>>
    PROVE  EnumInv'
  BY DEF EnumInv

(* A file is registered.                                                   *)
LEMMA RegisterKeeps ==
    ASSUME RegistryOK, EnumInv, NEW content, content.type \in ContentTypes, NEW path,
           [file |-> content.file, root |-> path] \in Items,
           \A a \in Range(registry[content.type]) : a.file # content.file,
           XamRegisterContent(content, path)
    PROVE  RegistryOK' /\ EnumInv'
<1> DEFINE item == [file |-> content.file, root |-> path]
           kind == content.type
           list == registry[kind]
<1>1. PICK longer \in SetToSeqs(Range(list) \cup {item}) :
        /\ registry' = [registry EXCEPT ![kind] = longer]
        /\ enumerator' = [e \in Enumerators |->
              IF enumerator[e].at = "open" /\ enumerator[e].type = kind
              THEN [enumerator[e] EXCEPT !.shuffled =
                      @ \/ ~(InOrder(list) \subseteq InOrder(longer))]
              ELSE enumerator[e]]
  BY DEF XamRegisterContent
<1>2. item \in Items /\ \A a \in Range(list) : a.file # item.file
  OBVIOUS
<1>3. ListOK(list) /\ kind \in ContentTypes
  BY DEF RegistryOK
<1> HIDE DEF item, list, kind
<1>4. ListOK(longer) /\ Range(longer) = Range(list) \cup {item} /\ item \notin Range(list)
  BY <1>2, <1>3, Registered
<1>5. /\ registry' = [k \in ContentTypes |-> registry'[k]]
      /\ registry'[kind] = longer
      /\ \A k \in ContentTypes \ {kind} : registry'[k] = registry[k]
  BY <1>1, <1>3 DEF RegistryOK
<1>6. RegistryOK'
  BY <1>4, <1>5 DEF RegistryOK
<1>7. ASSUME NEW e \in Enumerators, enumerator'[e] # Free
      PROVE  EnumeratorOK(enumerator'[e], registry'[enumerator'[e].type])
  <2> DEFINE r == enumerator[e]
  <2>1. CASE r.at = "open" /\ r.type = kind
    <3>1. enumerator'[e] = [r EXCEPT !.shuffled =
                              @ \/ ~(InOrder(list) \subseteq InOrder(longer))]
      BY <1>1, <2>1
    <3>2. r # Free
      BY <2>1 DEF Free
    <3>3. EnumeratorOK(r, list)
      BY <2>1, <3>2 DEF EnumInv, list
    <3> HIDE DEF r
    <3>4. EnumeratorOK(enumerator'[e], longer) /\ enumerator'[e].type = r.type
      BY <1>3, <1>4, <3>1, <3>3, GrownEnumerator
    <3> QED
      BY <1>5, <2>1, <3>4
  <2>2. CASE ~(r.at = "open" /\ r.type = kind)
    <3>1. enumerator'[e] = r
      BY <1>1, <2>2
    <3>2. EnumeratorOK(r, registry[r.type])
      BY <1>7, <3>1 DEF EnumInv
    <3>3. r.type \in ContentTypes \ {kind}
      BY <2>2, <3>2 DEF EnumeratorOK
    <3> QED
      BY <1>5, <3>1, <3>2, <3>3
  <2> QED
    BY <2>1, <2>2
<1>8. enumerator' = [e \in Enumerators |-> enumerator'[e]]
  BY <1>1
<1> QED
  BY <1>6, <1>7, <1>8 DEF EnumInv

-----------------------------------------------------------------------------
LEMMA CreateKeeps ==
    ASSUME RootsOK, UseOK, RegistryOK, EnumInv, NEW t \in Callers, XamContentCreateEx(t)
    PROVE  RootsOK' /\ UseOK' /\ RegistryOK' /\ EnumInv'
<1> DEFINE root == use[t].root
           content == use[t].content
           path == IF content.type = SaveData THEN "Save" ELSE "."
<1>1. root \in AllRoots /\ content \in Contents
  BY DEF XamContentCreateEx, UseOK
<1>2. UseOK'
  BY FinishKeeps DEF XamContentCreateEx
<1> HIDE DEF root, content
<1>3. /\ content.type \in ContentTypes
      /\ content.file \in {"Game", "Save"} \cup NewFiles
      /\ ListOK(registry[content.type])
      /\ Exists(content) => RootOf(content) \in Directories
      /\ ~Exists(content) => \A a \in Range(registry[content.type]) : a.file # content.file
  BY <1>1, ContentsHaveRoots
<1>4. path \in Directories
  BY DEF Directories
<1> HIDE DEF path
<1>5. CASE ~Exists(content) /\ XamRegisterContent(content, path)
           /\ directories' = directories \cup {path} /\ XamRootCreate(root, path)
  <2>1. [file |-> content.file, root |-> path] \in Items
    BY <1>3, <1>4 DEF Items
  <2>2. RegistryOK' /\ EnumInv'
    BY <1>3, <1>5, <2>1, RegisterKeeps
  <2>3. RootsOK'
    BY <1>1, <1>4, <1>5, OpenedKeeps DEF RootsOK
  <2> QED
    BY <1>2, <2>2, <2>3
<1>6. CASE Exists(content) /\ XamRootCreate(root, RootOf(content))
           /\ UNCHANGED <<registry, directories, enumerator>>
  <2>1. RootsOK'
    BY <1>1, <1>3, <1>6, OpenedKeeps DEF RootsOK
  <2> QED
    BY <1>2, <1>6, <2>1, SameEnumerators DEF RegistryOK
<1>7. CASE UNCHANGED <<registry, directories, enumerator, rootMap>>
  BY <1>2, <1>7, SameRoots, SameEnumerators DEF RegistryOK
<1> QED
  BY <1>5, <1>6, <1>7 DEF XamContentCreateEx, root, content, path

LEMMA CloseKeeps ==
    ASSUME RootsOK, UseOK, NEW t \in Callers, XamContentClose(t)
    PROVE  RootsOK' /\ UseOK' /\ UNCHANGED <<registry, enumerator>>
<1> DEFINE root == use[t].root
<1>1. root \in AllRoots
  BY DEF XamContentClose, UseOK
<1>2. UseOK' /\ UNCHANGED <<registry, enumerator>>
  BY FinishKeeps DEF XamContentClose
<1>3. rootMap' = [rootMap EXCEPT ![root] = NoRoot] /\ directories' = directories
  BY SMTT(20) DEF XamContentClose
<1> HIDE DEF root
<1> QED
  BY <1>1, <1>2, <1>3 DEF RootsOK

-----------------------------------------------------------------------------
(* One enumerator changes.                                                 *)
LEMMA OneEnumerator ==
    ASSUME EnumInv, NEW e \in Enumerators, NEW r, enumerator' = [enumerator EXCEPT ![e] = r],
           UNCHANGED registry, r # Free => EnumeratorOK(r, registry[r.type])
    PROVE  EnumInv'
<1>1. /\ enumerator' = [d \in Enumerators |-> enumerator'[d]] /\ enumerator'[e] = r
      /\ \A d \in Enumerators \ {e} : enumerator'[d] = enumerator[d]
  BY DEF EnumInv
<1> QED
  BY <1>1 DEF EnumInv

(* An item is where it is: no other has its file.                          *)
LEMMA IndexOfNext ==
    ASSUME NEW kind, ListOK(registry[kind]), NEW n \in 0 .. Len(registry[kind])
    PROVE  IndexOf(kind, PositionAfter(registry[kind], n)) = n + 1
<1> DEFINE list == registry[kind]
           name == PositionAfter(list, n)
<1>1. /\ Len(list) \in Nat /\ DOMAIN list = 1 .. Len(list)
      /\ \A i \in 1 .. Len(list) : list[i].file # "end"
      /\ \A i, j \in 1 .. Len(list) : list[i] = list[j] => i = j
  BY Lengths
<1>2. CASE n = Len(list)
  BY <1>2 DEF IndexOf, PositionAfter
<1>3. CASE n < Len(list)
  <2>1. n + 1 \in 1 .. Len(list) /\ name = list[n + 1].file
    BY <1>1, <1>3 DEF PositionAfter
  <2>2. name # "end"
    BY <1>1, <2>1
  <2>3. ASSUME NEW i \in 1 .. Len(list), list[i].file = name PROVE i = n + 1
    <3>1. list[i] \in Range(list) /\ list[n + 1] \in Range(list)
      BY <1>1, <2>1 DEF Range
    <3>2. list[i] = list[n + 1]
      BY <2>1, <2>3, <3>1 DEF ListOK
    <3> QED
      BY <1>1, <2>1, <3>2
  <2>4. IndexOf(kind, name) = CHOOSE i \in 1 .. Len(list) : list[i].file = name
    BY <2>2 DEF IndexOf
  <2> HIDE DEF list, name
  <2> QED
    BY <2>1, <2>3, <2>4 DEF list, name
<1> QED
  BY <1>1, <1>2, <1>3

LEMMA CreateEnumeratorKeeps ==
    ASSUME RegistryOK, EnumInv, NEW t, NEW e \in Enumerators, NEW kind \in ContentTypes,
           NEW fetch \in Fetches, NEW user, XamContentCreateEnumerator(t, e, kind, fetch, user)
    PROVE  EnumInv'
<1> DEFINE list == registry[kind]
           r == [at |-> "open", type |-> kind, fetch |-> fetch,
                 position |-> IF list = <<>> THEN "end" ELSE list[1].file,
                 returned |-> <<>>, over |-> FALSE, skipped |-> FALSE,
                 shuffled |-> FALSE, made |-> list]
<1>1. CASE UNCHANGED <<enumerator, registry>>
  BY <1>1, SameEnumerators
<1>2. CASE enumerator' = [enumerator EXCEPT ![e] = r] /\ UNCHANGED registry
  <2>1. list \in Seq(Items)
    BY DEF RegistryOK, ListOK
  <2>2. list = <<>> <=> Len(list) = 0
    BY <2>1, EmptySeq
  <2>3. Len(list) \in Nat
    BY <2>1, LenProperties
  <2>4. fetch \in Nat
    BY ContentAssumption
  <2> DEFINE position == IF list = <<>> THEN "end" ELSE list[1].file
             zero == 0
             none == <<>>
  <2>5. position = PositionAfter(list, zero)
    BY <2>2, <2>3 DEF PositionAfter
  <2>6. none \in Seq(Items) /\ IsInjective(none) /\ Range(none) = {}
    BY DEF IsInjective, Range
  <2>7. /\ DOMAIN r = EnumeratorFields /\ r.at = "open" /\ r.type = kind /\ r.fetch = fetch
        /\ r.position = position /\ r.returned = none /\ r.made = list
    BY DEF EnumeratorFields
  <2>8. ~r.over
    OBVIOUS
  <2>9. FirstOf(list, zero) = {} /\ zero \in 0 .. Len(list)
    BY <2>3 DEF FirstOf
  <2> HIDE DEF list, r, position, zero, none
  <2>10. Progress(r, list, zero)
    BY <2>5, <2>6, <2>7, <2>8, <2>9 DEF Progress
  <2>11. EnumeratorOK(r, list)
    BY <2>4, <2>7, <2>9, <2>10 DEF EnumeratorOK
  <2> QED
    BY <1>2, <2>7, <2>11, OneEnumerator DEF list
<1> QED
  BY <1>1, <1>2 DEF XamContentCreateEnumerator

(* A part of a list, and what two lists make.                              *)
LEMMA PartOfList ==
    ASSUME NEW list, ListOK(list), NEW n \in Nat, NEW m \in Nat, n <= m, m <= Len(list)
    PROVE  LET part == SubSeq(list, n + 1, m)
           IN  /\ part \in Seq(Items) /\ IsInjective(part)
               /\ FirstOf(list, m) = FirstOf(list, n) \cup Range(part)
               /\ FirstOf(list, n) \cap Range(part) = {}
<1> DEFINE from == n + 1
           part == SubSeq(list, from, m)
           k == Len(part)
<1>1. /\ list \in Seq(Items) /\ Len(list) \in Nat
      /\ \A i \in 1 .. Len(list) : list[i] \in Items
      /\ \A i, j \in 1 .. Len(list) : list[i] = list[j] => i = j
  BY Lengths
<1>2. from \in Int /\ m \in Int /\ (\A i \in from .. m : list[i] \in Items) /\ from >= 1
  BY <1>1
<1> HIDE DEF from
<1>3. /\ part \in Seq(Items)
      /\ k = IF from <= m THEN m - from + 1 ELSE 0
      /\ \A i \in 1 .. m - from + 1 : part[i] = list[from + i - 1]
  BY <1>2, SubSeqProperties, SMTT(30)
<1>4. k = m - n /\ k \in Nat
  BY <1>3 DEF from
<1>5. \A i \in 1 .. k : part[i] = list[n + i] /\ n + i \in n + 1 .. m
  <2> SUFFICES ASSUME NEW i \in 1 .. k PROVE part[i] = list[n + i] /\ n + i \in n + 1 .. m
    OBVIOUS
  <2>1. i \in 1 .. m - from + 1 /\ from + i - 1 = n + i /\ n + i \in n + 1 .. m
    BY <1>4 DEF from
  <2> QED
    BY <1>3, <2>1
<1>6. DOMAIN part = 1 .. k
  BY <1>3, LenProperties
<1> HIDE DEF part, k
<1>7. IsInjective(part)
  <2> SUFFICES ASSUME NEW i \in 1 .. k, NEW j \in 1 .. k, part[i] = part[j]
               PROVE  i = j
    BY <1>6 DEF IsInjective
  <2>1. n + i \in 1 .. m /\ n + j \in 1 .. m
    BY <1>4, <1>5
  <2>2. list[n + i] = list[n + j]
    BY <1>5
  <2>3. n + i = n + j
    BY <1>1, <2>1, <2>2 DEF IsInjective
  <2> QED
    BY <1>4, <2>3
<1>8. Range(part) = {list[i] : i \in n + 1 .. m}
  <2>1. ASSUME NEW i \in n + 1 .. m PROVE list[i] \in Range(part)
    <3>1. i - n \in 1 .. k /\ n + (i - n) = i
      BY <1>4
    <3>2. part[i - n] = list[i]
      BY <1>5, <3>1
    <3> QED
      BY <1>6, <3>1, <3>2 DEF Range
  <2> QED
    BY <1>5, <1>6, <2>1 DEF Range
<1>9. FirstOf(list, m) = FirstOf(list, n) \cup Range(part)
  <2>1. 1 .. m = (1 .. n) \cup (n + 1 .. m)
    OBVIOUS
  <2> QED
    BY <1>8, <2>1 DEF FirstOf
<1>10. FirstOf(list, n) \cap Range(part) = {}
  <2> SUFFICES ASSUME NEW i \in 1 .. n, NEW j \in n + 1 .. m, list[i] = list[j] PROVE FALSE
    BY <1>8 DEF FirstOf
  <2>1. i \in 1 .. Len(list) /\ j \in 1 .. Len(list) /\ i # j
    BY <1>1
  <2> QED
    BY <1>1, <2>1
<1> QED
  BY <1>3, <1>7, <1>9, <1>10 DEF part, from

LEMMA JoinedLists ==
    ASSUME NEW S, NEW a \in Seq(S), NEW b \in Seq(S), IsInjective(a), IsInjective(b),
           Range(a) \cap Range(b) = {}
    PROVE  /\ a \o b \in Seq(S) /\ IsInjective(a \o b)
           /\ Range(a \o b) = Range(a) \cup Range(b)
<1> DEFINE k == Len(a)
           l == Len(b)
           c == a \o b
<1>1. k \in Nat /\ l \in Nat /\ DOMAIN a = 1 .. k /\ DOMAIN b = 1 .. l
  BY LenProperties
<1>2. /\ c \in Seq(S) /\ Len(c) = k + l
      /\ \A i \in 1 .. k + l : c[i] = IF i <= k THEN a[i] ELSE b[i - k]
  BY ConcatProperties
<1>3. DOMAIN c = 1 .. k + l
  BY <1>2, LenProperties
<1> HIDE DEF k, l, c
<1>4. \A i \in 1 .. k : i \in 1 .. k + l /\ c[i] = a[i]
  BY <1>1, <1>2
<1>5. \A i \in 1 .. l : k + i \in 1 .. k + l /\ c[k + i] = b[i]
  <2> SUFFICES ASSUME NEW i \in 1 .. l
               PROVE  k + i \in 1 .. k + l /\ c[k + i] = b[i]
    OBVIOUS
  <2> DEFINE m == k + i
  <2>1. m \in 1 .. k + l /\ ~(m <= k) /\ m - k = i
    BY <1>1
  <2> HIDE DEF m
  <2>2. c[m] = b[m - k]
    BY <1>2, <2>1
  <2> QED
    BY <2>1, <2>2 DEF m
<1>6. \A i \in 1 .. k + l : i \in 1 .. k \/ \E j \in 1 .. l : i = k + j
  <2> SUFFICES ASSUME NEW i \in 1 .. k + l, i \notin 1 .. k PROVE \E j \in 1 .. l : i = k + j
    OBVIOUS
  <2>1. i - k \in 1 .. l /\ i = k + (i - k)
    BY <1>1
  <2> QED
    BY <2>1
<1>7. Range(c) = Range(a) \cup Range(b)
  <2>1. Range(a) = {a[i] : i \in 1 .. k} /\ Range(b) = {b[i] : i \in 1 .. l}
        /\ Range(c) = {c[i] : i \in 1 .. k + l}
    BY <1>1, <1>3 DEF Range
  <2>2. \A i \in 1 .. k + l : c[i] \in Range(a) \cup Range(b)
    BY <1>4, <1>5, <1>6, <2>1
  <2>3. (\A i \in 1 .. k : a[i] \in Range(c)) /\ \A i \in 1 .. l : b[i] \in Range(c)
    BY <1>4, <1>5, <2>1
  <2> QED
    BY <2>1, <2>2, <2>3
<1>8. IsInjective(c)
  <2> SUFFICES ASSUME NEW i \in 1 .. k + l, NEW j \in 1 .. k + l, c[i] = c[j] PROVE i = j
    BY <1>3 DEF IsInjective
  <2>1. (\A x \in 1 .. k : a[x] \in Range(a)) /\ \A x \in 1 .. l : b[x] \in Range(b)
    BY <1>1 DEF Range
  <2>2. CASE i \in 1 .. k /\ j \in 1 .. k
    BY <1>1, <1>4, <2>2 DEF IsInjective
  <2>3. CASE i \in 1 .. k /\ j \notin 1 .. k
    BY <1>4, <1>5, <1>6, <2>3, <2>1
  <2>4. CASE i \notin 1 .. k /\ j \in 1 .. k
    BY <1>4, <1>5, <1>6, <2>4, <2>1
  <2>5. CASE i \notin 1 .. k /\ j \notin 1 .. k
    <3>1. PICK x \in 1 .. l, y \in 1 .. l : i = k + x /\ j = k + y
      BY <1>6, <2>5
    <3>2. b[x] = b[y]
      BY <1>5, <3>1
    <3> QED
      BY <1>1, <3>1, <3>2 DEF IsInjective
  <2> QED
    BY <2>2, <2>3, <2>4, <2>5
<1> QED
  BY <1>2, <1>7, <1>8 DEF c

LEMMA EnumerateKeeps ==
    ASSUME RegistryOK, EnumInv, NEW t, NEW e \in Enumerators, XamEnumerate(t, e)
    PROVE  EnumInv'
<1> DEFINE r == enumerator[e]
           list == registry[r.type]
           first == IndexOf(r.type, r.position)
           left == Len(list) - first + 1
           count == IF left < r.fetch THEN left ELSE r.fetch
           k == enumerator'[e]
           more == SubSeq(list, first, first + count - 1)
           position == IF left = 0 THEN "end" ELSE Position(e, first + count)
           isOver == left = 0
<1>1. r # Free /\ EnumeratorOK(r, list)
  <2>1. r # Free
    BY DEF XamEnumerate, Free
  <2> QED
    BY <2>1 DEF EnumInv
<1>2. /\ enumerator' = [d \in Enumerators |-> enumerator'[d]] /\ UNCHANGED registry
      /\ \A d \in Enumerators \ {e} : enumerator'[d] = enumerator[d]
      /\ k = [r EXCEPT !.over = (left = 0), !.position = position, !.returned = @ \o more]
  BY DEF XamEnumerate, EnumInv
<1>3. k = [r EXCEPT !.over = isOver, !.position = position, !.returned = @ \o more]
  BY <1>2
<1>4. DOMAIN r = EnumeratorFields
  BY <1>1 DEF EnumeratorOK
<1>5. ListOK(list) /\ r.fetch \in Nat
  BY <1>1 DEF EnumeratorOK, RegistryOK
<1>6. Len(list) \in Nat
  BY <1>5, Lengths
<1>7. ASSUME NEW n \in 0 .. Len(list), Progress(r, list, n)
      PROVE  \E m \in 0 .. Len(list) :
               /\ position = PositionAfter(list, m)
               /\ r.returned \o more \in Seq(Items) /\ IsInjective(r.returned \o more)
               /\ Range(r.returned \o more) \subseteq FirstOf(list, m)
               /\ Range(r.made) \cap FirstOf(list, m) \subseteq Range(r.returned \o more)
               /\ isOver => m = Len(list)
  <2>1. first = n + 1
    BY <1>5, <1>7, IndexOfNext DEF Progress
  <2> DEFINE m == n + count
  <2> HIDE DEF first
  <2>2. left = Len(list) - n /\ left \in Nat
    <3> HIDE DEF list
    <3> QED
      BY <1>6, <2>1
  <2>3. isOver => left = 0
    OBVIOUS
  <2> HIDE DEF left, isOver
  <2>4. count \in Nat /\ count <= left
    <3> HIDE DEF r
    <3> QED
      BY <1>5, <2>2
  <2> HIDE DEF count
  <2>5. m \in Nat /\ n \in Nat /\ n <= m /\ m <= Len(list) /\ m \in 0 .. Len(list)
    <3> HIDE DEF list
    <3> QED
      BY <1>6, <2>2, <2>4
  <2>6. first + count - 1 = m /\ first + count = m + 1
    BY <2>1, <2>4
  <2> HIDE DEF m
  <2>7. more = SubSeq(list, n + 1, m)
    BY <2>1, <2>6
  <2> HIDE DEF more
  <2>8. /\ more \in Seq(Items) /\ IsInjective(more)
        /\ FirstOf(list, m) = FirstOf(list, n) \cup Range(more)
        /\ FirstOf(list, n) \cap Range(more) = {}
    <3> HIDE DEF list
    <3> QED
      BY <1>5, <2>5, <2>7, PartOfList
  <2>9. /\ r.returned \in Seq(Items) /\ IsInjective(r.returned)
        /\ Range(r.returned) \subseteq FirstOf(list, n)
        /\ Range(r.made) \cap FirstOf(list, n) \subseteq Range(r.returned)
    BY <1>7 DEF Progress
  <2>10. Range(r.returned) \cap Range(more) = {}
    BY <2>8, <2>9
  <2>11. /\ r.returned \o more \in Seq(Items) /\ IsInjective(r.returned \o more)
         /\ Range(r.returned \o more) = Range(r.returned) \cup Range(more)
    <3> HIDE DEF r
    <3> QED
      BY <2>8, <2>9, <2>10, JoinedLists
  <2>12. position = PositionAfter(list, m)
    <3>1. CASE left = 0
      <4>1. m = Len(list)
        <5> HIDE DEF list
        <5> QED
          BY <1>6, <2>2, <2>5, <3>1
      <4> QED
        BY <3>1, <4>1 DEF PositionAfter
    <3>2. CASE left # 0
      <4>1. position = Position(e, m + 1)
        BY <2>6, <3>2
      <4>2. position = IF m + 1 > Len(list) THEN "end" ELSE list[m + 1].file
        BY <4>1 DEF Position
      <4> HIDE DEF list, position
      <4> QED
        BY <1>6, <2>5, <4>2 DEF PositionAfter
    <3> QED
      BY <3>1, <3>2
  <2>13. isOver => m = Len(list)
    <3> HIDE DEF list
    <3> QED
      BY <1>6, <2>2, <2>3, <2>5
  <2>14. /\ Range(r.returned \o more) \subseteq FirstOf(list, m)
         /\ Range(r.made) \cap FirstOf(list, m) \subseteq Range(r.returned \o more)
    BY <2>8, <2>9, <2>11
  <2> QED
    BY <2>5, <2>11, <2>12, <2>13, <2>14
<1> HIDE DEF first, left, count, k, more, position, isOver
<1>8. /\ DOMAIN k = EnumeratorFields /\ k.at = r.at /\ k.type = r.type /\ k.fetch = r.fetch
      /\ k.position = position /\ k.returned = r.returned \o more /\ k.made = r.made
      /\ k.over = isOver /\ k.skipped = r.skipped /\ k.shuffled = r.shuffled
  BY <1>3, <1>4 DEF EnumeratorFields
<1> HIDE DEF r, list
<1>9. EnumeratorOK(k, list)
  <2>1. ASSUME ~k.skipped, ~k.shuffled PROVE \E m \in 0 .. Len(list) : Progress(k, list, m)
    <3>1. PICK n \in 0 .. Len(list) : Progress(r, list, n)
      BY <1>1, <1>8, <2>1 DEF EnumeratorOK
    <3>2. PICK m \in 0 .. Len(list) :
               /\ position = PositionAfter(list, m)
               /\ r.returned \o more \in Seq(Items) /\ IsInjective(r.returned \o more)
               /\ Range(r.returned \o more) \subseteq FirstOf(list, m)
               /\ Range(r.made) \cap FirstOf(list, m) \subseteq Range(r.returned \o more)
               /\ isOver => m = Len(list)
      BY <1>7, <3>1
    <3>3. Progress(k, list, m)
      BY <1>8, <3>2, Zenon DEF Progress
    <3> QED
      BY <3>3
  <2> QED
    BY <1>1, <1>8, <2>1 DEF EnumeratorOK
<1>10. registry'[k.type] = list
  BY <1>2, <1>8 DEF list
<1> QED
  BY <1>2, <1>9, <1>10 DEF EnumInv, k

LEMMA WithoutBufferKeeps ==
    ASSUME EnumInv, NEW t, NEW e \in Enumerators, XamEnumerateWithoutBuffer(t, e)
    PROVE  EnumInv'
<1> DEFINE r == enumerator[e]
           k == enumerator'[e]
           list == registry[r.type]
<1>1. r # Free /\ EnumeratorOK(r, list)
  <2>1. r # Free
    BY DEF XamEnumerateWithoutBuffer, Free
  <2> QED
    BY <2>1 DEF EnumInv
<1>2. PICK over : enumerator' = [enumerator EXCEPT ![e].position = "end",
                                                   ![e].over = over, ![e].skipped = TRUE]
  BY ZenonT(20) DEF XamEnumerateWithoutBuffer
<1>3. /\ enumerator' = [d \in Enumerators |-> enumerator'[d]] /\ UNCHANGED registry
      /\ \A d \in Enumerators \ {e} : enumerator'[d] = enumerator[d]
      /\ k = [r EXCEPT !.position = "end", !.over = over, !.skipped = TRUE]
  BY <1>2 DEF XamEnumerateWithoutBuffer, EnumInv
<1>4. DOMAIN r = EnumeratorFields
  BY <1>1 DEF EnumeratorOK
<1> HIDE DEF k
<1>5. /\ DOMAIN k = EnumeratorFields /\ k.at = r.at /\ k.type = r.type /\ k.fetch = r.fetch
      /\ k.made = r.made /\ k.skipped = TRUE
  BY <1>3, <1>4 DEF EnumeratorFields
<1>6. EnumeratorOK(k, list)
  BY <1>1, <1>5, Zenon DEF EnumeratorOK
<1>7. registry'[k.type] = list
  BY <1>3, <1>5
<1> QED
  BY <1>3, <1>6, <1>7 DEF EnumInv, k

LEMMA CloseEnumeratorKeeps ==
    ASSUME EnumInv, NEW t, NEW e \in Enumerators, CloseEnumerator(t, e)
    PROVE  EnumInv'
<1>1. enumerator' = [enumerator EXCEPT ![e] = Free] /\ UNCHANGED registry
  BY DEF CloseEnumerator
<1> DEFINE r == Free
<1>2. enumerator' = [enumerator EXCEPT ![e] = r] /\ r = Free
  BY <1>1
<1> HIDE DEF r
<1> QED
  BY <1>1, <1>2, OneEnumerator


-----------------------------------------------------------------------------
(* Every step of the packages' calls keeps roots, calls, registry and      *)
(* enumerators.                                                            *)
LEMMA ContentKeeps ==
    ASSUME RootsOK, UseOK, RegistryOK, EnumInv, NEW t \in Callers, ContentStep(t)
    PROVE  RootsOK' /\ UseOK' /\ RegistryOK' /\ EnumInv'
<1> DEFINE Kept == RootsOK' /\ UseOK' /\ RegistryOK' /\ EnumInv'
<1>1. ASSUME UNCHANGED <<registry, rootMap, directories, enumerator>>, UseOK' PROVE Kept
  BY <1>1, SameRoots, SameEnumerators DEF RegistryOK
<1>2. ASSUME NEW root \in Roots, BeginContentClose(t, root) PROVE Kept
  <2> DEFINE record == [at |-> "close", root |-> root, reads |-> {}, changes |-> {"roots"}]
  <2>1. Begin(t, record) /\ record.at = "close" /\ record.root \in AllRoots
    BY <1>2 DEF BeginContentClose, AllRoots
  <2> HIDE DEF record, Kept
  <2> QED
    BY <1>1, <1>2, <2>1, BeginKeeps DEF BeginContentClose
<1>3. ASSUME NEW root \in Roots, NEW content \in Contents,
             NEW mode \in {"CREATE_ALWAYS", "OPEN_EXISTING"}, BeginContentCreate(t, root, content, mode)
      PROVE  Kept
  <2> DEFINE changes == {"roots"} \cup
                    IF mode = "CREATE_ALWAYS" /\ ~Exists(content) THEN {content.type} ELSE {}
             record == [at |-> "create", root |-> root, content |-> content, mode |-> mode,
                        reads |-> {content.type}, changes |-> changes]
  <2>1. Begin(t, record)
    BY <1>3 DEF BeginContentCreate
  <2> HIDE DEF changes
  <2>2. record.root \in AllRoots /\ record.content \in Contents
    BY DEF AllRoots
  <2> HIDE DEF record, Kept
  <2> QED
    BY <1>1, <1>3, <2>1, <2>2, BeginKeeps DEF BeginContentCreate
<1>4. ASSUME XamContentCreateEx(t) PROVE Kept
  BY <1>4, CreateKeeps
<1>5. ASSUME XamContentClose(t) PROVE Kept
  BY <1>5, CloseKeeps, SameEnumerators DEF RegistryOK
<1>6. ASSUME NEW e \in Enumerators, EnumInv',
             UNCHANGED <<registry, rootMap, directories, use>>
      PROVE  Kept
  BY <1>6, SameRoots DEF RegistryOK, UseOK
<1>7. ASSUME NEW e \in Enumerators, NEW kind \in ContentTypes, NEW fetch \in Fetches, NEW user,
             XamContentCreateEnumerator(t, e, kind, fetch, user)
      PROVE  Kept
  <2>1. EnumInv'
    BY <1>7, CreateEnumeratorKeeps
  <2>2. UNCHANGED <<registry, rootMap, directories, use>>
    BY <1>7 DEF XamContentCreateEnumerator
  <2> HIDE DEF Kept
  <2> QED
    BY <1>6, <2>1, <2>2
<1>8. ASSUME NEW e \in Enumerators,
             XamEnumerate(t, e) \/ XamEnumerateWithoutBuffer(t, e) \/ CloseEnumerator(t, e)
      PROVE  Kept
  <2>1. EnumInv'
    BY <1>8, EnumerateKeeps, WithoutBufferKeeps, CloseEnumeratorKeeps
  <2> HIDE DEF Kept
  <2> QED
    BY <1>6, <1>8, <2>1 DEF XamEnumerate, XamEnumerateWithoutBuffer, CloseEnumerator
<1> HIDE DEF Kept
<1>9. Kept
  BY <1>2, <1>3, <1>4, <1>5, <1>7, <1>8 DEF ContentStep
<1> QED
  BY <1>9 DEF Kept

(* What the invariant says of the enumerators.                             *)
LEMMA EnumeratorsComplete ==
    ASSUME RegistryOK, EnumInv
    PROVE  EnumerationsAreComplete
<1> SUFFICES ASSUME NEW e \in Enumerators, enumerator[e].at = "open", ~enumerator[e].skipped,
                    ~enumerator[e].shuffled
             PROVE  /\ IsInjective(enumerator[e].returned)
                    /\ Range(enumerator[e].returned) \subseteq Range(registry[enumerator[e].type])
                    /\ enumerator[e].over
                       => Range(enumerator[e].made) \subseteq Range(enumerator[e].returned)
  BY DEF EnumerationsAreComplete
<1> DEFINE r == enumerator[e]
           list == registry[r.type]
<1>1. r # Free
  BY DEF Free
<1>2. EnumeratorOK(r, list) /\ ListOK(list)
  <2>1. EnumeratorOK(r, list)
    BY <1>1 DEF EnumInv
  <2> QED
    BY <2>1 DEF EnumeratorOK, RegistryOK
<1>3. PICK n \in 0 .. Len(list) : Progress(r, list, n)
  BY <1>2 DEF EnumeratorOK
<1> HIDE DEF r, list
<1>4. Range(list) = FirstOf(list, Len(list)) /\ Len(list) \in Nat /\ DOMAIN list = 1 .. Len(list)
  BY <1>2, Lengths
<1>5. FirstOf(list, n) \subseteq Range(list)
  BY <1>4 DEF FirstOf, Range
<1>6. r.over => Range(r.made) \subseteq Range(r.returned)
  BY <1>2, <1>3, <1>4 DEF Progress, EnumeratorOK
<1> QED
  BY <1>3, <1>5, <1>6 DEF Progress, r, list

-----------------------------------------------------------------------------
(* The streams: what each is, and what the disk holds of it.               *)
StreamFields ==
    {"at", "path", "mode", "bytes", "dirty", "position", "fail", "bad", "mark", "asked"}

StreamOK(s) ==
    /\ DOMAIN s = StreamFields
    /\ s.at = "open" /\ s.path \in Paths /\ s.mode \in Modes
    /\ s.bytes \in Seq(Nat) /\ s.position \in Nat /\ s.mark \in Int
    /\ s.asked \in {s.path, Lost}

Clean(s) == ~s.fail /\ ~s.bad

StreamsOK ==
    /\ disk \in [Paths -> Seq(Nat)]
    /\ stream = [h \in Files |-> stream[h]]
    /\ \A h \in Files : stream[h] # Free =>
         /\ StreamOK(stream[h])
         /\ ~stream[h].dirty => disk[stream[h].path] = stream[h].bytes
    /\ \A g, h \in Files :
         g # h /\ stream[g] # Free /\ stream[h] # Free => stream[g].path # stream[h].path

-----------------------------------------------------------------------------
(* The operations on one stream.                                           *)
SameFile(s, k) == k.path = s.path /\ k.mode = s.mode /\ k.bytes = s.bytes

LEMMA ClearedStream ==
    ASSUME NEW s, StreamOK(s)
    PROVE  /\ StreamOK(Cleared(s)) /\ SameFile(s, Cleared(s)) /\ Clean(Cleared(s))
           /\ Cleared(s).position = s.position /\ Cleared(s).mark = s.mark
           /\ Cleared(s).dirty = s.dirty
<1> DEFINE k == Cleared(s)
<1>1. DOMAIN s = StreamFields
  BY DEF StreamOK
<1>2. /\ DOMAIN k = StreamFields /\ k.asked = s.asked /\ k.at = s.at /\ k.path = s.path /\ k.mode = s.mode
      /\ k.bytes = s.bytes /\ k.dirty = s.dirty /\ k.position = s.position /\ k.mark = s.mark
      /\ k.fail = FALSE /\ k.bad = FALSE
  BY <1>1 DEF Cleared, StreamFields
<1> HIDE DEF k
<1>3. StreamOK(k) /\ SameFile(s, k) /\ Clean(k)
  BY <1>2 DEF StreamOK, SameFile, Clean
<1> QED
  BY <1>2, <1>3 DEF k

LEMMA SoughtStream ==
    ASSUME NEW s, StreamOK(s), NEW offset \in Int
    PROVE  /\ StreamOK(SeekTo(s, offset)) /\ SameFile(s, SeekTo(s, offset))
           /\ SeekTo(s, offset).mark = s.mark
           /\ Clean(s) /\ offset >= 0 =>
                Clean(SeekTo(s, offset)) /\ SeekTo(s, offset).position = offset
           /\ Clean(s) => ~SeekTo(s, offset).dirty
           /\ ~Clean(s) => SeekTo(s, offset).dirty = s.dirty
<1> DEFINE k == SeekTo(s, offset)
<1>1. DOMAIN s = StreamFields /\ s.position \in Nat
  BY DEF StreamOK
<1>2. CASE ~Clean(s)
  <2>1. k = [s EXCEPT !.fail = TRUE]
    BY <1>2 DEF SeekTo, Clean
  <2>2. /\ DOMAIN k = StreamFields /\ k.asked = s.asked /\ k.at = s.at /\ k.path = s.path /\ k.mode = s.mode
        /\ k.bytes = s.bytes /\ k.dirty = s.dirty /\ k.position = s.position /\ k.mark = s.mark
    BY <1>1, <2>1 DEF StreamFields
  <2> HIDE DEF k
  <2>3. StreamOK(k) /\ SameFile(s, k)
    BY <2>2 DEF StreamOK, SameFile
  <2> QED
    BY <1>2, <2>2, <2>3, Zenon DEF k
<1>3. CASE Clean(s) /\ offset < 0
  <2>1. k = [[s EXCEPT !.dirty = FALSE] EXCEPT !.fail = TRUE]
    BY <1>3 DEF SeekTo, Clean, Flushed
  <2>2. /\ DOMAIN k = StreamFields /\ k.asked = s.asked /\ k.at = s.at /\ k.path = s.path /\ k.mode = s.mode
        /\ k.bytes = s.bytes /\ k.dirty = FALSE /\ k.position = s.position /\ k.mark = s.mark
    BY <1>1, <2>1 DEF StreamFields
  <2>3. ~(offset >= 0)
    BY <1>3
  <2> HIDE DEF k
  <2>4. StreamOK(k) /\ SameFile(s, k)
    BY <2>2 DEF StreamOK, SameFile
  <2> QED
    BY <1>3, <2>2, <2>3, <2>4, Zenon DEF k
<1>4. CASE Clean(s) /\ offset >= 0
  <2>1. k = [[s EXCEPT !.dirty = FALSE] EXCEPT !.position = offset]
    BY <1>4 DEF SeekTo, Clean, Flushed
  <2>2. /\ DOMAIN k = StreamFields /\ k.asked = s.asked /\ k.at = s.at /\ k.path = s.path /\ k.mode = s.mode
        /\ k.bytes = s.bytes /\ k.dirty = FALSE /\ k.position = offset /\ k.mark = s.mark
        /\ k.fail = s.fail /\ k.bad = s.bad
    BY <1>1, <2>1 DEF StreamFields
  <2>3. offset \in Nat
    BY <1>4
  <2> HIDE DEF k
  <2>4. StreamOK(k) /\ SameFile(s, k) /\ Clean(k)
    BY <1>4, <2>2, <2>3 DEF StreamOK, SameFile, Clean
  <2> QED
    BY <1>4, <2>2, <2>4, Zenon DEF k
<1>5. offset < 0 \/ offset >= 0
  OBVIOUS
<1> QED
  BY <1>2, <1>3, <1>4, <1>5

LEMMA AvailableBytes ==
    ASSUME NEW s, StreamOK(s), NEW n \in Nat
    PROVE  /\ Available(s, n) \in Nat /\ Available(s, n) <= n
           /\ Clean(s) /\ s.mode # "write" =>
                SubSeq(s.bytes, s.position + 1, s.position + Available(s, n))
                  = SubSeq(s.bytes, s.position + 1,
                           IF s.position + n < Len(s.bytes) THEN s.position + n ELSE Len(s.bytes))
<1> DEFINE length == Len(s.bytes)
           from == s.position
           bytes == s.bytes
           count == Available(s, n)
<1>1. length \in Nat /\ from \in Nat
  BY LenProperties DEF StreamOK
<1>2. CASE ~(Clean(s) /\ s.mode # "write")
  <2>1. count = 0
    BY <1>2 DEF Available, Clean
  <2> QED
    BY <1>2, <2>1
<1>3. CASE Clean(s) /\ s.mode # "write"
  <2>1. count = IF from > length THEN 0 ELSE IF length - from < n THEN length - from ELSE n
    BY <1>3 DEF Available, Clean
  <2> DEFINE last == IF from + n < length THEN from + n ELSE length
  <2> HIDE DEF count, length, from, bytes
  <2>2. count \in Nat /\ count <= n
    BY <1>1, <2>1
  <2>3. SubSeq(bytes, from + 1, from + count) = SubSeq(bytes, from + 1, last)
    <3>1. CASE from > length
      <4>1. count = 0 /\ last = length /\ from + count < from + 1 /\ last < from + 1
        BY <1>1, <2>1, <3>1
      <4>2. from + 1 \in Int /\ from + count \in Int /\ last \in Int
        BY <1>1, <2>2, <4>1
      <4> HIDE DEF last
      <4>3. SubSeq(bytes, from + 1, from + count) = <<>>
        BY <4>1, <4>2, SubSeqEmpty
      <4>4. SubSeq(bytes, from + 1, last) = <<>>
        BY <4>1, <4>2, SubSeqEmpty
      <4> QED
        BY <4>3, <4>4
    <3>2. CASE from <= length
      <4>1. from + count = last
        BY <1>1, <2>1, <3>2
      <4> HIDE DEF last
      <4> QED
        BY <4>1
    <3>3. from > length \/ from <= length
      BY <1>1
    <3> QED
      BY <3>1, <3>2, <3>3
  <2> QED
    BY <2>2, <2>3 DEF count, length, from, bytes
<1> QED
  BY <1>2, <1>3

LEMMA WrittenBytes ==
    ASSUME NEW bytes \in Seq(Nat), NEW position \in Nat, NEW n \in Nat
    PROVE  Written(bytes, position, n) \in Seq(Nat)
<1> DEFINE length == IF position + n > Len(bytes) THEN position + n ELSE Len(bytes)
           w == Written(bytes, position, n)
<1>1. Len(bytes) \in Nat /\ \A i \in 1 .. Len(bytes) : bytes[i] \in Nat
  BY LenProperties, ElementOfSeq
<1>2. length \in Nat
  BY <1>1
<1>3. w = [i \in 1 .. length |-> IF i > position /\ i <= position + n THEN 1
                                 ELSE IF i <= Len(bytes) THEN bytes[i] ELSE 0]
  BY DEF Written
<1> HIDE DEF length
<1>4. \A i \in 1 .. length : w[i] \in Nat
  BY <1>1, <1>2, <1>3
<1>5. w = [i \in 1 .. length |-> w[i]]
  BY <1>3
<1> HIDE DEF w
<1>6. w \in Seq(Nat)
  BY <1>2, <1>4, <1>5, IsASeq
<1> QED
  BY <1>6 DEF w

-----------------------------------------------------------------------------
(* The calls on streams.  One that no other overlaps has the stream for    *)
(* itself, where it needs it.                                              *)
Places == {"clear", "seek", "test", "read", "done"}
FileNames == {path[2] : path \in Paths}
CallFields == {"at", "file", "offset", "n", "mixed"}
ResultFields == CallFields \cup {"ok", "data"}

Using(c, h) == c.at \in Places /\ c.file = h

Elsewhere(c) ==
    \/ c.at = "free"
    \/ c.at = "found nothing" /\ c.expected \in {{}, NoClaim}
    \/ /\ c.at = "find" /\ DOMAIN c = {"at", "file", "pattern", "asked"}
       /\ c.pattern.all => c.file = ""
    \/ /\ c.at = "create" /\ DOMAIN c = {"at", "file", "mode", "asked"}
       /\ c.file \in FileNames /\ c.mode \in Modes

CallOK(c) ==
    /\ c.at \in Places /\ c.file \in Files /\ c.offset \in Int /\ c.n \in Nat
    /\ DOMAIN c = IF c.at = "done" THEN ResultFields ELSE CallFields
    /\ c.at \in {"clear", "seek"} => c.offset >= 0

Positioned(c, s) == c.offset >= 0 => Clean(s) /\ s.position = c.offset

TheBytes(c, s) ==
    c.ok /\ c.offset >= 0 /\ s.mode # "write" =>
       c.data = SubSeq(s.bytes, c.offset + 1,
                       IF c.offset + c.n < Len(s.bytes) THEN c.offset + c.n ELSE Len(s.bytes))

Alone(c, s) ==
    /\ c.at = "seek" => Clean(s)
    /\ c.at \in {"test", "read"} => Positioned(c, s)
    /\ c.at = "done" => TheBytes(c, s)

IoOK(t) ==
    \/ Elsewhere(io[t])
    \/ /\ CallOK(io[t]) /\ stream[io[t].file] # Free
       /\ ~io[t].mixed =>
            /\ \A u \in Callers \ {t} : ~Using(io[u], io[t].file)
            /\ Alone(io[t], stream[io[t].file])

IoInv ==
    /\ io = [t \in Callers |-> io[t]]
    /\ \A t \in Callers : IoOK(t)

(* Where the next plain read should read is where the stream is, unless a  *)
(* read moves it now.                                                      *)
InRead(h) == \E t \in Callers : io[t].at \in {"test", "read"} /\ io[t].file = h

MarksOK ==
    \A h \in Files : stream[h] # Free /\ stream[h].mark >= 0 =>
       Clean(stream[h]) /\ (stream[h].position = stream[h].mark \/ InRead(h))

-----------------------------------------------------------------------------
LEMMA FreeIsElsewhere == Elsewhere(Free) /\ \A h : ~Using(Free, h)
  BY DEF Elsewhere, Free, Using, Places

LEMMA ElsewhereUsesNone ==
    ASSUME NEW c, Elsewhere(c) PROVE \A h : ~Using(c, h)
  BY DEF Elsewhere, Using, Places

LEMMA BusyCallers ==
    ASSUME NEW h
    PROVE  \A u \in Callers : u \in Busy(h) <=> Using(io[u], h)
  BY DEF Busy, Using, Places, Free

(* What a call needs of a stream that is to stay as it is.                 *)
SameFor(s, k) ==
    /\ k # Free
    /\ k.fail = s.fail /\ k.bad = s.bad /\ k.position = s.position
    /\ k.mode = s.mode /\ k.bytes = s.bytes

LEMMA StillAlone ==
    ASSUME NEW c, NEW s, NEW k, Alone(c, s), SameFor(s, k)
    PROVE  Alone(c, k)
<1>1. Clean(s) => Clean(k)
  BY DEF SameFor, Clean
<1>2. Positioned(c, s) => Positioned(c, k)
  BY <1>1 DEF SameFor, Positioned
<1>3. TheBytes(c, s) => TheBytes(c, k)
  BY Zenon DEF SameFor, TheBytes
<1> QED
  BY <1>1, <1>2, <1>3 DEF Alone

(* A step of another kind: no call on a stream begins, moves or ends.      *)
LEMMA NoCallMoves ==
    ASSUME IoInv, io' = [t \in Callers |-> io'[t]],
           \A t \in Callers : \/ io'[t] = io[t]
                              \/ Elsewhere(io[t]) /\ Elsewhere(io'[t]),
           \A t \in Callers : \A h \in Files :
              Using(io[t], h) => stream'[h] = stream[h] \/ SameFor(stream[h], stream'[h])
    PROVE  IoInv' /\ \A h \in Files : InRead(h) => InRead(h)'
<1>1. \A t \in Callers : \A h : Using(io'[t], h) <=> Using(io[t], h)
  BY ElsewhereUsesNone
<1>2. ASSUME NEW t \in Callers PROVE IoOK(t)'
  <2>1. CASE Elsewhere(io'[t])
    BY <2>1 DEF IoOK
  <2>2. CASE ~Elsewhere(io'[t])
    <3> DEFINE c == io[t]
               h == c.file
    <3>1. io'[t] = c /\ ~Elsewhere(c)
      BY <2>2
    <3>2. /\ CallOK(c) /\ stream[h] # Free
          /\ ~c.mixed => /\ \A u \in Callers \ {t} : ~Using(io[u], h)
                         /\ Alone(c, stream[h])
      BY <3>1 DEF IoInv, IoOK
    <3>3. h \in Files /\ Using(c, h)
      BY <3>2 DEF CallOK, Using
    <3>4. stream'[h] # Free /\ (Alone(c, stream[h]) => Alone(c, stream'[h]))
      BY <3>2, <3>3, StillAlone DEF SameFor
    <3> HIDE DEF c
    <3>5. c.mixed \/ \A u \in Callers \ {t} : ~Using(io'[u], h)
      BY <1>1, <3>2
    <3> QED
      BY <3>1, <3>2, <3>4, <3>5, Zenon DEF IoOK
  <2> QED
    BY <2>1, <2>2
<1>3. ASSUME NEW h \in Files, InRead(h) PROVE InRead(h)'
  <2>1. PICK t \in Callers : io[t].at \in {"test", "read"} /\ io[t].file = h
    BY <1>3 DEF InRead
  <2>2. io'[t] = io[t]
    BY <2>1 DEF Elsewhere
  <2> QED
    BY <2>1, <2>2 DEF InRead
<1> QED
  BY <1>2, <1>3 DEF IoInv

(* A call on a stream makes a step: it goes on as r, or returns.           *)
LEMMA CallMoves ==
    ASSUME IoInv, NEW t \in Callers, ~Elsewhere(io[t]), NEW r, io' = [io EXCEPT ![t] = r],
           \A g \in Files \ {io[t].file} : stream'[g] = stream[g],
           stream'[io[t].file] # Free,
           \/ Elsewhere(r)
           \/ /\ CallOK(r) /\ r.file = io[t].file /\ r.mixed = io[t].mixed
              /\ ~r.mixed => Alone(r, stream'[r.file])
    PROVE  IoInv' /\ \A g \in Files \ {io[t].file} : InRead(g) => InRead(g)'
<1> DEFINE c == io[t]
           h == c.file
<1>1. /\ io' = [u \in Callers |-> io'[u]] /\ io'[t] = r
      /\ \A u \in Callers \ {t} : io'[u] = io[u]
  BY DEF IoInv
<1>2. /\ CallOK(c)
      /\ ~c.mixed => \A u \in Callers \ {t} : ~Using(io[u], h)
  BY DEF IoInv, IoOK
<1>3. Using(c, h)
  BY <1>2 DEF CallOK, Using
<1>4. \A g : Using(r, g) => g = h
  BY ElsewhereUsesNone DEF Using
<1> HIDE DEF c, h
<1>5. IoOK(t)'
  <2>1. CASE Elsewhere(r)
    BY <1>1, <2>1 DEF IoOK
  <2>2. CASE CallOK(r) /\ r.file = h /\ r.mixed = c.mixed /\ (~r.mixed => Alone(r, stream'[h]))
    <3>1. ~r.mixed => \A u \in Callers \ {t} : ~Using(io'[u], h)
      BY <1>1, <1>2, <2>2
    <3>2. stream'[h] # Free
      BY DEF h, c
    <3> QED
      BY <1>1, <2>2, <3>1, <3>2, Zenon DEF IoOK
  <2> QED
    BY <2>1, <2>2 DEF h, c
<1>6. ASSUME NEW u \in Callers \ {t} PROVE IoOK(u)'
  <2> DEFINE d == io[u]
             g == d.file
  <2>1. CASE Elsewhere(d)
    BY <1>1, <2>1 DEF IoOK
  <2>2. CASE ~Elsewhere(d)
    <3>1. /\ CallOK(d) /\ stream[g] # Free
          /\ ~d.mixed => /\ \A v \in Callers \ {u} : ~Using(io[v], g)
                         /\ Alone(d, stream[g])
      BY <2>2 DEF IoInv, IoOK
    <3>2. io'[u] = d /\ g \in Files
      BY <1>1, <3>1 DEF CallOK
    <3> HIDE DEF d
    <3>3. CASE g = h
      <4>1. d.mixed
        BY <1>3, <3>1, <3>3 DEF c
      <4>2. stream'[g] # Free
        BY <3>3 DEF h, c
      <4> QED
        BY <3>1, <3>2, <4>1, <4>2, Zenon DEF IoOK
    <3>4. CASE g # h
      <4>1. stream'[g] = stream[g]
        BY <3>2, <3>4 DEF h, c
      <4>2. ~d.mixed => \A v \in Callers \ {u} : ~Using(io'[v], g)
        BY <1>1, <1>4, <3>1, <3>4
      <4> QED
        BY <3>1, <3>2, <4>1, <4>2, Zenon DEF IoOK
    <3> QED
      BY <3>3, <3>4
  <2> QED
    BY <2>1, <2>2
<1>7. ASSUME NEW g \in Files \ {h}, InRead(g) PROVE InRead(g)'
  <2>1. PICK u \in Callers : io[u].at \in {"test", "read"} /\ io[u].file = g
    BY <1>7 DEF InRead
  <2>2. u # t
    BY <1>7, <2>1 DEF c, h
  <2> QED
    BY <1>1, <2>1, <2>2 DEF InRead
<1> QED
  BY <1>1, <1>5, <1>6, <1>7 DEF IoInv, h, c

-----------------------------------------------------------------------------
(* A call that has met another one.                                        *)
LEMMA MixedCall ==
    ASSUME NEW c, CallOK(c), NEW k, k = [c EXCEPT !.mixed = TRUE]
    PROVE  CallOK(k) /\ k.mixed /\ k.at = c.at /\ k.file = c.file
<1>1. DOMAIN k = DOMAIN c /\ "mixed" \in DOMAIN c
  BY DEF CallOK, CallFields, ResultFields
<1>2. k.mixed = TRUE
  BY <1>1
<1>3. {"at", "file", "offset", "n"} \subseteq DOMAIN c
  BY DEF CallOK, CallFields, ResultFields
<1>4. k.at = c.at /\ k.file = c.file /\ k.offset = c.offset /\ k.n = c.n
  BY <1>3
<1>5. CallOK(k)
  BY <1>1, <1>4 DEF CallOK
<1> QED
  BY <1>2, <1>4, <1>5

(* A call begins on stream h, and it and those in progress are mixed; or a *)
(* whole call mixes those in progress.                                     *)
LEMMA CallsMix ==
    ASSUME IoInv, NEW t \in Callers, NEW h \in Files, Elsewhere(io[t]),
           io' = [u \in Callers |-> io'[u]],
           \A u \in Callers \ {t} :
              io'[u] = IF u \in Busy(h) THEN [io[u] EXCEPT !.mixed = TRUE] ELSE io[u],
           \/ io'[t] = io[t]
           \/ /\ CallOK(io'[t]) /\ io'[t].file = h
              /\ ~io'[t].mixed => Busy(h) = {} /\ Alone(io'[t], stream'[h]),
           \A g \in Files \ {h} : stream'[g] = stream[g],
           stream'[h] # Free
    PROVE  IoInv' /\ \A g \in Files : InRead(g) => InRead(g)'
<1>1. \A u \in Callers : u \in Busy(h) <=> Using(io[u], h)
  BY BusyCallers
<1>2. ASSUME NEW u \in Callers \ {t}, Using(io[u], h)
      PROVE  CallOK(io'[u]) /\ io'[u].mixed /\ io'[u].at = io[u].at /\ io'[u].file = io[u].file
  <2>1. CallOK(io[u])
    BY <1>2, ElsewhereUsesNone DEF IoInv, IoOK
  <2>2. io'[u] = [io[u] EXCEPT !.mixed = TRUE]
    BY <1>1, <1>2
  <2> QED
    BY <2>1, <2>2, MixedCall
<1>3. ASSUME NEW u \in Callers \ {t}, ~Using(io[u], h) PROVE io'[u] = io[u]
  BY <1>1, <1>3
<1>4. ASSUME NEW u \in Callers \ {t} PROVE \A g : Using(io'[u], g) <=> Using(io[u], g)
  BY <1>2, <1>3 DEF Using
<1>5. \A g : Using(io'[t], g) => g = h
  BY ElsewhereUsesNone DEF Using
<1>6. IoOK(t)'
  <2>1. CASE io'[t] = io[t]
    BY <2>1 DEF IoOK
  <2>2. CASE /\ CallOK(io'[t]) /\ io'[t].file = h
             /\ ~io'[t].mixed => Busy(h) = {} /\ Alone(io'[t], stream'[h])
    <3>1. ~io'[t].mixed => \A u \in Callers \ {t} : ~Using(io'[u], h)
      BY <1>1, <1>4, <2>2
    <3> QED
      BY <2>2, <3>1, Zenon DEF IoOK
  <2> QED
    BY <2>1, <2>2
<1>7. ASSUME NEW u \in Callers \ {t} PROVE IoOK(u)'
  <2>1. CASE Using(io[u], h)
    <3>1. CallOK(io'[u]) /\ io'[u].mixed /\ io'[u].file = h
      BY <1>2, <2>1 DEF Using
    <3> QED
      BY <3>1, Zenon DEF IoOK
  <2>2. CASE ~Using(io[u], h)
    <3> DEFINE d == io[u]
               g == d.file
    <3>1. io'[u] = d
      BY <1>3, <2>2
    <3>2. CASE Elsewhere(d)
      BY <3>1, <3>2 DEF IoOK
    <3>3. CASE ~Elsewhere(d)
      <4>1. /\ CallOK(d) /\ stream[g] # Free
            /\ ~d.mixed => /\ \A v \in Callers \ {u} : ~Using(io[v], g)
                           /\ Alone(d, stream[g])
        BY <3>3 DEF IoInv, IoOK
      <4>2. g \in Files /\ g # h
        BY <2>2, <4>1 DEF CallOK, Using
      <4> HIDE DEF d
      <4>3. stream'[g] = stream[g]
        BY <4>2
      <4>4. ~d.mixed => \A v \in Callers \ {u} : ~Using(io'[v], g)
        BY <1>4, <1>5, <4>1, <4>2
      <4> QED
        BY <3>1, <4>1, <4>3, <4>4, Zenon DEF IoOK
    <3> QED
      BY <3>2, <3>3
  <2> QED
    BY <2>1, <2>2
<1>8. ASSUME NEW g \in Files, InRead(g) PROVE InRead(g)'
  <2>1. PICK u \in Callers : io[u].at \in {"test", "read"} /\ io[u].file = g
    BY <1>8 DEF InRead
  <2>2. u # t
    BY <2>1 DEF Elsewhere
  <2>3. io'[u].at = io[u].at /\ io'[u].file = io[u].file
    BY <1>2, <1>3, <2>2
  <2> QED
    BY <2>1, <2>3 DEF InRead
<1> QED
  BY <1>6, <1>7, <1>8 DEF IoInv

LEMMA CallBegins ==
    ASSUME IoInv, NEW t \in Callers, NEW h \in Files, NEW place, NEW offset \in Int, NEW n \in Nat,
           BeginIo(t, h, place, offset, n), UNCHANGED stream,
           \/ place = "clear" /\ offset >= 0
           \/ place = "read" /\ (Busy(h) = {} /\ offset >= 0 =>
                                   Clean(stream[h]) /\ stream[h].position = offset)
    PROVE  IoInv' /\ \A g \in Files : InRead(g) => InRead(g)'
<1> DEFINE met == Busy(h) # {}
           r == [at |-> place, file |-> h, offset |-> offset, n |-> n, mixed |-> met]
<1>1. io[t] = Free /\ stream[h] # Free
  BY DEF BeginIo
<1>2. io' = [u \in Callers |->
                IF u = t THEN r
                ELSE IF u \in Busy(h) THEN [io[u] EXCEPT !.mixed = TRUE] ELSE io[u]]
  BY DEF BeginIo
<1>3. /\ DOMAIN r = CallFields
      /\ r.at = place /\ r.file = h /\ r.offset = offset /\ r.n = n /\ r.mixed = met
  BY DEF CallFields
<1> HIDE DEF r
<1>4. /\ io' = [u \in Callers |-> io'[u]] /\ io'[t] = r
      /\ \A u \in Callers \ {t} :
           io'[u] = IF u \in Busy(h) THEN [io[u] EXCEPT !.mixed = TRUE] ELSE io[u]
  BY <1>2
<1>5. CallOK(r)
  BY <1>3 DEF CallOK, Places
<1>6. ~r.mixed => Busy(h) = {} /\ Alone(r, stream[h])
  <2> SUFFICES ASSUME Busy(h) = {} PROVE Alone(r, stream[h])
    BY <1>3
  <2>1. r.at # "seek" /\ r.at # "done" /\ r.at # "test"
    BY <1>3
  <2>2. r.at = "read" => Positioned(r, stream[h])
    BY <1>3 DEF Positioned
  <2> QED
    BY <2>1, <2>2 DEF Alone
<1>7. Elsewhere(io[t])
  BY <1>1, FreeIsElsewhere
<1> QED
  BY <1>1, <1>3, <1>4, <1>5, <1>6, <1>7, CallsMix, Zenon

LEMMA WholeCall ==
    ASSUME IoInv, NEW t \in Callers, NEW h \in Files, Whole(t, h),
           \A g \in Files \ {h} : stream'[g] = stream[g], stream'[h] # Free
    PROVE  IoInv' /\ \A g \in Files : InRead(g) => InRead(g)'
<1>1. io[t] = Free
  BY DEF Whole
<1>2. io' = [u \in Callers |-> IF u \in Busy(h) THEN [io[u] EXCEPT !.mixed = TRUE] ELSE io[u]]
  BY DEF Whole
<1>3. t \notin Busy(h)
  BY <1>1 DEF Busy
<1>4. /\ io' = [u \in Callers |-> io'[u]] /\ io'[t] = io[t]
      /\ \A u \in Callers \ {t} :
           io'[u] = IF u \in Busy(h) THEN [io[u] EXCEPT !.mixed = TRUE] ELSE io[u]
  BY <1>2, <1>3
<1>5. Elsewhere(io[t])
  BY <1>1, FreeIsElsewhere
<1> QED
  BY <1>4, <1>5, CallsMix, Zenon

-----------------------------------------------------------------------------
(* One stream changes.                                                     *)
OnlyStream(h, k) ==
    /\ stream' = [stream EXCEPT ![h] = k]
    /\ stream' = [g \in Files |-> stream'[g]] /\ stream'[h] = k
    /\ \A g \in Files \ {h} : stream'[g] = stream[g]

LEMMA StreamChanges ==
    ASSUME StreamsOK, NEW h \in Files, NEW k, stream' = [stream EXCEPT ![h] = k]
    PROVE  OnlyStream(h, k)
  BY DEF StreamsOK, OnlyStream

(* It stays the stream of its file, and what the disk holds may change     *)
(* where it has a part.                                                    *)
LEMMA StreamKeeps ==
    ASSUME StreamsOK, NEW h \in Files, stream[h] # Free, NEW k, OnlyStream(h, k),
           disk' = disk \/ ToDisk(stream[h]),
           k # Free => /\ StreamOK(k) /\ k.path = stream[h].path
                       /\ ~k.dirty => disk'[stream[h].path] = k.bytes
    PROVE  StreamsOK'
<1> DEFINE s == stream[h]
           path == s.path
           bytes == s.bytes
<1>1. StreamOK(s) /\ path \in Paths /\ bytes \in Seq(Nat)
  BY DEF StreamsOK, StreamOK
<1>2. disk' = disk \/ disk' = [disk EXCEPT ![path] = bytes]
  BY DEF ToDisk
<1> HIDE DEF bytes
<1>3. disk' \in [Paths -> Seq(Nat)] /\ \A other \in Paths \ {path} : disk'[other] = disk[other]
  BY <1>1, <1>2 DEF StreamsOK
<1>4. /\ stream' = [g \in Files |-> stream'[g]] /\ stream'[h] = k
      /\ \A g \in Files \ {h} : stream'[g] = stream[g]
  BY DEF OnlyStream
<1>5. ASSUME NEW g \in Files, stream'[g] # Free
      PROVE  StreamOK(stream'[g]) /\ (~stream'[g].dirty => disk'[stream'[g].path] = stream'[g].bytes)
  <2>1. CASE g = h
    BY <1>4, <1>5, <2>1
  <2>2. CASE g # h
    <3>1. stream'[g] = stream[g] /\ stream[g] # Free
      BY <1>4, <1>5, <2>2
    <3>2. /\ StreamOK(stream[g])
          /\ ~stream[g].dirty => disk[stream[g].path] = stream[g].bytes
          /\ stream[g].path # path
      BY <2>2, <3>1 DEF StreamsOK
    <3>3. stream[g].path \in Paths \ {path}
      BY <3>2 DEF StreamOK
    <3> QED
      BY <1>3, <3>1, <3>2, <3>3
  <2> QED
    BY <2>1, <2>2
<1>6. \A g \in Files : stream'[g] # Free => stream[g] # Free /\ stream'[g].path = stream[g].path
  BY <1>4
<1>7. ASSUME NEW f \in Files, NEW g \in Files, f # g, stream'[f] # Free, stream'[g] # Free
      PROVE  stream'[f].path # stream'[g].path
  BY <1>6, <1>7 DEF StreamsOK
<1> QED
  BY <1>3, <1>4, <1>5, <1>7 DEF StreamsOK

(* A stream reaches the disk.                                              *)
LEMMA DiskHolds ==
    ASSUME StreamsOK, NEW h \in Files, stream[h] # Free, ToDisk(stream[h])
    PROVE  disk'[stream[h].path] = stream[h].bytes
<1> DEFINE path == stream[h].path
           bytes == stream[h].bytes
<1>1. path \in Paths /\ disk \in [Paths -> Seq(Nat)]
      /\ (~stream[h].dirty => disk[path] = bytes)
  BY DEF StreamsOK, StreamOK
<1>2. CASE stream[h].dirty
  <2>1. disk' = [disk EXCEPT ![path] = bytes]
    BY <1>2 DEF ToDisk
  <2> HIDE DEF path, bytes
  <2>2. disk'[path] = bytes
    BY <1>1, <2>1
  <2> QED
    BY <2>2 DEF path, bytes
<1>3. CASE ~stream[h].dirty
  BY <1>1, <1>3 DEF ToDisk
<1> QED
  BY <1>2, <1>3

(* The marks of the other streams.                                         *)
LEMMA MarksKeep ==
    ASSUME MarksOK, NEW h \in Files,
           \A g \in Files \ {h} : stream'[g] = stream[g] /\ (InRead(g) => InRead(g)'),
           stream'[h] # Free /\ stream'[h].mark >= 0 =>
              Clean(stream'[h]) /\ (stream'[h].position = stream'[h].mark \/ InRead(h)')
    PROVE  MarksOK'
<1>1. ASSUME NEW g \in Files, stream'[g] # Free, stream'[g].mark >= 0
      PROVE  Clean(stream'[g]) /\ (stream'[g].position = stream'[g].mark \/ InRead(g)')
  <2>1. CASE g = h
    BY <1>1, <2>1
  <2>2. CASE g # h
    <3>1. stream'[g] = stream[g] /\ (InRead(g) => InRead(g)')
      BY <2>2
    <3>2. Clean(stream[g]) /\ (stream[g].position = stream[g].mark \/ InRead(g))
      BY <1>1, <3>1 DEF MarksOK
    <3> QED
      BY <3>1, <3>2
  <2> QED
    BY <2>1, <2>2
<1> QED
  BY <1>1, Zenon DEF MarksOK, Clean

-----------------------------------------------------------------------------
FilesOK == StreamsOK /\ IoInv /\ MarksOK

(* The call that a thread is in, and where it goes.                        *)
LEMMA TheCall ==
    ASSUME FilesOK, NEW t \in Callers, io[t].at \in Places
    PROVE  /\ ~Elsewhere(io[t]) /\ CallOK(io[t])
           /\ io[t].file \in Files /\ stream[io[t].file] # Free /\ StreamOK(stream[io[t].file])
           /\ ~io[t].mixed => Alone(io[t], stream[io[t].file])
<1>1. ~Elsewhere(io[t])
  BY DEF Elsewhere, Places
<1>2. /\ CallOK(io[t]) /\ stream[io[t].file] # Free
      /\ ~io[t].mixed => Alone(io[t], stream[io[t].file])
  BY <1>1 DEF FilesOK, IoInv, IoOK
<1>3. io[t].file \in Files
  BY <1>2 DEF CallOK
<1>4. StreamOK(stream[io[t].file])
  BY <1>2, <1>3 DEF FilesOK, StreamsOK
<1> QED
  BY <1>1, <1>2, <1>3, <1>4

LEMMA GoesOn ==
    ASSUME NEW c, CallOK(c), c.at # "done", NEW place \in {"seek", "test", "read"},
           place = "seek" => c.offset >= 0
    PROVE  LET r == [c EXCEPT !.at = place]
           IN  /\ CallOK(r) /\ r.at = place /\ r.file = c.file /\ r.offset = c.offset
               /\ r.n = c.n /\ r.mixed = c.mixed
<1> DEFINE r == [c EXCEPT !.at = place]
<1>1. DOMAIN c = CallFields
  BY DEF CallOK
<1>2. /\ DOMAIN r = CallFields /\ r.at = place /\ r.file = c.file /\ r.offset = c.offset
      /\ r.n = c.n /\ r.mixed = c.mixed
  BY <1>1 DEF CallFields
<1> HIDE DEF r
<1>3. CallOK(r)
  BY <1>2 DEF CallOK, Places
<1> QED
  BY <1>2, <1>3 DEF r

LEMMA ClearKeeps ==
    ASSUME FilesOK, NEW t \in Callers, Clear(t)
    PROVE  FilesOK'
<1> DEFINE c == io[t]
           h == c.file
           s == stream[h]
           k == Cleared(s)
           r == [c EXCEPT !.at = "seek"]
<1>1. c.at = "clear"
  BY DEF Clear
<1>2. /\ ~Elsewhere(c) /\ CallOK(c) /\ h \in Files /\ s # Free /\ StreamOK(s)
  BY <1>1, TheCall DEF Places
<1>3. /\ CallOK(r) /\ r.at = "seek" /\ r.file = h /\ r.offset = c.offset /\ r.mixed = c.mixed
  <2>1. c.offset >= 0
    BY <1>1, <1>2 DEF CallOK
  <2> QED
    BY <1>1, <1>2, <2>1, GoesOn
<1>4. io' = [io EXCEPT ![t] = r] /\ disk' = disk
  BY DEF Clear, Go
<1>5. stream' = [stream EXCEPT ![h] = k]
  BY DEF Clear
<1>6. /\ StreamOK(k) /\ SameFile(s, k) /\ Clean(k) /\ k.position = s.position
      /\ k.mark = s.mark /\ k.dirty = s.dirty
  BY <1>2, ClearedStream
<1>7. OnlyStream(h, k)
  BY <1>2, <1>5, StreamChanges DEF FilesOK
<1>8. Alone(r, k)
  BY <1>3, <1>6 DEF Alone
<1>9. k # Free
  BY <1>6 DEF StreamOK, Free
<1> HIDE DEF r, k, s
<1>10. IoInv' /\ \A g \in Files \ {h} : InRead(g) => InRead(g)'
  <2>1. \A g \in Files \ {h} : stream'[g] = stream[g]
    BY <1>7 DEF OnlyStream
  <2>2. stream'[h] = k
    BY <1>7 DEF OnlyStream
  <2> QED
    BY <1>2, <1>3, <1>4, <1>8, <1>9, <2>1, <2>2, CallMoves DEF FilesOK
<1>11. StreamsOK'
  <2>1. ~k.dirty => disk'[s.path] = k.bytes
    BY <1>2, <1>4, <1>6 DEF FilesOK, StreamsOK, SameFile, s
  <2> QED
    BY <1>2, <1>4, <1>6, <1>7, <2>1, StreamKeeps DEF FilesOK, SameFile, s
<1> PICK f \in Files : f = h
  BY <1>2
<1>12. k.mark >= 0 => Clean(k) /\ (k.position = k.mark \/ InRead(f)')
  <2> SUFFICES ASSUME k.mark >= 0 PROVE k.position = k.mark \/ InRead(f)'
    BY <1>6
  <2>1. s.position = s.mark \/ InRead(f)
    BY <1>2, <1>6 DEF FilesOK, MarksOK, s
  <2>2. ASSUME InRead(f) PROVE InRead(f)'
    <3>1. PICK u \in Callers : io[u].at \in {"test", "read"} /\ io[u].file = f
      BY <2>2 DEF InRead
    <3>2. io'[u] = io[u]
      BY <1>1, <1>4, <3>1 DEF FilesOK, IoInv
    <3> QED
      BY <3>1, <3>2 DEF InRead
  <2> QED
    BY <1>6, <2>1, <2>2
<1>13. MarksOK'
  BY <1>7, <1>10, <1>12, MarksKeep DEF FilesOK, OnlyStream
<1> QED
  BY <1>10, <1>11, <1>13 DEF FilesOK

LEMMA SeekKeeps ==
    ASSUME FilesOK, NEW t \in Callers, Seek(t)
    PROVE  FilesOK'
<1> DEFINE c == io[t]
           h == c.file
           s == stream[h]
           k == SeekTo(s, c.offset)
           r == [c EXCEPT !.at = "test"]
<1>1. c.at = "seek"
  BY DEF Seek
<1>2. /\ ~Elsewhere(c) /\ CallOK(c) /\ h \in Files /\ s # Free /\ StreamOK(s)
      /\ ~c.mixed => Clean(s)
  BY <1>1, TheCall DEF Places, Alone
<1>3. /\ CallOK(r) /\ r.at = "test" /\ r.file = h /\ r.offset = c.offset /\ r.mixed = c.mixed
  BY <1>1, <1>2, GoesOn
<1>4. c.offset >= 0 /\ c.offset \in Int
  BY <1>1, <1>2 DEF CallOK
<1>5. /\ io' = [io EXCEPT ![t] = r]
      /\ stream' = [stream EXCEPT ![h] = k]
      /\ IF ~Clean(s) THEN disk' = disk ELSE ToDisk(s)
  BY DEF Seek, Go, Clean
<1>6. /\ StreamOK(k) /\ SameFile(s, k) /\ k.mark = s.mark
      /\ Clean(s) => Clean(k) /\ k.position = c.offset /\ ~k.dirty
      /\ ~Clean(s) => k.dirty = s.dirty
  <2>1. /\ StreamOK(k) /\ SameFile(s, k) /\ k.mark = s.mark
        /\ Clean(s) /\ c.offset >= 0 => Clean(k) /\ k.position = c.offset
        /\ Clean(s) => ~k.dirty
        /\ ~Clean(s) => k.dirty = s.dirty
    BY <1>2, <1>4, SoughtStream
  <2> QED
    BY <1>4, <2>1
<1>7. OnlyStream(h, k)
  BY <1>2, <1>5, StreamChanges DEF FilesOK
<1> HIDE DEF r, k
<1>8. ~r.mixed => Alone(r, k)
  BY <1>2, <1>3, <1>6 DEF Alone, Positioned
<1>9. k # Free
  BY <1>6 DEF StreamOK, Free
<1>10. IoInv' /\ \A g \in Files \ {h} : InRead(g) => InRead(g)'
  <2>1. \A g \in Files \ {h} : stream'[g] = stream[g]
    BY <1>7 DEF OnlyStream
  <2>2. stream'[h] = k
    BY <1>7 DEF OnlyStream
  <2> HIDE DEF s
  <2> QED
    BY <1>2, <1>3, <1>5, <1>8, <1>9, <2>1, <2>2, CallMoves, ZenonT(20) DEF FilesOK
<1>11. StreamsOK'
  <2>1. ~k.dirty => disk'[s.path] = k.bytes
    <3>1. CASE Clean(s)
      BY <1>2, <1>5, <1>6, <3>1, DiskHolds DEF FilesOK, SameFile
    <3>2. CASE ~Clean(s)
      BY <1>2, <1>5, <1>6, <3>2 DEF FilesOK, StreamsOK, SameFile
    <3> QED
      BY <3>1, <3>2
  <2>2. disk' = disk \/ ToDisk(s)
    BY <1>5
  <2> QED
    BY <1>2, <1>6, <1>7, <2>1, <2>2, StreamKeeps DEF FilesOK, SameFile
<1> PICK f \in Files : f = h
  BY <1>2
<1>12. k.mark >= 0 => Clean(k) /\ (k.position = k.mark \/ InRead(f)')
  <2> SUFFICES ASSUME k.mark >= 0 PROVE Clean(k) /\ InRead(f)'
    OBVIOUS
  <2>1. Clean(s)
    BY <1>2, <1>6 DEF FilesOK, MarksOK
  <2>2. io'[t] = r
    BY <1>5 DEF FilesOK, IoInv
  <2>3. InRead(f)'
    BY <1>3, <2>2 DEF InRead
  <2> QED
    BY <1>6, <2>1, <2>3
<1>13. MarksOK'
  BY <1>7, <1>10, <1>12, MarksKeep DEF FilesOK, OnlyStream
<1> QED
  BY <1>10, <1>11, <1>13 DEF FilesOK

LEMMA TestBadKeeps ==
    ASSUME FilesOK, NEW t \in Callers, TestBad(t)
    PROVE  FilesOK'
<1> DEFINE c == io[t]
           h == c.file
           s == stream[h]
           r == IF s.bad THEN Free ELSE [c EXCEPT !.at = "read"]
<1>1. c.at = "test" /\ UNCHANGED <<stream, disk>>
  BY DEF TestBad
<1>2. /\ ~Elsewhere(c) /\ CallOK(c) /\ h \in Files /\ s # Free
      /\ ~c.mixed => Positioned(c, s)
  BY <1>1, TheCall DEF Places, Alone
<1>3. io' = [io EXCEPT ![t] = r]
  BY DEF TestBad, Go
<1>4. IF s.bad THEN r = Free
      ELSE /\ CallOK(r) /\ r.at = "read" /\ r.file = h /\ r.offset = c.offset
           /\ r.mixed = c.mixed
  BY <1>1, <1>2, GoesOn
<1> HIDE DEF r
<1>5. ~s.bad /\ ~r.mixed => Alone(r, s)
  BY <1>2, <1>4 DEF Alone, Positioned
<1>6. \/ Elsewhere(r)
      \/ CallOK(r) /\ r.file = h /\ r.mixed = c.mixed /\ (~r.mixed => Alone(r, s))
  <2>1. CASE s.bad
    BY <1>4, <2>1, FreeIsElsewhere
  <2>2. CASE ~s.bad
    BY <1>4, <1>5, <2>2
  <2> QED
    BY <2>1, <2>2
<1>7. IoInv' /\ \A g \in Files \ {h} : InRead(g) => InRead(g)'
  <2>1. \A g \in Files \ {h} : stream'[g] = stream[g]
    BY <1>1
  <2>2. stream'[h] = s
    BY <1>1
  <2> HIDE DEF s
  <2> QED
    BY <1>2, <1>3, <1>6, <2>1, <2>2, CallMoves DEF FilesOK
<1>8. StreamsOK'
  BY <1>1 DEF FilesOK, StreamsOK
<1> PICK f \in Files : f = h
  BY <1>2
<1>9. s.mark >= 0 => Clean(s) /\ (s.position = s.mark \/ InRead(f)')
  <2> SUFFICES ASSUME s.mark >= 0 PROVE Clean(s) /\ InRead(f)'
    OBVIOUS
  <2>1. Clean(s)
    BY <1>2 DEF FilesOK, MarksOK
  <2>2. ~s.bad
    BY <2>1 DEF Clean
  <2>3. io'[t] = r
    BY <1>3 DEF FilesOK, IoInv
  <2>4. InRead(f)'
    BY <1>4, <2>2, <2>3 DEF InRead
  <2> QED
    BY <2>1, <2>4
<1>10. MarksOK'
  BY <1>1, <1>7, <1>9, MarksKeep DEF FilesOK
<1> QED
  BY <1>7, <1>8, <1>10 DEF FilesOK

-----------------------------------------------------------------------------
LEMMA ReadStream ==
    ASSUME NEW s, StreamOK(s), NEW n \in Nat, NEW mark \in Int
    PROVE  LET k == [AfterRead(s, n) EXCEPT !.mark = mark]
           IN  /\ StreamOK(k) /\ SameFile(s, k) /\ k.dirty = s.dirty /\ k.mark = mark
               /\ k.position = s.position + Available(s, n)
               /\ Clean(s) /\ Available(s, n) = n => Clean(k)
<1> DEFINE count == Available(s, n)
           position == s.position + count
           fail == s.fail \/ s.bad \/ count < n
           k == [AfterRead(s, n) EXCEPT !.mark = mark]
<1>1. DOMAIN s = StreamFields /\ s.position \in Nat
  BY DEF StreamOK
<1>2. count \in Nat
  BY AvailableBytes
<1>3. position \in Nat
  BY <1>1, <1>2
<1>4. k = [[s EXCEPT !.position = position, !.fail = fail] EXCEPT !.mark = mark]
  BY DEF AfterRead
<1>5. Clean(s) /\ count = n => ~fail
  BY DEF Clean
<1> HIDE DEF position, fail
<1>6. /\ DOMAIN k = StreamFields /\ k.asked = s.asked /\ k.at = s.at /\ k.path = s.path /\ k.mode = s.mode
      /\ k.bytes = s.bytes /\ k.dirty = s.dirty /\ k.position = position /\ k.mark = mark
      /\ k.bad = s.bad /\ k.fail = fail
  BY <1>1, <1>4 DEF StreamFields
<1> HIDE DEF k
<1>7. StreamOK(k) /\ SameFile(s, k)
  BY <1>3, <1>6 DEF StreamOK, SameFile
<1>8. Clean(s) /\ count = n => Clean(k)
  BY <1>5, <1>6 DEF Clean
<1> QED
  BY <1>6, <1>7, <1>8 DEF k, position

(* A read takes what there is from where the stream is.                    *)
LEMMA ReadKeeps ==
    ASSUME FilesOK, NEW t \in Callers, Read(t)
    PROVE  FilesOK'
<1> DEFINE c == io[t]
           h == c.file
           s == stream[h]
           n == c.n
           count == Available(s, n)
           mark == IF c.mixed \/ count < n \/ c.offset < 0 THEN -1 ELSE c.offset + count
           k == [AfterRead(s, n) EXCEPT !.mark = mark]
           ok == ~s.bad
           data == SubSeq(s.bytes, s.position + 1, s.position + count)
           r == [at |-> "done", file |-> h, offset |-> c.offset, n |-> n, mixed |-> c.mixed,
                 ok |-> ok, data |-> data]
<1>1. c.at = "read"
  BY DEF Read
<1>2. /\ ~Elsewhere(c) /\ CallOK(c) /\ h \in Files /\ s # Free /\ StreamOK(s)
      /\ ~c.mixed => Positioned(c, s)
  BY <1>1, TheCall DEF Places, Alone
<1>3. c.offset \in Int /\ n \in Nat
  BY <1>2 DEF CallOK
<1>4. count \in Nat /\ count <= n
  BY <1>2, <1>3, AvailableBytes
<1>5. mark \in Int /\ (mark >= 0 => ~c.mixed /\ count = n /\ c.offset >= 0 /\ mark = c.offset + count)
  <2> HIDE DEF count, c, n
  <2>1. CASE c.mixed \/ count < n \/ c.offset < 0
    BY <2>1
  <2>2. CASE ~(c.mixed \/ count < n \/ c.offset < 0)
    <3>1. mark = c.offset + count /\ ~c.mixed
      BY <2>2
    <3>2. ~(count < n) /\ ~(c.offset < 0)
      BY <2>2
    <3>3. count = n /\ c.offset >= 0 /\ c.offset + count \in Int
      BY <1>3, <1>4, <3>2
    <3> QED
      BY <3>1, <3>3, Zenon
  <2> QED
    BY <2>1, <2>2
<1>6. stream' = [stream EXCEPT ![h] = k] /\ disk' = disk
  BY DEF Read
<1>7. io' = [io EXCEPT ![t] = r]
  BY DEF Read
<1>8. /\ DOMAIN r = ResultFields /\ r.at = "done" /\ r.file = h /\ r.offset = c.offset /\ r.n = n
      /\ r.mixed = c.mixed /\ r.ok = ok /\ r.data = data
  BY DEF ResultFields, CallFields
<1> HIDE DEF mark, r
<1>9. /\ StreamOK(k) /\ SameFile(s, k) /\ k.dirty = s.dirty /\ k.mark = mark
      /\ k.position = s.position + count
      /\ Clean(s) /\ count = n => Clean(k)
  BY <1>2, <1>3, <1>5, ReadStream
<1> HIDE DEF k
<1>10. CallOK(r)
  BY <1>2, <1>3, <1>8 DEF CallOK, Places
<1>11. ~c.mixed => TheBytes(r, k)
  <2> SUFFICES ASSUME Positioned(c, s), r.ok, r.offset >= 0, k.mode # "write"
               PROVE  r.data = SubSeq(k.bytes, r.offset + 1,
                                IF r.offset + r.n < Len(k.bytes) THEN r.offset + r.n ELSE Len(k.bytes))
    BY <1>2, Zenon DEF TheBytes
  <2>1. Clean(s) /\ s.position = c.offset /\ s.mode # "write" /\ k.bytes = s.bytes
    BY <1>8, <1>9 DEF Positioned, SameFile
  <2>2. data = SubSeq(s.bytes, s.position + 1,
                      IF s.position + n < Len(s.bytes) THEN s.position + n ELSE Len(s.bytes))
    BY <1>2, <1>3, <2>1, AvailableBytes
  <2> HIDE DEF data, s, n, c
  <2> QED
    BY <1>8, <2>1, <2>2, Zenon
<1>12. ~r.mixed => Alone(r, k)
  BY <1>8, <1>11 DEF Alone
<1>13. OnlyStream(h, k)
  BY <1>2, <1>6, StreamChanges DEF FilesOK
<1>14. k # Free
  BY <1>9 DEF StreamOK, Free
<1>15. IoInv' /\ \A g \in Files \ {h} : InRead(g) => InRead(g)'
  <2>1. \A g \in Files \ {h} : stream'[g] = stream[g]
    BY <1>13 DEF OnlyStream
  <2>2. stream'[h] = k
    BY <1>13 DEF OnlyStream
  <2> HIDE DEF s
  <2> QED
    BY <1>2, <1>7, <1>8, <1>10, <1>12, <1>14, <2>1, <2>2, CallMoves DEF FilesOK
<1>16. StreamsOK'
  <2>1. ~k.dirty => disk'[s.path] = k.bytes
    BY <1>2, <1>6, <1>9 DEF FilesOK, StreamsOK, SameFile
  <2> QED
    BY <1>2, <1>6, <1>9, <1>13, <2>1, StreamKeeps DEF FilesOK, SameFile
<1>17. k.mark >= 0 => Clean(k) /\ k.position = k.mark
  <2> SUFFICES ASSUME k.mark >= 0 PROVE Clean(k) /\ k.position = k.mark
    OBVIOUS
  <2>1. ~c.mixed /\ count = n /\ c.offset >= 0 /\ mark = c.offset + count
    BY <1>5, <1>9
  <2>2. Clean(s) /\ s.position = c.offset
    BY <1>2, <2>1 DEF Positioned
  <2> HIDE DEF count, s
  <2> QED
    BY <1>9, <2>1, <2>2
<1> PICK f \in Files : f = h
  BY <1>2
<1>18. MarksOK'
  BY <1>13, <1>15, <1>17, MarksKeep DEF FilesOK, OnlyStream
<1> QED
  BY <1>15, <1>16, <1>18 DEF FilesOK

LEMMA ReturnKeeps ==
    ASSUME FilesOK, NEW t \in Callers, Return(t)
    PROVE  FilesOK'
<1> DEFINE h == io[t].file
           r == Free
<1>1. /\ io[t].at \in {"done", "found nothing"} /\ UNCHANGED <<stream, disk>>
      /\ io' = [io EXCEPT ![t] = r]
  BY DEF Return
<1>2. Elsewhere(r)
  BY FreeIsElsewhere
<1> HIDE DEF r
<1>3. IoInv'
  <2>1. CASE io[t].at = "done"
    <3>1. /\ ~Elsewhere(io[t]) /\ h \in Files /\ stream[h] # Free
      BY <2>1, TheCall DEF Places
    <3>2. (\A g \in Files \ {h} : stream'[g] = stream[g]) /\ stream'[h] # Free
      BY <1>1, <3>1
    <3> QED
      BY <1>1, <1>2, <3>1, <3>2, CallMoves DEF FilesOK
  <2>2. CASE io[t].at = "found nothing"
    <3>1. Elsewhere(io[t])
      BY <2>2 DEF FilesOK, IoInv, IoOK, CallOK, Places
    <3>2. /\ io' = [u \in Callers |-> io'[u]] /\ io'[t] = r
          /\ \A u \in Callers \ {t} : io'[u] = io[u]
      BY <1>1 DEF FilesOK, IoInv
    <3>3. \A u \in Callers : io'[u] = io[u] \/ (Elsewhere(io[u]) /\ Elsewhere(io'[u]))
      BY <1>2, <3>1, <3>2
    <3> QED
      BY <1>1, <3>2, <3>3, NoCallMoves DEF FilesOK
  <2> QED
    BY <1>1, <2>1, <2>2
<1>4. StreamsOK'
  BY <1>1 DEF FilesOK, StreamsOK
<1>5. ASSUME NEW g \in Files, InRead(g) PROVE InRead(g)'
  <2>1. PICK u \in Callers : io[u].at \in {"test", "read"} /\ io[u].file = g
    BY <1>5 DEF InRead
  <2>2. io'[u] = io[u]
    BY <1>1, <2>1 DEF FilesOK, IoInv
  <2>3. io'[u].at \in {"test", "read"} /\ io'[u].file = g
    BY <2>1, <2>2
  <2> QED
    BY <2>3 DEF InRead
<1>6. MarksOK'
  BY <1>1, <1>5 DEF FilesOK, MarksOK
<1> QED
  BY <1>3, <1>4, <1>6 DEF FilesOK

(* A read begins, at an offset or where the stream is.                     *)
LEMMA ReadFileExKeeps ==
    ASSUME FilesOK, NEW t \in Callers, NEW h \in Files, NEW offset \in Offsets, NEW n \in Amounts,
           XReadFileEx(t, h, offset, n)
    PROVE  FilesOK'
<1>1. n \in Nat /\ offset \in Int /\ offset >= 0
  BY FileAssumption DEF Offsets
<1>2. BeginIo(t, h, "clear", offset, n) /\ UNCHANGED <<stream, disk>>
  BY DEF XReadFileEx, BeginIo
<1>3. IoInv' /\ \A g \in Files : InRead(g) => InRead(g)'
  BY <1>1, <1>2, CallBegins DEF FilesOK
<1>4. StreamsOK' /\ MarksOK'
  BY <1>2, <1>3 DEF FilesOK, StreamsOK, MarksOK
<1> QED
  BY <1>3, <1>4 DEF FilesOK

LEMMA ReadFileKeeps ==
    ASSUME FilesOK, NEW t \in Callers, NEW h \in Files, NEW n \in Amounts, XReadFile(t, h, n)
    PROVE  FilesOK'
<1> DEFINE offset == stream[h].mark
<1>1. n \in Nat
  BY FileAssumption
<1>2. BeginIo(t, h, "read", offset, n) /\ UNCHANGED <<stream, disk>> /\ stream[h] # Free
  BY DEF XReadFile, BeginIo
<1>3. offset \in Int
  BY <1>2 DEF FilesOK, StreamsOK, StreamOK
<1>4. Busy(h) = {} /\ offset >= 0 => Clean(stream[h]) /\ stream[h].position = offset
  <2> SUFFICES ASSUME Busy(h) = {}, offset >= 0
               PROVE  Clean(stream[h]) /\ stream[h].position = offset
    OBVIOUS
  <2>1. Clean(stream[h]) /\ (stream[h].position = offset \/ InRead(h))
    BY <1>2 DEF FilesOK, MarksOK
  <2>2. ~InRead(h)
    BY BusyCallers DEF InRead, Using, Places
  <2> QED
    BY <2>1, <2>2
<1>5. PICK o \in Int : o = offset
  BY <1>3
<1> HIDE DEF offset
<1>6. IoInv' /\ \A g \in Files : InRead(g) => InRead(g)'
  BY <1>1, <1>2, <1>4, <1>5, CallBegins DEF FilesOK
<1>7. StreamsOK' /\ MarksOK'
  BY <1>2, <1>6 DEF FilesOK, StreamsOK, MarksOK
<1> QED
  BY <1>6, <1>7 DEF FilesOK

-----------------------------------------------------------------------------
(* The calls that are one step each.                                       *)
LEMMA WholeKeeps ==
    ASSUME FilesOK, NEW t \in Callers, NEW h \in Files, Whole(t, h), NEW k,
           stream' = [stream EXCEPT ![h] = k], disk' = disk \/ ToDisk(stream[h]),
           StreamOK(k), k.path = stream[h].path,
           ~k.dirty => disk'[stream[h].path] = k.bytes,
           \/ k.mark >= 0 => Clean(k) /\ k.position = k.mark
           \/ ~Clean(stream[h]) /\ k.mark = stream[h].mark
    PROVE  FilesOK'
<1>1. stream[h] # Free
  BY DEF Whole
<1>2. OnlyStream(h, k)
  BY StreamChanges DEF FilesOK
<1>3. k # Free
  BY DEF StreamOK, Free
<1>4. StreamsOK'
  BY <1>1, <1>2, StreamKeeps DEF FilesOK
<1>5. IoInv' /\ \A g \in Files : InRead(g) => InRead(g)'
  BY <1>2, <1>3, WholeCall DEF FilesOK, OnlyStream
<1>6. k.mark >= 0 => Clean(k) /\ k.position = k.mark
  BY <1>1 DEF FilesOK, MarksOK
<1>7. MarksOK'
  BY <1>2, <1>5, <1>6, MarksKeep DEF FilesOK, OnlyStream
<1> QED
  BY <1>4, <1>5, <1>7 DEF FilesOK

LEMMA SetFilePointerKeeps ==
    ASSUME FilesOK, NEW t \in Callers, NEW h \in Files,
           NEW origin \in {"FILE_BEGIN", "FILE_CURRENT", "FILE_END"}, NEW distance \in {-1, 0, 1},
           SetFilePointer(t, h, origin, distance)
    PROVE  FilesOK'
<1> DEFINE s == stream[h]
           from == CASE origin = "FILE_BEGIN" -> 0
                     [] origin = "FILE_CURRENT" -> s.position
                     [] origin = "FILE_END" -> Len(s.bytes)
           offset == from + distance
           c == Cleared(s)
           b == SeekTo(c, offset)
           k == [b EXCEPT !.mark = offset]
<1>1. s # Free /\ Whole(t, h)
  BY DEF SetFilePointer, Whole
<1>2. StreamOK(s)
  BY <1>1 DEF FilesOK, StreamsOK
<1>3. offset \in Int
  <2>1. s.position \in Nat /\ Len(s.bytes) \in Nat
    BY <1>2, LenProperties DEF StreamOK
  <2>2. from \in Nat
    BY <2>1
  <2> HIDE DEF from
  <2> QED
    BY <2>2
<1>4. stream' = [stream EXCEPT ![h] = k] /\ ToDisk(s)
  BY DEF SetFilePointer
<1>5. /\ StreamOK(c) /\ SameFile(s, c) /\ Clean(c)
  BY <1>2, ClearedStream
<1> HIDE DEF c, offset
<1>6. /\ StreamOK(b) /\ SameFile(c, b) /\ ~b.dirty
      /\ offset >= 0 => Clean(b) /\ b.position = offset
  BY <1>3, <1>5, SoughtStream
<1> HIDE DEF b
<1>7. DOMAIN b = StreamFields
  BY <1>6 DEF StreamOK
<1>8. /\ DOMAIN k = StreamFields /\ k.asked = b.asked /\ k.at = b.at /\ k.path = b.path /\ k.mode = b.mode
      /\ k.bytes = b.bytes /\ k.dirty = b.dirty /\ k.position = b.position /\ k.mark = offset
      /\ k.bad = b.bad /\ k.fail = b.fail
  BY <1>7 DEF StreamFields
<1> HIDE DEF k, s
<1>9. StreamOK(k) /\ k.path = s.path /\ k.bytes = s.bytes
  BY <1>3, <1>5, <1>6, <1>8 DEF StreamOK, SameFile
<1>10. k.mark >= 0 => Clean(k) /\ k.position = k.mark
  BY <1>6, <1>8 DEF Clean
<1>11. disk'[s.path] = k.bytes
  BY <1>1, <1>4, <1>9, DiskHolds DEF FilesOK, s
<1> QED
  BY <1>1, <1>4, <1>9, <1>10, <1>11, WholeKeeps DEF s

LEMMA WriteFileKeeps ==
    ASSUME FilesOK, NEW t \in Callers, NEW h \in Files, NEW n \in Amounts, XWriteFile(t, h, n)
    PROVE  FilesOK'
<1> DEFINE s == stream[h]
<1>1. s # Free /\ Whole(t, h) /\ disk' = disk
  BY DEF XWriteFile, Whole
<1>2. StreamOK(s) /\ (~s.dirty => disk[s.path] = s.bytes)
  BY <1>1 DEF FilesOK, StreamsOK
<1>3. DOMAIN s = StreamFields
  BY <1>2 DEF StreamOK
<1>4. n \in Nat
  BY FileAssumption
<1>5. ASSUME NEW bad \in BOOLEAN, ~Clean(s), stream' = [stream EXCEPT ![h].bad = @ \/ bad]
      PROVE  FilesOK'
  <2> DEFINE worse == s.bad \/ bad
             k == [s EXCEPT !.bad = worse]
  <2>1. stream' = [stream EXCEPT ![h] = k]
    BY <1>5
  <2> HIDE DEF worse
  <2>2. /\ DOMAIN k = StreamFields /\ k.asked = s.asked /\ k.at = s.at /\ k.path = s.path /\ k.mode = s.mode
        /\ k.bytes = s.bytes /\ k.dirty = s.dirty /\ k.position = s.position /\ k.mark = s.mark
    BY <1>3 DEF StreamFields
  <2> HIDE DEF k, s
  <2>3. StreamOK(k) /\ (~k.dirty => disk'[s.path] = k.bytes)
    BY <1>1, <1>2, <2>2 DEF StreamOK
  <2> QED
    BY <1>1, <1>5, <2>1, <2>2, <2>3, WholeKeeps DEF s
<1>6. ASSUME stream' = [stream EXCEPT ![h].bad = TRUE, ![h].mark = -1]
      PROVE  FilesOK'
  <2> DEFINE none == -1
             k == [s EXCEPT !.bad = TRUE, !.mark = none]
  <2>1. stream' = [stream EXCEPT ![h] = k]
    BY <1>6
  <2>2. none \in Int /\ ~(none >= 0)
    OBVIOUS
  <2> HIDE DEF none
  <2>3. /\ DOMAIN k = StreamFields /\ k.asked = s.asked /\ k.at = s.at /\ k.path = s.path /\ k.mode = s.mode
        /\ k.bytes = s.bytes /\ k.dirty = s.dirty /\ k.position = s.position /\ k.mark = none
    BY <1>3 DEF StreamFields
  <2> HIDE DEF k, s
  <2>4. StreamOK(k) /\ (~k.dirty => disk'[s.path] = k.bytes) /\ ~(k.mark >= 0)
    BY <1>1, <1>2, <2>2, <2>3 DEF StreamOK
  <2> QED
    BY <1>1, <2>1, <2>3, <2>4, WholeKeeps DEF s
<1>7. ASSUME stream' = [stream EXCEPT ![h].bytes = Written(s.bytes, s.position, n),
                                      ![h].position = @ + n,
                                      ![h].dirty = TRUE,
                                      ![h].mark = -1]
      PROVE  FilesOK'
  <2> DEFINE none == -1
             bytes == Written(s.bytes, s.position, n)
             position == s.position + n
             k == [s EXCEPT !.bytes = bytes, !.position = position, !.dirty = TRUE, !.mark = none]
  <2>1. stream' = [stream EXCEPT ![h] = k]
    BY <1>7
  <2>2. none \in Int /\ ~(none >= 0)
    OBVIOUS
  <2>3. s.bytes \in Seq(Nat) /\ s.position \in Nat
    BY <1>2 DEF StreamOK
  <2>4. bytes \in Seq(Nat) /\ position \in Nat
    <3>1. bytes \in Seq(Nat)
      BY <1>4, <2>3, WrittenBytes, Zenon
    <3>2. position \in Nat
      BY <1>4, <2>3
    <3> QED
      BY <3>1, <3>2
  <2> HIDE DEF none, bytes, position
  <2>5. /\ DOMAIN k = StreamFields /\ k.asked = s.asked /\ k.at = s.at /\ k.path = s.path /\ k.mode = s.mode
        /\ k.bytes = bytes /\ k.dirty = TRUE /\ k.position = position /\ k.mark = none
    BY <1>3 DEF StreamFields
  <2> HIDE DEF k, s
  <2>6. StreamOK(k) /\ k.dirty /\ ~(k.mark >= 0)
    BY <1>2, <2>2, <2>4, <2>5 DEF StreamOK
  <2> QED
    BY <1>1, <2>1, <2>5, <2>6, WholeKeeps DEF s
<1> QED
  BY <1>5, <1>6, <1>7 DEF XWriteFile, Clean

LEMMA FlushKeeps ==
    ASSUME FilesOK, NEW h \in Files, Flush(h)
    PROVE  FilesOK'
<1> DEFINE s == stream[h]
           k == [s EXCEPT !.dirty = FALSE]
<1>1. s # Free /\ ToDisk(s) /\ stream' = [stream EXCEPT ![h] = k] /\ io' = io
  BY DEF Flush
<1>2. StreamOK(s) /\ DOMAIN s = StreamFields
  BY <1>1 DEF FilesOK, StreamsOK, StreamOK
<1>3. OnlyStream(h, k)
  BY <1>1, StreamChanges DEF FilesOK
<1>4. /\ DOMAIN k = StreamFields /\ k.asked = s.asked /\ k.at = s.at /\ k.path = s.path /\ k.mode = s.mode
      /\ k.bytes = s.bytes /\ k.position = s.position /\ k.mark = s.mark
      /\ k.fail = s.fail /\ k.bad = s.bad
  BY <1>2 DEF StreamFields
<1> HIDE DEF k, s
<1>5. StreamOK(k) /\ disk'[s.path] = k.bytes
  <2>1. disk'[s.path] = s.bytes
    BY <1>1, DiskHolds DEF FilesOK, s
  <2>2. StreamOK(k)
    BY <1>2, <1>4 DEF StreamOK
  <2> QED
    BY <1>4, <2>1, <2>2
<1>6. StreamsOK'
  BY <1>1, <1>3, <1>4, <1>5, StreamKeeps DEF FilesOK, s
<1>7. SameFor(s, k)
  BY <1>4, <1>5 DEF SameFor, StreamOK, Free
<1>8. IoInv' /\ \A g \in Files : InRead(g) => InRead(g)'
  <2>1. \A t \in Callers : \A g \in Files :
           stream'[g] = stream[g] \/ SameFor(stream[g], stream'[g])
    BY <1>3, <1>7 DEF OnlyStream, s
  <2>2. io' = [t \in Callers |-> io'[t]] /\ \A t \in Callers : io'[t] = io[t]
    BY <1>1 DEF FilesOK, IoInv
  <2> QED
    BY <2>1, <2>2, NoCallMoves DEF FilesOK
<1>9. k.mark >= 0 => Clean(k) /\ (k.position = k.mark \/ InRead(h)')
  <2> SUFFICES ASSUME k.mark >= 0 PROVE Clean(k) /\ (k.position = k.mark \/ InRead(h)')
    OBVIOUS
  <2>1. Clean(s) /\ (s.position = s.mark \/ InRead(h))
    BY <1>1, <1>4 DEF FilesOK, MarksOK, s
  <2> QED
    BY <1>4, <1>8, <2>1 DEF Clean
<1>10. MarksOK'
  BY <1>3, <1>8, <1>9, MarksKeep DEF FilesOK, OnlyStream
<1> QED
  BY <1>6, <1>8, <1>10 DEF FilesOK

LEMMA CloseFileKeeps ==
    ASSUME FilesOK, NEW t \in Callers, NEW h \in Files, CloseFile(t, h)
    PROVE  FilesOK'
<1> DEFINE k == Free
<1>1. /\ stream[h] # Free /\ Busy(h) = {} /\ ToDisk(stream[h]) /\ io' = io
      /\ stream' = [stream EXCEPT ![h] = k] /\ k = Free
  BY DEF CloseFile
<1> HIDE DEF k
<1>2. OnlyStream(h, k)
  BY <1>1, StreamChanges DEF FilesOK
<1>3. StreamsOK'
  BY <1>1, <1>2, StreamKeeps DEF FilesOK
<1>4. IoInv' /\ \A g \in Files : InRead(g) => InRead(g)'
  <2>1. \A u \in Callers : ~Using(io[u], h)
    BY <1>1, BusyCallers
  <2>2. \A u \in Callers : \A g \in Files : Using(io[u], g) => stream'[g] = stream[g]
    BY <1>2, <2>1 DEF OnlyStream
  <2>3. io' = [u \in Callers |-> io'[u]] /\ \A u \in Callers : io'[u] = io[u]
    BY <1>1 DEF FilesOK, IoInv
  <2> QED
    BY <2>2, <2>3, NoCallMoves DEF FilesOK
<1>5. MarksOK'
  BY <1>1, <1>2, <1>4, MarksKeep DEF FilesOK, OnlyStream
<1> QED
  BY <1>3, <1>4, <1>5 DEF FilesOK

-----------------------------------------------------------------------------
(* A file is opened: no other stream has its path.                         *)
LEMMA StreamOpens ==
    ASSUME StreamsOK, NEW h \in Files, stream[h] = Free, NEW k, stream' = [stream EXCEPT ![h] = k],
           StreamOK(k), \A g \in Files : stream[g] # Free => stream[g].path # k.path,
           NEW path \in Paths, k.path = path,
           disk' = disk \/ disk' = [disk EXCEPT ![path] = k.bytes],
           disk'[path] = k.bytes
    PROVE  StreamsOK'
<1>1. OnlyStream(h, k)
  BY StreamChanges
<1>2. disk' \in [Paths -> Seq(Nat)] /\ \A other \in Paths \ {path} : disk'[other] = disk[other]
  <2> DEFINE bytes == k.bytes
  <2>1. bytes \in Seq(Nat) /\ (disk' = disk \/ disk' = [disk EXCEPT ![path] = bytes])
    BY DEF StreamOK
  <2> HIDE DEF bytes
  <2> QED
    BY <2>1 DEF StreamsOK
<1>3. ASSUME NEW g \in Files \ {h}, stream'[g] # Free
      PROVE  /\ stream[g] # Free /\ stream'[g] = stream[g] /\ StreamOK(stream[g])
             /\ ~stream[g].dirty => disk'[stream[g].path] = stream[g].bytes
             /\ stream[g].path # path
  <2>1. stream'[g] = stream[g]
    BY <1>1 DEF OnlyStream
  <2>2. /\ StreamOK(stream[g])
        /\ ~stream[g].dirty => disk[stream[g].path] = stream[g].bytes
        /\ stream[g].path # path
    BY <1>3, <2>1 DEF StreamsOK
  <2>3. stream[g].path \in Paths \ {path}
    BY <2>2 DEF StreamOK
  <2> QED
    BY <1>2, <1>3, <2>1, <2>2, <2>3
<1>4. stream'[h] = k
  BY <1>1 DEF OnlyStream
<1>5. ASSUME NEW g \in Files, stream'[g] # Free
      PROVE  StreamOK(stream'[g]) /\ (~stream'[g].dirty => disk'[stream'[g].path] = stream'[g].bytes)
  <2>1. CASE g = h
    BY <1>4, <2>1
  <2>2. CASE g # h
    BY <1>3, <1>5, <2>2
  <2> QED
    BY <2>1, <2>2
<1>6. ASSUME NEW f \in Files, NEW g \in Files, f # g, stream'[f] # Free, stream'[g] # Free
      PROVE  stream'[f].path # stream'[g].path
  <2>1. CASE f = h
    BY <1>3, <1>4, <1>6, <2>1
  <2>2. CASE g = h
    BY <1>3, <1>4, <1>6, <2>2
  <2>3. CASE f # h /\ g # h
    BY <1>3, <1>6, <2>3 DEF StreamsOK
  <2> QED
    BY <2>1, <2>2, <2>3
<1>7. stream' = [g \in Files |-> stream'[g]]
  BY <1>1 DEF OnlyStream
<1> QED
  BY <1>2, <1>5, <1>6, <1>7 DEF StreamsOK

LEMMA OpenedStream ==
    ASSUME NEW path \in Paths, NEW mode \in Modes, NEW asked \in {path, Lost},
           NEW bytes \in Seq(Nat), NEW k,
           \/ k = NewStream(path, mode, asked) /\ bytes = disk[path]
           \/ k = [NewStream(path, mode, asked) EXCEPT !.bytes = bytes]
    PROVE  /\ StreamOK(k) /\ k.path = path /\ k.bytes = bytes /\ Clean(k)
           /\ k.position = 0 /\ k.mark = 0
<1> DEFINE n == NewStream(path, mode, asked)
           zero == 0
           old == disk[path]
<1>1. n = [at |-> "open", path |-> path, mode |-> mode, bytes |-> old, dirty |-> FALSE,
           position |-> zero, fail |-> FALSE, bad |-> FALSE, mark |-> zero,
           asked |-> asked]
  BY DEF NewStream
<1>2. zero \in Nat /\ zero \in Int /\ zero = 0
  OBVIOUS
<1> HIDE DEF n, zero
<1>3. /\ DOMAIN n = StreamFields /\ n.at = "open" /\ n.path = path /\ n.mode = mode
      /\ n.asked = asked /\ n.bytes = old /\ n.position = zero /\ n.mark = zero
      /\ n.fail = FALSE /\ n.bad = FALSE
  BY <1>1 DEF StreamFields
<1> HIDE DEF old
<1>4. \/ k = n /\ bytes = old
      \/ k = [n EXCEPT !.bytes = bytes]
  BY DEF n, old
<1>5. /\ DOMAIN k = StreamFields /\ k.at = "open" /\ k.path = path /\ k.mode = mode
      /\ k.asked = asked /\ k.bytes = bytes /\ k.position = zero /\ k.mark = zero
      /\ k.fail = FALSE /\ k.bad = FALSE
  BY <1>3, <1>4 DEF StreamFields
<1>6. StreamOK(k) /\ Clean(k)
  BY <1>2, <1>5 DEF StreamOK, Clean
<1> QED
  BY <1>2, <1>5, <1>6

(* A step that leaves the streams alone, and the calls on them.            *)
LEMMA ElsewhereKeeps ==
    ASSUME FilesOK, NEW t \in Callers, Elsewhere(io[t]), NEW r, Elsewhere(r),
           io' = [io EXCEPT ![t] = r], UNCHANGED <<disk, stream>>
    PROVE  FilesOK'
<1>1. /\ io' = [u \in Callers |-> io'[u]] /\ io'[t] = r
      /\ \A u \in Callers \ {t} : io'[u] = io[u]
  BY DEF FilesOK, IoInv
<1>2. \A u \in Callers : \/ io'[u] = io[u]
                         \/ Elsewhere(io[u]) /\ Elsewhere(io'[u])
  BY <1>1
<1>3. IoInv' /\ \A g \in Files : InRead(g) => InRead(g)'
  BY <1>1, <1>2, NoCallMoves DEF FilesOK
<1> QED
  BY <1>3 DEF FilesOK, StreamsOK, MarksOK

LEMMA SameFiles ==
    ASSUME FilesOK, UNCHANGED <<disk, stream, io>>
    PROVE  FilesOK'
<1>1. IoInv' /\ \A g \in Files : InRead(g) => InRead(g)'
  BY DEF FilesOK, IoInv, IoOK, InRead
<1> QED
  BY <1>1 DEF FilesOK, StreamsOK, MarksOK

-----------------------------------------------------------------------------
(* What a thread asks resolve_path for, and what it has of the answer.     *)
Resolving(c) == c.at \in {"create", "find"}

PathOK(t) ==
    /\ view[t] \in {NoView, EmptyView, Dangling} \cup AllRoots
    /\ use[t].at = "resolve" \/ view[t] # NoView \/ builtPath[t] # NoPath => Resolving(io[t])
    /\ use[t].at = "resolve" => view[t] = NoView
    /\ use[t].at = "resolve" \/ view[t] # NoView => builtPath[t] = NoPath
    /\ view[t] = EmptyView => io[t].asked = <<".", io[t].file>>
    /\ view[t] \in AllRoots =>
         rootMap[view[t]] # NoRoot /\ io[t].asked = <<rootMap[view[t]], io[t].file>>
    /\ builtPath[t] # NoPath =>
         /\ \E directory : builtPath[t] = <<directory, io[t].file>>
         /\ io[t].asked \in {builtPath[t], Lost}

PathInv ==
    /\ view = [t \in Callers |-> view[t]]
    /\ builtPath = [t \in Callers |-> builtPath[t]]
    /\ \A t \in Callers : PathOK(t)

-----------------------------------------------------------------------------
LEMMA ViewsDiffer ==
    /\ NoView # EmptyView /\ NoView # Dangling /\ EmptyView # Dangling
    /\ AllRoots \cap {NoView, EmptyView, Dangling} = {}
  BY ContentAssumption DEF NoView, EmptyView, Dangling, AllRoots, StartupRoots

(* A step that resolves no path: the packages' calls are other threads'.   *)
LEMMA PathsStay ==
    ASSUME PathInv, UNCHANGED <<rootMap, view, builtPath, use>>,
           \A t \in Callers : io'[t] = io[t] \/ ~Resolving(io[t])
    PROVE  PathInv'
<1>1. ASSUME NEW t \in Callers PROVE PathOK(t)'
  <2>1. PathOK(t) /\ view'[t] = view[t] /\ builtPath'[t] = builtPath[t] /\ use'[t] = use[t]
    BY DEF PathInv
  <2>2. CASE io'[t] = io[t]
    BY <2>1, <2>2 DEF PathOK
  <2>3. CASE ~Resolving(io[t])
    <3>1. ~(use[t].at = "resolve") /\ view[t] = NoView /\ builtPath[t] = NoPath
      BY <2>1, <2>3 DEF PathOK
    <3>2. view'[t] # EmptyView /\ view'[t] \notin AllRoots
      BY <2>1, <3>1, ViewsDiffer
    <3> QED
      BY <2>1, <3>1, <3>2 DEF PathOK
  <2> QED
    BY <2>1, <2>2, <2>3
<1> QED
  BY <1>1 DEF PathInv

(* One thread goes on; the others see what they saw.                       *)
LEMMA OnePath ==
    ASSUME PathInv, NEW t \in Callers, UNCHANGED rootMap,
           \A u \in Callers \ {t} : /\ io'[u] = io[u] /\ view'[u] = view[u]
                                    /\ builtPath'[u] = builtPath[u] /\ use'[u] = use[u],
           view' = [u \in Callers |-> view'[u]], builtPath' = [u \in Callers |-> builtPath'[u]],
           PathOK(t)'
    PROVE  PathInv'
<1>1. ASSUME NEW u \in Callers PROVE PathOK(u)'
  <2>1. CASE u = t
    BY <2>1
  <2>2. CASE u # t
    <3>1. PathOK(u) /\ io'[u] = io[u] /\ view'[u] = view[u]
          /\ builtPath'[u] = builtPath[u] /\ use'[u] = use[u]
      BY <2>2 DEF PathInv
    <3> QED
      BY <3>1 DEF PathOK
  <2> QED
    BY <2>1, <2>2
<1> QED
  BY <1>1 DEF PathInv

(* Packages are opened and closed: a root that is in view is open, and so  *)
(* it stays where it is; when it is closed the view of it is dangling.     *)
LEMMA ContentKeepsPaths ==
    ASSUME PathInv, RootsOK, UseOK, NEW t \in Callers, io[t] = Free, ContentStep(t),
           UNCHANGED <<builtPath, io>>
    PROVE  PathInv'
<1>1. PathOK(t) /\ ~Resolving(io[t])
  BY DEF PathInv, Resolving, Free
<1>2. use[t].at # "resolve" /\ view[t] = NoView /\ builtPath[t] = NoPath
  BY <1>1 DEF PathOK
<1>3. ASSUME NEW r, use' = [use EXCEPT ![t] = r], r.at # "resolve",
             view' = view \/
             \E root \in AllRoots :
                view' = [u \in Callers |-> IF view[u] = root THEN Dangling ELSE view[u]],
             \A u \in Callers : view'[u] \in AllRoots => rootMap'[view[u]] = rootMap[view[u]]
      PROVE  PathInv'
  <2>1. /\ use'[t].at # "resolve"
        /\ \A u \in Callers \ {t} : use'[u] = use[u]
    BY <1>3 DEF UseOK
  <2>2. view' = [u \in Callers |-> view'[u]]
    BY <1>3 DEF PathInv
  <2>3. \A u \in Callers : view'[u] = view[u] \/ (view[u] \in AllRoots /\ view'[u] = Dangling)
    BY <1>3
  <2>4. ASSUME NEW u \in Callers PROVE PathOK(u)'
    <3>1. PathOK(u) /\ builtPath'[u] = builtPath[u] /\ io'[u] = io[u]
      BY DEF PathInv
    <3>2. use'[u].at = "resolve" => use[u].at = "resolve"
      BY <2>1
    <3>3. CASE view'[u] = view[u]
      BY <1>3, <3>1, <3>2, <3>3 DEF PathOK
    <3>4. CASE view[u] \in AllRoots /\ view'[u] = Dangling
      BY <3>1, <3>2, <3>4, ViewsDiffer DEF PathOK
    <3> QED
      BY <2>3, <3>3, <3>4
  <2> QED
    BY <2>2, <2>4 DEF PathInv
<1>4. ASSUME UNCHANGED <<rootMap, view>>, NEW r, use' = [use EXCEPT ![t] = r], r.at # "resolve"
      PROVE  PathInv'
  BY <1>3, <1>4
<1>5. ASSUME UNCHANGED <<rootMap, view, use>> PROVE PathInv'
  BY <1>5, PathsStay
<1>6. ASSUME XamContentCreateEx(t) PROVE PathInv'
  <2>1. use' = [use EXCEPT ![t] = Free] /\ view' = view /\ use[t].root \in AllRoots
    BY <1>6 DEF XamContentCreateEx, Finish, UseOK
  <2>2. UNCHANGED rootMap \/ \E path : XamRootCreate(use[t].root, path)
    BY <1>6 DEF XamContentCreateEx
  <2>3. ASSUME NEW u \in Callers, view'[u] \in AllRoots
        PROVE  rootMap'[view[u]] = rootMap[view[u]]
    <3>1. view[u] \in AllRoots /\ rootMap[view[u]] # NoRoot
      BY <2>1, <2>3 DEF PathInv, PathOK
    <3> QED
      BY <2>1, <2>2, <3>1 DEF XamRootCreate, RootsOK
  <2>4. Free.at # "resolve"
    BY DEF Free
  <2> QED
    BY <1>3, <2>1, <2>3, <2>4
<1>7. ASSUME XamContentClose(t) PROVE PathInv'
  <2> DEFINE root == use[t].root
  <2>1. /\ use' = [use EXCEPT ![t] = Free] /\ root \in AllRoots
        /\ rootMap' = [rootMap EXCEPT ![root] = NoRoot]
        /\ view' = [u \in Callers |-> IF view[u] = root THEN Dangling ELSE view[u]]
    BY <1>7 DEF XamContentClose, Finish, UseOK
  <2> HIDE DEF root
  <2>2. ASSUME NEW u \in Callers, view'[u] \in AllRoots
        PROVE  rootMap'[view[u]] = rootMap[view[u]]
    <3>1. view[u] # root /\ view'[u] = view[u]
      BY <2>1, <2>2, ViewsDiffer
    <3> QED
      BY <2>1, <2>2, <3>1 DEF RootsOK
  <2>3. Free.at # "resolve"
    BY DEF Free
  <2> QED
    BY <1>3, <2>1, <2>2, <2>3
<1>8. ASSUME NEW root \in Roots, BeginContentClose(t, root) PROVE PathInv'
  <2> DEFINE record == [at |-> "close", root |-> root, reads |-> {}, changes |-> {"roots"}]
  <2>1. use' = [use EXCEPT ![t] = record] /\ record.at # "resolve" /\ UNCHANGED <<rootMap, view>>
    BY <1>8 DEF BeginContentClose, Begin
  <2> HIDE DEF record
  <2> QED
    BY <1>4, <2>1
<1>9. ASSUME NEW root \in Roots, NEW content \in Contents,
             NEW mode \in {"CREATE_ALWAYS", "OPEN_EXISTING"}, BeginContentCreate(t, root, content, mode)
      PROVE  PathInv'
  <2>1. PICK record : use' = [use EXCEPT ![t] = record] /\ record.at = "create"
    <3> DEFINE changes == {"roots"} \cup
                    IF mode = "CREATE_ALWAYS" /\ ~Exists(content) THEN {content.type} ELSE {}
               record == [at |-> "create", root |-> root, content |-> content, mode |-> mode,
                          reads |-> {content.type}, changes |-> changes]
    <3>1. Begin(t, record)
      BY <1>9 DEF BeginContentCreate
    <3> HIDE DEF changes
    <3>2. record.at = "create"
      OBVIOUS
    <3> HIDE DEF record
    <3> QED
      BY <3>1, <3>2 DEF Begin
  <2>2. UNCHANGED <<rootMap, view>>
    BY <1>9 DEF BeginContentCreate
  <2> QED
    BY <1>4, <2>1, <2>2
<1>10. ASSUME NEW e, NEW kind, NEW fetch, NEW user,
              \/ XamContentCreateEnumerator(t, e, kind, fetch, user)
              \/ XamEnumerate(t, e) \/ XamEnumerateWithoutBuffer(t, e) \/ CloseEnumerator(t, e)
       PROVE  PathInv'
  <2>1. UNCHANGED <<rootMap, view, use>>
    BY <1>10 DEF XamContentCreateEnumerator, XamEnumerate, XamEnumerateWithoutBuffer, CloseEnumerator
  <2> QED
    BY <1>5, <2>1
<1> QED
  BY <1>6, <1>7, <1>8, <1>9, <1>10 DEF ContentStep

-----------------------------------------------------------------------------
(* A search has returned each name that it found and has not left, once.   *)
SearchFields == {"at", "left", "returned", "over", "expected"}

FileEntries == [name : FileNames \cup Directories, size : Nat, directory : BOOLEAN]
FindData == {fillFindData(entry) : entry \in FileEntries}

NamesIn(entries) == {entry.name : entry \in entries}
NamesReturned(returned) == [i \in DOMAIN returned |-> returned[i].cFileName]

IsListOf(list, S) == list \in Seq(S) /\ IsInjective(list) /\ Range(list) = S

NamesDiffer(entries) == \A a, b \in entries : a.name = b.name => a = b

SearchOK(s) ==
    /\ DOMAIN s = SearchFields
    /\ s.at = "open"
    /\ s.left \subseteq FileEntries /\ NamesDiffer(s.left)
    /\ s.returned \in Seq(FindData)
    /\ s.expected # NoClaim =>
         /\ NamesIn(s.left) \subseteq s.expected
         /\ IsListOf(NamesReturned(s.returned), s.expected \ NamesIn(s.left))
    /\ s.over => s.left = {}

SearchInv ==
    /\ search = [s \in Searches |-> search[s]]
    /\ \A s \in Searches : search[s] # Free => SearchOK(search[s])

-----------------------------------------------------------------------------
(* A list that gets another item.                                          *)
LEMMA OneMore ==
    ASSUME NEW S, NEW list, IsListOf(list, S), NEW x, x \notin S
    PROVE  IsListOf(Append(list, x), S \cup {x})
<1> DEFINE T == S \cup {x}
           more == Append(list, x)
           n == Len(list)
<1>1. list \in Seq(S) /\ n \in Nat /\ DOMAIN list = 1 .. n
  BY LenProperties DEF IsListOf
<1>2. list \in Seq(T) /\ x \in T
  <2>1. \A i \in 1 .. Len(list) : list[i] \in T
    BY <1>1, ElementOfSeq
  <2> QED
    BY <1>1, <2>1
<1>3. /\ more \in Seq(T) /\ Len(more) = n + 1
      /\ \A i \in 1 .. n : more[i] = list[i]
      /\ more[n + 1] = x
  <2> HIDE DEF T
  <2> QED
    BY <1>2, AppendProperties
<1>4. DOMAIN more = 1 .. n + 1
  BY <1>3, LenProperties
<1>5. Range(list) = S /\ \A i \in 1 .. n : list[i] \in S
  BY <1>1 DEF IsListOf, Range
<1> HIDE DEF more, n
<1>6. Range(more) = S \cup {x}
  <2>1. Range(more) \subseteq S \cup {x}
    BY <1>1, <1>3, <1>4, <1>5 DEF Range
  <2>2. x \in Range(more)
    <3>1. n + 1 \in 1 .. n + 1
      BY <1>1
    <3> QED
      BY <1>3, <1>4, <3>1 DEF Range
  <2>3. \A y \in S : y \in Range(more)
    <3> SUFFICES ASSUME NEW y \in S PROVE y \in Range(more)
      OBVIOUS
    <3>1. PICK i \in 1 .. n : y = list[i]
      BY <1>1, <1>5 DEF Range
    <3>2. i \in 1 .. n + 1 /\ more[i] = y
      BY <1>1, <1>3, <3>1
    <3> QED
      BY <1>4, <3>2 DEF Range
  <2> QED
    BY <2>1, <2>2, <2>3
<1>7. IsInjective(more)
  <2> SUFFICES ASSUME NEW i \in 1 .. n + 1, NEW j \in 1 .. n + 1, more[i] = more[j]
               PROVE  i = j
    BY <1>4 DEF IsInjective
  <2>1. CASE i \in 1 .. n /\ j \in 1 .. n
    BY <1>1, <1>3, <2>1 DEF IsListOf, IsInjective
  <2>2. CASE i = n + 1 /\ j \in 1 .. n
    BY <1>3, <1>5, <2>2
  <2>3. CASE i \in 1 .. n /\ j = n + 1
    BY <1>3, <1>5, <2>3
  <2> QED
    BY <1>1, <2>1, <2>2, <2>3
<1> QED
  BY <1>3, <1>6, <1>7 DEF IsListOf, more

LEMMA OneName ==
    ASSUME NEW x
    PROVE  IsListOf(<<x>>, {x})
<1>1. <<x>> \in Seq({x}) /\ DOMAIN <<x>> = 1 .. 1
  OBVIOUS
<1>2. 1 .. 1 = {1}
  OBVIOUS
<1>3. Range(<<x>>) = {x} /\ IsInjective(<<x>>)
  BY <1>1, <1>2 DEF Range, IsInjective
<1> QED
  BY <1>1, <1>3 DEF IsListOf

(* The names of what has been returned, with one more.                     *)
LEMMA NamesAppended ==
    ASSUME NEW returned \in Seq(FindData), NEW entry \in FileEntries
    PROVE  /\ Append(returned, fillFindData(entry)) \in Seq(FindData)
           /\ NamesReturned(Append(returned, fillFindData(entry)))
                = Append(NamesReturned(returned), entry.name)
<1> DEFINE data == fillFindData(entry)
           more == Append(returned, data)
           n == Len(returned)
           S == {returned[i].cFileName : i \in 1 .. n} \cup {entry.name}
           names == NamesReturned(returned)
           k == Append(names, entry.name)
<1>1. data \in FindData /\ data.cFileName = entry.name
  BY DEF FindData, fillFindData
<1> HIDE DEF data
<1>2. n \in Nat /\ DOMAIN returned = 1 .. n
  BY LenProperties
<1>3. /\ more \in Seq(FindData) /\ Len(more) = n + 1
      /\ \A i \in 1 .. n : more[i] = returned[i]
      /\ more[n + 1] = data
  BY <1>1, AppendProperties
<1>4. DOMAIN more = 1 .. n + 1
  BY <1>3, LenProperties
<1> HIDE DEF n
<1>5. names = [i \in 1 .. n |-> returned[i].cFileName]
  BY <1>2 DEF NamesReturned
<1>6. names \in [1 .. n -> S]
  BY <1>5
<1> HIDE DEF S
<1>7. names \in Seq(S) /\ entry.name \in S
  BY <1>2, <1>6, SeqDef DEF S
<1> HIDE DEF names
<1>8. Len(names) = n
  <2>1. DOMAIN names = 1 .. n /\ DOMAIN names = 1 .. Len(names) /\ Len(names) \in Nat
    BY <1>6, <1>7, LenProperties
  <2> QED
    BY <1>2, <2>1
<1>9. /\ k \in Seq(S) /\ Len(k) = n + 1
      /\ \A i \in 1 .. n : k[i] = names[i]
      /\ k[n + 1] = entry.name
  BY <1>7, <1>8, AppendProperties
<1>10. DOMAIN k = 1 .. n + 1 /\ k = [i \in DOMAIN k |-> k[i]]
  BY <1>9, LenProperties
<1> HIDE DEF k, more
<1>11. \A i \in 1 .. n + 1 : k[i] = more[i].cFileName
  <2>1. \A i \in 1 .. n + 1 : i \in 1 .. n \/ i = n + 1
    BY <1>2
  <2> QED
    BY <1>1, <1>3, <1>5, <1>9, <2>1
<1>12. k = NamesReturned(more)
  BY <1>4, <1>10, <1>11 DEF NamesReturned
<1> QED
  BY <1>3, <1>12 DEF k, more, names, data

(* The entries of a directory have names of their own.                     *)
LEMMA EntriesDiffer ==
    ASSUME StreamsOK, RootsOK, NEW directory
    PROVE  HostEntries(directory) \subseteq FileEntries /\ NamesDiffer(HostEntries(directory))
<1> DEFINE File(path) == [name |-> path[2], size |-> Len(disk[path]), directory |-> FALSE]
           Inner(inner) == [name |-> inner, size |-> 0, directory |-> TRUE]
           files == {q \in Paths : q[1] = directory /\ disk[q] # NoFile}
           inners == IF directory = "." THEN directories \ {"."} ELSE {}
<1>1. HostEntries(directory) = {File(path) : path \in files} \cup {Inner(inner) : inner \in inners}
  BY DEF HostEntries
<1>2. ASSUME NEW path \in files
      PROVE  /\ File(path) \in FileEntries /\ File(path).name = path[2]
             /\ path = <<directory, path[2]>> /\ path[2] \notin {"Data", "Save"}
  <2>1. path \in Paths /\ path[1] = directory /\ disk[path] \in Seq(Nat)
    BY DEF StreamsOK
  <2>2. Len(disk[path]) \in Nat /\ path[2] \in FileNames
    BY <2>1, LenProperties DEF FileNames
  <2>3. path = <<directory, path[2]>> /\ path[2] \notin {"Data", "Save"}
    BY <2>1, FileAssumption
  <2> QED
    BY <2>2, <2>3 DEF FileEntries
<1>3. inners \subseteq {"Data", "Save"}
  BY DEF RootsOK, Directories
<1>4. ASSUME NEW inner \in inners
      PROVE  Inner(inner) \in FileEntries /\ Inner(inner).name = inner
  BY <1>3 DEF FileEntries, Directories
<1> HIDE DEF File, Inner, files, inners
<1>5. HostEntries(directory) \subseteq FileEntries
  BY <1>1, <1>2, <1>4
<1>6. ASSUME NEW a \in HostEntries(directory), NEW b \in HostEntries(directory), a.name = b.name
      PROVE  a = b
  <2>1. CASE \E p, q \in files : a = File(p) /\ b = File(q)
    BY <1>2, <1>6, <2>1
  <2>2. CASE \E i, j \in inners : a = Inner(i) /\ b = Inner(j)
    BY <1>4, <1>6, <2>2
  <2>3. CASE \E p \in files, i \in inners :
                (a = File(p) /\ b = Inner(i)) \/ (a = Inner(i) /\ b = File(p))
    BY <1>2, <1>3, <1>4, <1>6, <2>3
  <2>4. ASSUME NEW c \in HostEntries(directory)
        PROVE  (\E p \in files : c = File(p)) \/ (\E i \in inners : c = Inner(i))
    BY <1>1
  <2> QED
    BY <2>1, <2>2, <2>3, <2>4
<1> QED
  BY <1>5, <1>6 DEF NamesDiffer

-----------------------------------------------------------------------------
(* One search changes.                                                     *)
LEMMA OneSearch ==
    ASSUME SearchInv, NEW s \in Searches, NEW r, search' = [search EXCEPT ![s] = r],
           r # Free => SearchOK(r)
    PROVE  SearchInv'
<1>1. /\ search' = [d \in Searches |-> search'[d]] /\ search'[s] = r
      /\ \A d \in Searches \ {s} : search'[d] = search[d]
  BY DEF SearchInv
<1> QED
  BY <1>1 DEF SearchInv

(* What a search that begins finds is what is in the directory asked for.  *)
LEMMA FoundIsExpected ==
    ASSUME IoInv, PathInv, NEW t \in Callers, io[t].at = "find", builtPath[t] # NoPath,
           Expected(t) # NoClaim
    PROVE  Expected(t) = NamesIn(FindHandle(resolve_path(t)))
<1>1. Elsewhere(io[t])
  BY DEF IoInv, IoOK, CallOK, Places
<1>2. io[t].pattern.all /\ io[t].asked # Lost
      /\ Expected(t) = NamesIn(HostEntries(io[t].asked[1]))
  BY DEF Expected, NamesIn
<1>3. io[t].file = ""
  BY <1>1, <1>2 DEF Elsewhere
<1>4. PICK directory : builtPath[t] = <<directory, io[t].file>>
  BY DEF PathInv, PathOK
<1>5. io[t].asked = builtPath[t]
  BY <1>2 DEF PathInv, PathOK
<1>6. builtPath[t] = <<directory, "">>
  BY <1>3, <1>4
<1>7. builtPath[t][2] = "" /\ builtPath[t][1] = directory
  <2> DEFINE path == builtPath[t]
             name == ""
  <2>1. path = <<directory, name>>
    BY <1>6
  <2> HIDE DEF path, name
  <2>2. path[2] = name /\ path[1] = directory
    BY <2>1
  <2> QED
    BY <2>2 DEF path, name
<1>8. io[t].asked[1] = builtPath[t][1]
  BY <1>5
<1> QED
  BY <1>2, <1>7, <1>8 DEF FindHandle, resolve_path

LEMMA FindFirstKeeps ==
    ASSUME SearchInv, StreamsOK, IoInv, PathInv, RootsOK, NEW t \in Callers, NEW s \in Searches,
           XFindFirstFileA(t, s)
    PROVE  /\ SearchInv'
           /\ \E r : Elsewhere(r) /\ ~Resolving(r) /\ io' = [io EXCEPT ![t] = r]
<1> DEFINE found == FindHandle(resolve_path(t))
           expected == Expected(t)
           Opening(first) == [at |-> "open", left |-> found \ {first},
                              returned |-> <<fillFindData(first)>>, over |-> FALSE,
                              expected |-> expected]
           nothing == [at |-> "found nothing", expected |-> expected]
<1>1. io[t].at = "find" /\ builtPath[t] # NoPath
  BY DEF XFindFirstFileA, Resolved
<1>2. expected # NoClaim => expected = NamesIn(found)
  BY <1>1, FoundIsExpected
<1>3. found \subseteq FileEntries /\ NamesDiffer(found)
  BY EntriesDiffer DEF FindHandle, NamesDiffer
<1>4. \/ found = {} /\ io' = [io EXCEPT ![t] = nothing] /\ UNCHANGED search
      \/ \E first \in found : /\ search' = [search EXCEPT ![s] = Opening(first)]
                              /\ io' = [io EXCEPT ![t] = Free]
  BY DEF XFindFirstFileA
<1> HIDE DEF found, expected
<1>5. CASE found = {} /\ io' = [io EXCEPT ![t] = nothing] /\ UNCHANGED search
  <2>1. NamesIn(found) = {}
    BY <1>5 DEF NamesIn
  <2>2. Elsewhere(nothing) /\ ~Resolving(nothing)
    BY <1>2, <2>1 DEF Elsewhere, Resolving
  <2> HIDE DEF nothing
  <2> QED
    BY <1>5, <2>2 DEF SearchInv
<1>6. ASSUME NEW first \in found, search' = [search EXCEPT ![s] = Opening(first)],
             io' = [io EXCEPT ![t] = Free]
      PROVE  /\ SearchInv'
             /\ \E r : Elsewhere(r) /\ ~Resolving(r) /\ io' = [io EXCEPT ![t] = r]
  <2> DEFINE r == Opening(first)
             data == fillFindData(first)
             one == <<data>>
             left == found \ {first}
  <2>1. /\ DOMAIN r = SearchFields /\ r.at = "open" /\ r.left = left
        /\ r.returned = one /\ r.over = FALSE /\ r.expected = expected
    BY DEF SearchFields
  <2>2. data \in FindData /\ data.cFileName = first.name
    BY <1>3 DEF FindData, fillFindData
  <2> HIDE DEF r, data
  <2>3. one \in Seq(FindData) /\ NamesReturned(one) = <<first.name>>
    BY <2>2 DEF NamesReturned
  <2>4. left \subseteq FileEntries /\ NamesDiffer(left)
    BY <1>3 DEF NamesDiffer
  <2>5. ASSUME expected # NoClaim
        PROVE  /\ NamesIn(left) \subseteq expected
               /\ IsListOf(NamesReturned(one), expected \ NamesIn(left))
    <3>1. expected \ NamesIn(left) = {first.name}
      BY <1>2, <1>3, <2>5 DEF NamesIn, NamesDiffer
    <3>2. NamesIn(left) \subseteq expected
      BY <1>2, <2>5 DEF NamesIn
    <3> HIDE DEF one, left
    <3> QED
      BY <2>3, <3>1, <3>2, OneName
  <2> HIDE DEF one, left
  <2>6. SearchOK(r)
    BY <2>1, <2>3, <2>4, <2>5 DEF SearchOK
  <2>7. search' = [search EXCEPT ![s] = r]
    BY <1>6 DEF r
  <2>8. SearchInv'
    BY <2>6, <2>7, OneSearch
  <2>9. ~Resolving(Free)
    BY DEF Resolving, Free
  <2> QED
    BY <1>6, <2>8, <2>9, FreeIsElsewhere
<1> QED
  BY <1>4, <1>5, <1>6

LEMMA FindNextKeeps ==
    ASSUME SearchInv, NEW t, NEW s \in Searches, XFindNextFileA(t, s)
    PROVE  SearchInv'
<1> DEFINE r == search[s]
           k == search'[s]
<1>1. r # Free /\ SearchOK(r)
  <2>1. r # Free
    BY DEF XFindNextFileA, Free
  <2> QED
    BY <2>1 DEF SearchInv
<1>2. /\ search' = [d \in Searches |-> search'[d]]
      /\ \A d \in Searches \ {s} : search'[d] = search[d]
  BY DEF XFindNextFileA, SearchInv
<1>3. DOMAIN r = SearchFields
  BY <1>1 DEF SearchOK
<1>4. ASSUME NEW next \in r.left,
             search' = [search EXCEPT ![s].left = @ \ {next},
                                      ![s].returned = Append(@, fillFindData(next))]
      PROVE  SearchOK(k)
  <2> DEFINE data == fillFindData(next)
             more == Append(r.returned, data)
             left == r.left \ {next}
  <2>1. k = [r EXCEPT !.left = left, !.returned = more]
    BY <1>4 DEF SearchInv
  <2>2. next \in FileEntries /\ left \subseteq FileEntries /\ NamesDiffer(left)
        /\ r.returned \in Seq(FindData)
    BY <1>1, <1>4 DEF SearchOK, NamesDiffer
  <2>3. more \in Seq(FindData) /\ NamesReturned(more) = Append(NamesReturned(r.returned), next.name)
    BY <2>2, NamesAppended
  <2> HIDE DEF more
  <2>4. ASSUME r.expected # NoClaim
        PROVE  /\ NamesIn(left) \subseteq r.expected
               /\ IsListOf(NamesReturned(more), r.expected \ NamesIn(left))
    <3> DEFINE S == r.expected \ NamesIn(r.left)
    <3>1. NamesIn(r.left) \subseteq r.expected /\ IsListOf(NamesReturned(r.returned), S)
          /\ NamesDiffer(r.left)
      BY <1>1, <2>4 DEF SearchOK
    <3> HIDE DEF r
    <3>2. next.name \in NamesIn(r.left) /\ next.name \notin NamesIn(left)
          /\ NamesIn(r.left) = NamesIn(left) \cup {next.name}
      BY <1>4, <3>1 DEF NamesIn, NamesDiffer
    <3> HIDE DEF left
    <3>3. next.name \notin S /\ S \cup {next.name} = r.expected \ NamesIn(left)
      BY <3>1, <3>2
    <3> HIDE DEF S
    <3>4. IsListOf(Append(NamesReturned(r.returned), next.name), S \cup {next.name})
      BY <3>1, <3>3, OneMore
    <3> QED
      BY <2>3, <3>1, <3>2, <3>3, <3>4
  <2> HIDE DEF r, k, left
  <2>5. /\ DOMAIN k = SearchFields /\ k.at = r.at /\ k.expected = r.expected
        /\ k.left = left /\ k.returned = more /\ k.over = r.over
    BY <1>3, <2>1 DEF SearchFields
  <2>6. r.at = "open" /\ ~r.over
    BY <1>1, <1>4 DEF SearchOK
  <2> QED
    BY <2>2, <2>3, <2>4, <2>5, <2>6 DEF SearchOK
<1>5. ASSUME r.left = {}, search' = [search EXCEPT ![s].over = TRUE]
      PROVE  SearchOK(k)
  <2>1. k = [r EXCEPT !.over = TRUE]
    BY <1>5 DEF SearchInv
  <2> HIDE DEF r, k
  <2>2. /\ DOMAIN k = SearchFields /\ k.at = r.at /\ k.expected = r.expected
        /\ k.left = r.left /\ k.returned = r.returned
    BY <1>3, <2>1 DEF SearchFields
  <2> QED
    BY <1>1, <1>5, <2>2 DEF SearchOK
<1>6. SearchOK(k)
  BY <1>4, <1>5 DEF XFindNextFileA
<1> QED
  BY <1>2, <1>6 DEF SearchInv

LEMMA CloseSearchKeeps ==
    ASSUME SearchInv, NEW t, NEW s \in Searches, CloseSearch(t, s)
    PROVE  SearchInv'
<1> DEFINE r == Free
<1>1. search' = [search EXCEPT ![s] = r] /\ r = Free
  BY DEF CloseSearch
<1> HIDE DEF r
<1> QED
  BY <1>1, OneSearch

(* What the invariants say of all listings.                                *)
LEMMA ListingsComplete ==
    ASSUME RegistryOK, EnumInv, SearchInv, IoInv
    PROVE  ListingsAreComplete
<1>1. ASSUME NEW s \in Searches, search[s] # Free, search[s].expected # NoClaim
      PROVE  LET names == NamesReturned(search[s].returned)
             IN  /\ IsInjective(names)
                 /\ Range(names) \subseteq search[s].expected
                 /\ search[s].over => Range(names) = search[s].expected
  <2>1. SearchOK(search[s])
    BY <1>1 DEF SearchInv
  <2>2. search[s].over => NamesIn(search[s].left) = {}
    BY <2>1 DEF SearchOK, NamesIn
  <2> QED
    BY <1>1, <2>1, <2>2 DEF SearchOK, IsListOf
<1>2. ASSUME NEW t \in Callers, io[t].at = "found nothing"
      PROVE  io[t].expected \in {{}, NoClaim}
  BY <1>2 DEF IoInv, IoOK, CallOK, Places, Elsewhere
<1>3. SearchesAreComplete
  BY <1>1, <1>2 DEF SearchesAreComplete, NamesReturned
<1> QED
  BY <1>3, EnumeratorsComplete DEF ListingsAreComplete

-----------------------------------------------------------------------------
(* A file is opened, at the path that was built for the thread.            *)
LEMMA CreateFileKeeps ==
    ASSUME RootsOK, PathInv, FilesOK, NEW t \in Callers, NEW h \in Files, XCreateFileA(t, h)
    PROVE  FilesOK'
<1> DEFINE path == resolve_path(t)
           mode == io[t].mode
           asked == io[t].asked
<1>1. /\ builtPath[t] # NoPath /\ io[t].at = "create" /\ stream[h] = Free
      /\ io' = [io EXCEPT ![t] = Free]
  BY DEF XCreateFileA, Resolved
<1>2. Elsewhere(io[t])
  BY <1>1 DEF FilesOK, IoInv, IoOK, CallOK, Places
<1>3. mode \in Modes /\ asked \in {path, Lost}
      /\ (path[1] \in directories => path \in Paths)
  <2>1. io[t].file \in FileNames /\ mode \in Modes
    BY <1>1, <1>2 DEF Elsewhere
  <2>2. PICK directory : path = <<directory, io[t].file>>
    BY <1>1 DEF PathInv, PathOK, resolve_path
  <2>3. asked \in {path, Lost}
    BY <1>1 DEF PathInv, PathOK, resolve_path
  <2>4. PICK p \in Paths : io[t].file = p[2]
    BY <2>1 DEF FileNames
  <2>5. path[1] \in directories => path[1] \in {"Data", "Save", "."}
    BY DEF RootsOK, Directories
  <2>6. path = <<path[1], p[2]>>
    BY <2>2, <2>4
  <2>7. path[1] \in directories => path \in Paths
    BY <2>5, <2>6, FileAssumption
  <2> QED
    BY <2>1, <2>3, <2>7
<1>4. /\ io' = [u \in Callers |-> io'[u]] /\ io'[t] = Free
      /\ \A u \in Callers \ {t} : io'[u] = io[u]
  BY <1>1 DEF FilesOK, IoInv
<1>5. \A u \in Callers : \/ io'[u] = io[u]
                         \/ Elsewhere(io[u]) /\ Elsewhere(io'[u])
  BY <1>2, <1>4, FreeIsElsewhere
<1>6. \A u \in Callers : ~Using(io[u], h)
  BY <1>1, ElsewhereUsesNone DEF FilesOK, IoInv, IoOK, Using
<1>7. ASSUME UNCHANGED <<disk, stream>> PROVE FilesOK'
  <2>1. IoInv' /\ \A g \in Files : InRead(g) => InRead(g)'
    BY <1>4, <1>5, <1>7, NoCallMoves DEF FilesOK
  <2> QED
    BY <1>7, <2>1 DEF FilesOK, StreamsOK, MarksOK
<1>8. ASSUME NEW bytes \in Seq(Nat), NEW k, path \in Paths,
             \/ k = NewStream(path, mode, asked) /\ bytes = disk[path]
             \/ k = [NewStream(path, mode, asked) EXCEPT !.bytes = bytes],
             stream' = [stream EXCEPT ![h] = k],
             disk' = disk \/ disk' = [disk EXCEPT ![path] = bytes],
             disk'[path] = bytes,
             \A g \in Files : stream[g] # Free => stream[g].path # path
      PROVE  FilesOK'
  <2> PICK p \in Paths : p = path
    BY <1>8
  <2> PICK m \in Modes : m = mode
    BY <1>3
  <2> PICK a \in {p, Lost} : a = asked
    BY <1>3
  <2> HIDE DEF path, mode, asked
  <2>1. /\ StreamOK(k) /\ k.path = p /\ k.bytes = bytes /\ Clean(k)
        /\ k.position = 0 /\ k.mark = 0
    BY <1>8, OpenedStream
  <2>2. StreamsOK'
    <3>1. disk' = disk \/ disk' = [disk EXCEPT ![p] = k.bytes]
      BY <1>8, <2>1
    <3>2. disk'[p] = k.bytes /\ \A g \in Files : stream[g] # Free => stream[g].path # k.path
      BY <1>8, <2>1
    <3> QED
      BY <1>1, <1>8, <2>1, <3>1, <3>2, StreamOpens, Zenon DEF FilesOK
  <2>3. OnlyStream(h, k)
    BY <1>8, StreamChanges DEF FilesOK
  <2>4. IoInv' /\ \A g \in Files : InRead(g) => InRead(g)'
    <3>1. \A u \in Callers : \A g \in Files : Using(io[u], g) => stream'[g] = stream[g]
      BY <1>6, <2>3 DEF OnlyStream
    <3> QED
      BY <1>4, <1>5, <3>1, NoCallMoves DEF FilesOK
  <2>5. MarksOK'
    BY <2>1, <2>3, <2>4, MarksKeep DEF FilesOK, OnlyStream
  <2> QED
    BY <2>2, <2>4, <2>5 DEF FilesOK
<1>9. CASE /\ path \in Paths /\ disk' = [disk EXCEPT ![path] = <<>>]
           /\ stream' = [stream EXCEPT ![h] = [NewStream(path, mode, asked) EXCEPT !.bytes = <<>>]]
           /\ \A g \in Files : stream[g] # Free => stream[g].path # path
  <2>1. <<>> \in Seq(Nat)
    OBVIOUS
  <2>2. disk'[path] = <<>>
    BY <1>9 DEF FilesOK, StreamsOK
  <2> HIDE DEF path, mode, asked
  <2> QED
    BY <1>8, <1>9, <2>1, <2>2
<1>10. CASE /\ path \in Paths /\ disk' = disk
            /\ stream' = [stream EXCEPT ![h] = NewStream(path, mode, asked)]
            /\ \A g \in Files : stream[g] # Free => stream[g].path # path
  <2>1. disk[path] \in Seq(Nat)
    BY <1>10 DEF FilesOK, StreamsOK
  <2> HIDE DEF path, mode, asked
  <2> QED
    BY <1>8, <1>10, <2>1
<1>11. \/ /\ mode = "write" /\ path[1] \in directories
          /\ disk' = [disk EXCEPT ![path] = <<>>]
          /\ stream' = [stream EXCEPT ![h] = [NewStream(path, mode, asked) EXCEPT !.bytes = <<>>]]
       \/ /\ path \in Paths /\ disk' = disk
          /\ stream' = [stream EXCEPT ![h] = NewStream(path, mode, asked)]
       \/ UNCHANGED <<disk, stream>>
  BY DEF XCreateFileA
<1>12. \A g \in Files : stream[g] # Free => stream[g].path # path
  BY DEF XCreateFileA
<1> QED
  BY <1>3, <1>7, <1>9, <1>10, <1>11, <1>12

-----------------------------------------------------------------------------
ContentOK == RootsOK /\ UseOK /\ RegistryOK /\ EnumInv

FileInv == ContentOK /\ SearchInv /\ FilesOK /\ PathInv

LEMMA FirstEntry ==
    ASSUME NEW item \in Items
    PROVE  ListOK(<<item>>)
<1>1. <<item>> \in Seq(Items) /\ DOMAIN <<item>> = {1}
  OBVIOUS
<1>2. IsInjective(<<item>>) /\ Range(<<item>>) = {item}
  BY <1>1 DEF IsInjective, Range
<1> QED
  BY <1>1, <1>2 DEF ListOK

LEMMA StartupIsSound == FileInit => FileInv
<1> SUFFICES ASSUME FileInit PROVE FileInv
  OBVIOUS
<1>1. RootsOK
  BY DEF FileInit, ContentInit, RootsOK, Directories, AllRoots, StartupRoots
<1>2. UseOK
  BY DEF FileInit, ContentInit, UseOK, Free
<1>3. RegistryOK
  <2> DEFINE game == [file |-> "Game", root |-> "Data"]
             save == [file |-> "Save", root |-> "Save"]
  <2>1. game \in Items /\ save \in Items
    BY DEF Items, Directories
  <2>2. registry = [kind \in ContentTypes |-> IF kind = Reserved THEN <<game>> ELSE <<save>>]
    BY DEF FileInit, ContentInit
  <2> HIDE DEF game, save
  <2>3. ListOK(<<game>>) /\ ListOK(<<save>>)
    BY <2>1, FirstEntry
  <2> QED
    BY <2>2, <2>3 DEF RegistryOK
<1>4. EnumInv
  BY DEF FileInit, ContentInit, EnumInv
<1>5. SearchInv
  BY DEF FileInit, SearchInv
<1>6. StreamsOK
  <2>1. disk \in [Paths -> Seq(Nat)]
    <3>1. NoFile \in Seq(Nat)
      BY DEF NoFile
    <3> QED
      BY <3>1, FileAssumption DEF FileInit
  <2>2. stream = [h \in Files |-> Free]
    BY DEF FileInit
  <2> QED
    BY <2>1, <2>2 DEF StreamsOK
<1>7. IoInv
  <2>1. io = [t \in Callers |-> Free]
    BY DEF FileInit
  <2> QED
    BY <2>1, FreeIsElsewhere DEF IoInv, IoOK
<1>8. MarksOK
  BY DEF FileInit, MarksOK
<1>9. PathInv
  <2>1. /\ use = [t \in Callers |-> Free] /\ view = [t \in Callers |-> NoView]
        /\ builtPath = [t \in Callers |-> NoPath] /\ Free.at # "resolve"
    BY DEF FileInit, ContentInit, Free
  <2> QED
    BY <2>1, ViewsDiffer DEF PathInv, PathOK
<1> QED
  BY <1>1, <1>2, <1>3, <1>4, <1>5, <1>6, <1>7, <1>8, <1>9 DEF FileInv, ContentOK, FilesOK

-----------------------------------------------------------------------------
(* What leaves the packages, the searches or the files alone.              *)
LEMMA SameContent ==
    ASSUME ContentOK, UNCHANGED <<registry, rootMap, directories, enumerator>>,
           UseOK' \/ UNCHANGED use
    PROVE  ContentOK'
<1>1. RootsOK' /\ UseOK'
  BY SameRoots DEF ContentOK, UseOK
<1>2. RegistryOK' /\ EnumInv'
  BY SameEnumerators DEF ContentOK, RegistryOK
<1> QED
  BY <1>1, <1>2 DEF ContentOK

LEMMA SameSearches ==
    ASSUME SearchInv, UNCHANGED search
    PROVE  SearchInv'
  BY DEF SearchInv

LEMMA ContentStepKeeps ==
    ASSUME FileInv, NEW t \in Callers, io[t] = Free, ContentStep(t), UNCHANGED fileVars
    PROVE  FileInv'
<1>1. ContentOK'
  BY ContentKeeps DEF FileInv, ContentOK
<1>2. UNCHANGED <<disk, stream, io>> /\ UNCHANGED <<builtPath, io>> /\ UNCHANGED search
  BY DEF fileVars
<1>3. PathInv'
  BY <1>2, ContentKeepsPaths DEF FileInv, ContentOK
<1> QED
  BY <1>1, <1>2, <1>3, SameSearches, SameFiles DEF FileInv

(* A thread that is elsewhere than on a stream goes on elsewhere.          *)
LEMMA GoesElsewhere ==
    ASSUME FileInv, NEW t \in Callers, Elsewhere(io[t]), NEW r, Elsewhere(r),
           io' = [io EXCEPT ![t] = r], UNCHANGED <<disk, stream>>, UNCHANGED search
    PROVE  FilesOK' /\ SearchInv' /\ io'[t] = r /\ \A u \in Callers \ {t} : io'[u] = io[u]
<1>1. FilesOK' /\ SearchInv'
  BY ElsewhereKeeps, SameSearches DEF FileInv
<1>2. io'[t] = r /\ \A u \in Callers \ {t} : io'[u] = io[u]
  BY DEF FileInv, FilesOK, IoInv
<1> QED
  BY <1>1, <1>2

LEMMA BeginResolveKeeps ==
    ASSUME FileInv, NEW t \in Callers, NEW root \in AllRoots, NEW then, Elsewhere(then),
           Resolving(then), BeginResolve(t, root, then)
    PROVE  FileInv'
<1> DEFINE record == [at |-> "resolve", root |-> root, reads |-> {"roots"}, changes |-> {}]
<1>1. record.root \in AllRoots /\ record.at # "create" /\ Begin(t, record)
  BY DEF BeginResolve
<1>2. use' = [use EXCEPT ![t] = record]
  BY <1>1 DEF Begin
<1> HIDE DEF record
<1>3. UseOK'
  BY <1>1, BeginKeeps DEF FileInv, ContentOK
<1>4. ContentOK'
  BY <1>3, SameContent DEF BeginResolve, FileInv
<1>5. FilesOK' /\ SearchInv' /\ io'[t] = then /\ \A u \in Callers \ {t} : io'[u] = io[u]
  <2>1. Elsewhere(io[t])
    BY FreeIsElsewhere DEF BeginResolve
  <2>2. io' = [io EXCEPT ![t] = then] /\ UNCHANGED <<disk, stream>> /\ UNCHANGED search
    BY DEF BeginResolve
  <2> QED
    BY <2>1, <2>2, GoesElsewhere
<1>6. PathInv'
  <2>1. ~Resolving(io[t])
    BY DEF BeginResolve, Resolving, Free
  <2>2. view[t] = NoView /\ builtPath[t] = NoPath
    BY <2>1 DEF FileInv, PathInv, PathOK
  <2>3. UNCHANGED <<rootMap, view, builtPath>>
    BY DEF BeginResolve
  <2>4. PathOK(t)'
    BY <1>5, <2>2, <2>3, ViewsDiffer DEF PathOK
  <2>5. \A u \in Callers \ {t} : use'[u] = use[u]
    BY <1>2 DEF FileInv, ContentOK, UseOK
  <2>6. view' = [u \in Callers |-> view'[u]] /\ builtPath' = [u \in Callers |-> builtPath'[u]]
    BY <2>3 DEF FileInv, PathInv
  <2> QED
    BY <1>5, <2>3, <2>4, <2>5, <2>6, OnePath DEF FileInv
<1> QED
  BY <1>4, <1>5, <1>6 DEF FileInv

(* The asked path of a call that resolves one.                             *)
LEMMA AskedFor ==
    ASSUME NEW c, Elsewhere(c), Resolving(c), NEW asked
    PROVE  LET r == [c EXCEPT !.asked = asked]
           IN  Elsewhere(r) /\ Resolving(r) /\ r.asked = asked /\ r.file = c.file
<1> DEFINE r == [c EXCEPT !.asked = asked]
<1>1. DOMAIN r = DOMAIN c /\ {"at", "file", "asked"} \subseteq DOMAIN c
  BY DEF Elsewhere, Resolving
<1>2. r.at = c.at /\ r.file = c.file /\ r.asked = asked
  BY <1>1
<1>3. ("pattern" \in DOMAIN c => r.pattern = c.pattern) /\ ("mode" \in DOMAIN c => r.mode = c.mode)
  OBVIOUS
<1> HIDE DEF r
<1>4. Elsewhere(r) /\ Resolving(r)
  BY <1>1, <1>2, <1>3 DEF Elsewhere, Resolving
<1> QED
  BY <1>2, <1>4 DEF r

LEMMA LookUpRootKeeps ==
    ASSUME FileInv, NEW t \in Callers, LookUpRoot(t)
    PROVE  FileInv'
<1> DEFINE root == use[t].root
           asked == <<IF rootMap[root] = NoRoot THEN "." ELSE rootMap[root], io[t].file>>
           c == io[t]
           r == [c EXCEPT !.asked = asked]
<1>1. /\ use[t].at = "resolve" /\ use' = [use EXCEPT ![t] = Free]
      /\ view' = [view EXCEPT ![t] = IF rootMap[root] = NoRoot THEN EmptyView ELSE root]
      /\ UNCHANGED <<registry, rootMap, directories, enumerator>>
      /\ io' = [io EXCEPT ![t] = r]
      /\ UNCHANGED <<disk, stream>> /\ UNCHANGED search /\ UNCHANGED builtPath
  BY DEF LookUpRoot, XamGetRootPath, Finish
<1>2. ContentOK'
  BY <1>1, FinishKeeps, SameContent DEF FileInv, ContentOK, Finish
<1>3. Resolving(c) /\ view[t] = NoView /\ builtPath[t] = NoPath
  BY <1>1 DEF FileInv, PathInv, PathOK
<1>4. Elsewhere(c)
  BY <1>3 DEF FileInv, FilesOK, IoInv, IoOK, CallOK, Places, Resolving
<1>5. root \in AllRoots
  BY <1>1 DEF FileInv, ContentOK, UseOK
<1> HIDE DEF root
<1>6. Elsewhere(r) /\ Resolving(r) /\ r.asked = asked /\ r.file = c.file
  BY <1>3, <1>4, AskedFor
<1>7. asked = <<IF rootMap[root] = NoRoot THEN "." ELSE rootMap[root], r.file>>
  BY <1>6
<1> HIDE DEF r, asked
<1>8. FilesOK' /\ SearchInv' /\ io'[t] = r /\ \A u \in Callers \ {t} : io'[u] = io[u]
  BY <1>1, <1>4, <1>6, GoesElsewhere
<1>9. /\ view'[t] = (IF rootMap[root] = NoRoot THEN EmptyView ELSE root)
      /\ \A u \in Callers \ {t} : view'[u] = view[u]
      /\ view' = [u \in Callers |-> view'[u]]
      /\ builtPath' = [u \in Callers |-> builtPath'[u]]
  BY <1>1 DEF FileInv, PathInv
<1>10. use'[t].at # "resolve" /\ \A u \in Callers \ {t} : use'[u] = use[u]
  BY <1>1 DEF FileInv, ContentOK, UseOK, Free
<1>11. PathOK(t)'
  <2>1. builtPath'[t] = NoPath /\ io'[t] = r /\ Resolving(r) /\ rootMap' = rootMap
    BY <1>1, <1>3, <1>6, <1>8
  <2>2. CASE rootMap[root] = NoRoot
    <3>1. view'[t] = EmptyView /\ r.asked = <<".", r.file>>
      BY <1>6, <1>7, <1>9, <2>2
    <3> QED
      BY <1>10, <2>1, <3>1, ViewsDiffer DEF PathOK
  <2>3. CASE rootMap[root] # NoRoot
    <3>1. view'[t] = root /\ r.asked = <<rootMap[root], r.file>>
      BY <1>6, <1>7, <1>9, <2>3
    <3> QED
      BY <1>5, <1>10, <2>1, <2>3, <3>1, ViewsDiffer DEF PathOK
  <2> QED
    BY <2>2, <2>3
<1>12. PathInv'
  BY <1>1, <1>8, <1>9, <1>10, <1>11, OnePath DEF FileInv
<1> QED
  BY <1>2, <1>8, <1>12 DEF FileInv

LEMMA BuildPathKeeps ==
    ASSUME FileInv, NEW t \in Callers, BuildPath(t)
    PROVE  FileInv'
<1> DEFINE c == io[t]
           r == IF view[t] = Dangling THEN [c EXCEPT !.asked = Lost] ELSE c
<1>1. PICK directory \in Shown(t) : builtPath' = [builtPath EXCEPT ![t] = <<directory, c.file>>]
  BY DEF BuildPath
<1>2. /\ view[t] # NoView /\ view' = [view EXCEPT ![t] = NoView]
      /\ io' = IF view[t] = Dangling THEN [io EXCEPT ![t].asked = Lost] ELSE io
      /\ UNCHANGED <<registry, rootMap, directories, enumerator>> /\ use' = use
      /\ UNCHANGED <<disk, stream>> /\ UNCHANGED search
  BY DEF BuildPath, CopyView
<1>3. ContentOK'
  BY <1>2, SameContent DEF FileInv
<1>4. PathOK(t) /\ Resolving(c) /\ use[t].at # "resolve"
  BY <1>2 DEF FileInv, PathInv, PathOK
<1>5. Elsewhere(c)
  BY <1>4 DEF FileInv, FilesOK, IoInv, IoOK, CallOK, Places, Resolving
<1>6. /\ Elsewhere(r) /\ Resolving(r) /\ r.file = c.file
      /\ r.asked = IF view[t] = Dangling THEN Lost ELSE c.asked
  BY <1>4, <1>5, AskedFor
<1>7. io' = [io EXCEPT ![t] = r]
  BY <1>2 DEF FileInv, FilesOK, IoInv
<1> HIDE DEF r
<1>8. FilesOK' /\ SearchInv' /\ io'[t] = r /\ \A u \in Callers \ {t} : io'[u] = io[u]
  BY <1>2, <1>5, <1>6, <1>7, GoesElsewhere
<1>9. /\ view'[t] = NoView /\ \A u \in Callers \ {t} : view'[u] = view[u]
      /\ builtPath'[t] = <<directory, c.file>>
      /\ \A u \in Callers \ {t} : builtPath'[u] = builtPath[u]
      /\ view' = [u \in Callers |-> view'[u]]
      /\ builtPath' = [u \in Callers |-> builtPath'[u]]
  BY <1>1, <1>2 DEF FileInv, PathInv
<1>10. view[t] # Dangling => c.asked = <<directory, c.file>>
  <2>1. CASE view[t] = EmptyView
    BY <1>4, <2>1 DEF PathOK, Shown
  <2>2. CASE view[t] \in AllRoots
    <3>1. view[t] # EmptyView /\ view[t] # Dangling
      BY <2>2, ViewsDiffer
    <3>2. directory = rootMap[view[t]]
      BY <3>1 DEF Shown
    <3> QED
      BY <1>4, <2>2, <3>2 DEF PathOK
  <2> QED
    BY <1>2, <1>4, <2>1, <2>2 DEF PathOK
<1>11. PathOK(t)'
  <2>1. r.asked \in {builtPath'[t], Lost} /\ builtPath'[t] = <<directory, r.file>>
    BY <1>6, <1>9, <1>10
  <2>2. use'[t].at # "resolve"
    BY <1>2, <1>4
  <2> QED
    BY <1>6, <1>8, <1>9, <2>1, <2>2, ViewsDiffer DEF PathOK
<1>12. PathInv'
  BY <1>2, <1>8, <1>9, <1>11, OnePath DEF FileInv
<1> QED
  BY <1>3, <1>8, <1>12 DEF FileInv

(* The path is taken from where it was built.                              *)
LEMMA TakenPath ==
    ASSUME FileInv, NEW t \in Callers, Resolved(t), NEW r, ~Resolving(r),
           io' = [io EXCEPT ![t] = r], UNCHANGED <<rootMap, view, use>>
    PROVE  PathInv'
<1>1. use[t].at # "resolve" /\ view[t] = NoView /\ builtPath' = [builtPath EXCEPT ![t] = NoPath]
  BY DEF Resolved, Free
<1>2. io'[t] = r /\ \A u \in Callers \ {t} : io'[u] = io[u]
  BY DEF FileInv, FilesOK, IoInv
<1>3. /\ builtPath'[t] = NoPath /\ \A u \in Callers \ {t} : builtPath'[u] = builtPath[u]
      /\ builtPath' = [u \in Callers |-> builtPath'[u]]
      /\ view' = [u \in Callers |-> view'[u]]
  BY <1>1 DEF FileInv, PathInv
<1>4. PathOK(t)'
  BY <1>1, <1>2, <1>3, ViewsDiffer DEF PathOK
<1> QED
  BY <1>2, <1>3, <1>4, OnePath DEF FileInv

LEMMA OpenStepKeeps ==
    ASSUME FileInv, NEW t \in Callers, NEW root \in AllRoots, OpenStep(t, root)
    PROVE  FileInv'
<1>1. ASSUME NEW name \in FileNames, NEW mode \in Modes,
             BeginResolve(t, root, [at |-> "create", file |-> name, mode |-> mode,
                                    asked |-> Unasked])
      PROVE  FileInv'
  <2> DEFINE then == [at |-> "create", file |-> name, mode |-> mode, asked |-> Unasked]
  <2>1. Elsewhere(then) /\ Resolving(then)
    BY DEF Elsewhere, Resolving
  <2> HIDE DEF then
  <2> QED
    BY <1>1, <2>1, BeginResolveKeeps DEF then
<1>2. ASSUME NEW h \in Files, XCreateFileA(t, h)
      PROVE  FileInv'
  <2>1. FilesOK'
    BY <1>2, CreateFileKeeps DEF FileInv, ContentOK
  <2>2. ContentOK' /\ SearchInv'
    BY <1>2, SameContent, SameSearches DEF XCreateFileA, FileInv
  <2>3. PathInv'
    <3> DEFINE r == Free
    <3>1. ~Resolving(r) /\ io' = [io EXCEPT ![t] = r] /\ Resolved(t)
          /\ UNCHANGED <<rootMap, view, use>>
      BY <1>2 DEF XCreateFileA, Resolving, Free
    <3> HIDE DEF r
    <3> QED
      BY <3>1, TakenPath
  <2> QED
    BY <2>1, <2>2, <2>3 DEF FileInv
<1> QED
  BY <1>1, <1>2 DEF OpenStep, FileNames

LEMMA SearchStepKeeps ==
    ASSUME FileInv, NEW t \in Callers, NEW root \in AllRoots, SearchStep(t, root)
    PROVE  FileInv'
<1>1. ASSUME NEW p \in Patterns,
             BeginResolve(t, root, [at |-> "find", file |-> NameOf(p), pattern |-> p,
                                    asked |-> Unasked])
      PROVE  FileInv'
  <2> DEFINE then == [at |-> "find", file |-> NameOf(p), pattern |-> p, asked |-> Unasked]
  <2>1. p.all => NameOf(p) = ""
    BY DEF Patterns, NameOf, Suffix, NotFound
  <2>2. Elsewhere(then) /\ Resolving(then)
    BY <2>1 DEF Elsewhere, Resolving
  <2> HIDE DEF then
  <2> QED
    BY <1>1, <2>2, BeginResolveKeeps DEF then
<1>2. ASSUME NEW s \in Searches, XFindFirstFileA(t, s)
      PROVE  FileInv'
  <2>1. PICK r : Elsewhere(r) /\ ~Resolving(r) /\ io' = [io EXCEPT ![t] = r]
    BY <1>2, FindFirstKeeps DEF FileInv, ContentOK, FilesOK
  <2>2. SearchInv'
    BY <1>2, FindFirstKeeps DEF FileInv, ContentOK, FilesOK
  <2>3. UNCHANGED contentVars /\ UNCHANGED <<disk, stream>> /\ Resolved(t) /\ io[t].at = "find"
    BY <1>2 DEF XFindFirstFileA
  <2>4. ContentOK' /\ UNCHANGED <<rootMap, view, use>>
    BY <2>3, SameContent DEF contentVars, FileInv
  <2>5. Elsewhere(io[t])
    BY <2>3 DEF FileInv, FilesOK, IoInv, IoOK, CallOK, Places
  <2>6. FilesOK'
    BY <2>1, <2>3, <2>5, ElsewhereKeeps DEF FileInv
  <2>7. PathInv'
    BY <2>1, <2>3, <2>4, TakenPath
  <2> QED
    BY <2>2, <2>4, <2>6, <2>7 DEF FileInv
<1>3. ASSUME NEW s \in Searches, XFindNextFileA(t, s) \/ CloseSearch(t, s)
      PROVE  FileInv'
  <2>1. SearchInv'
    BY <1>3, FindNextKeeps, CloseSearchKeeps DEF FileInv
  <2>2. ContentOK'
    BY <1>3, SameContent DEF XFindNextFileA, CloseSearch, contentVars, FileInv
  <2>3. FilesOK'
    BY <1>3, SameFiles DEF XFindNextFileA, CloseSearch, FileInv
  <2>4. PathInv'
    <3>1. UNCHANGED <<rootMap, view, builtPath, use>> /\ io' = io
      BY <1>3 DEF XFindNextFileA, CloseSearch, contentVars
    <3> QED
      BY <3>1, PathsStay DEF FileInv
  <2> QED
    BY <2>1, <2>2, <2>3, <2>4 DEF FileInv
<1> QED
  BY <1>1, <1>2, <1>3 DEF SearchStep

(* A call on a stream leaves the rest alone.                               *)
LEMMA StreamsApart ==
    ASSUME FileInv, NEW t \in Callers, StreamStep(t)
    PROVE  /\ UNCHANGED <<contentVars, builtPath>> /\ UNCHANGED search
           /\ \A u \in Callers : io'[u] = io[u] \/ ~Resolving(io[u])
<1> DEFINE Separate == /\ UNCHANGED <<contentVars, builtPath>> /\ UNCHANGED search
                       /\ \A u \in Callers : io'[u] = io[u] \/ ~Resolving(io[u])
<1>1. io = [u \in Callers |-> io[u]]
  BY DEF FileInv, FilesOK, IoInv
<1>2. ASSUME ~Resolving(io[t]), UNCHANGED <<contentVars, builtPath, search>>,
             \E r : io' = [io EXCEPT ![t] = r]
      PROVE  Separate
  BY <1>1, <1>2
<1>3. ASSUME Clear(t) \/ Seek(t) \/ TestBad(t) \/ Read(t) \/ Return(t)
      PROVE  Separate
  <2>1. io[t].at \in Places \cup {"found nothing"}
    BY <1>3, Zenon DEF Clear, Seek, TestBad, Read, Return, Places
  <2>2. ~Resolving(io[t])
    BY <2>1 DEF Resolving, Places
  <2>3. UNCHANGED <<contentVars, builtPath, search>>
    BY <1>3, Zenon DEF Clear, Seek, TestBad, Read, Return
  <2>4. \E r : io' = [io EXCEPT ![t] = r]
    BY <1>3, Zenon DEF Clear, Seek, TestBad, Read, Return, Go
  <2> HIDE DEF Separate
  <2> QED
    BY <1>2, <2>2, <2>3, <2>4
<1>4. ASSUME NEW h, UNCHANGED <<contentVars, builtPath, search>>,
             \A u \in Callers \ {t} : io'[u] = io[u] \/ u \in Busy(h),
             io[t] = Free
      PROVE  Separate
  <2>1. \A u \in Busy(h) : ~Resolving(io[u])
    BY DEF Busy, Resolving
  <2>2. ~Resolving(io[t])
    BY <1>4 DEF Resolving, Free
  <2> QED
    BY <1>4, <2>1, <2>2
<1>5. ASSUME NEW h, NEW place, NEW offset, NEW n, BeginIo(t, h, place, offset, n)
      PROVE  Separate
  <2>1. UNCHANGED <<contentVars, builtPath, search>> /\ io[t] = Free
    BY <1>5 DEF BeginIo
  <2>2. \A u \in Callers \ {t} : io'[u] = io[u] \/ u \in Busy(h)
    BY <1>5 DEF BeginIo
  <2> HIDE DEF Separate
  <2> QED
    BY <1>4, <2>1, <2>2
<1>6. ASSUME NEW h, Whole(t, h)
      PROVE  Separate
  <2>1. UNCHANGED <<contentVars, builtPath, search>> /\ io[t] = Free
    BY <1>6 DEF Whole
  <2>2. \A u \in Callers \ {t} : io'[u] = io[u] \/ u \in Busy(h)
    BY <1>6 DEF Whole
  <2> HIDE DEF Separate
  <2> QED
    BY <1>4, <2>1, <2>2
<1>7. ASSUME NEW h, Flush(h) \/ CloseFile(t, h)
      PROVE  Separate
  BY <1>7 DEF Flush, CloseFile
<1> HIDE DEF Separate
<1>8. ASSUME NEW h, NEW offset, NEW n, XReadFileEx(t, h, offset, n) \/ XReadFile(t, h, n)
      PROVE  Separate
  BY <1>5, <1>8 DEF XReadFileEx, XReadFile
<1>9. ASSUME NEW h, NEW origin, NEW distance, SetFilePointer(t, h, origin, distance)
      PROVE  Separate
  <2>1. Whole(t, h)
    BY <1>9, Zenon DEF SetFilePointer
  <2> QED
    BY <1>6, <2>1
<1>10. ASSUME NEW h, NEW n, XWriteFile(t, h, n)
       PROVE  Separate
  <2>1. Whole(t, h)
    BY <1>10, Zenon DEF XWriteFile
  <2> QED
    BY <1>6, <2>1
<1>11. Separate
  BY <1>3, <1>7, <1>8, <1>9, <1>10, Zenon DEF StreamStep, XSetFilePointer, XSetFilePointerEx
<1> QED
  BY <1>11 DEF Separate

LEMMA StreamStepKeeps ==
    ASSUME FileInv, NEW t \in Callers, StreamStep(t)
    PROVE  FileInv'
<1>1. /\ UNCHANGED <<contentVars, builtPath>> /\ UNCHANGED search
      /\ \A u \in Callers : io'[u] = io[u] \/ ~Resolving(io[u])
  BY StreamsApart
<1>2. ContentOK'
  BY <1>1, SameContent DEF contentVars, FileInv
<1>3. FilesOK'
  <2>1. FilesOK
    BY DEF FileInv
  <2> QED
    BY <2>1, ClearKeeps, SeekKeeps, TestBadKeeps, ReadKeeps, ReturnKeeps, ReadFileExKeeps,
       ReadFileKeeps, SetFilePointerKeeps, WriteFileKeeps, FlushKeeps, CloseFileKeeps
       DEF StreamStep, XSetFilePointer, XSetFilePointerEx
<1>4. PathInv'
  BY <1>1, PathsStay DEF contentVars, FileInv
<1> QED
  BY <1>1, <1>2, <1>3, <1>4, SameSearches DEF FileInv

LEMMA FileInvIsInductive ==
    ASSUME FileInv, [FileNext]_<<contentVars, fileVars>>
    PROVE  FileInv'
<1>1. CASE UNCHANGED <<contentVars, fileVars>>
  <2>1. ContentOK'
    BY <1>1, SameContent DEF contentVars, FileInv
  <2>2. SearchInv' /\ FilesOK'
    BY <1>1, SameSearches, SameFiles DEF fileVars, FileInv
  <2>3. PathInv'
    BY <1>1, PathsStay DEF contentVars, fileVars, FileInv
  <2> QED
    BY <2>1, <2>2, <2>3 DEF FileInv
<1>2. CASE FileNext
  BY <1>2, ContentStepKeeps, OpenStepKeeps, SearchStepKeeps, StreamStepKeeps,
     LookUpRootKeeps, BuildPathKeeps DEF FileNext, ResolveStep
<1> QED
  BY <1>1, <1>2

LEMMA FilesAreSound == FileSpec => []FileInv
  BY StartupIsSound, FileInvIsInductive, PTL DEF FileSpec

-----------------------------------------------------------------------------
LEMMA ReadsAreTrue ==
    ASSUME FilesOK
    PROVE  ReadsReturnTheFile
<1>1. ASSUME NEW t \in Callers, io[t].at = "done", io[t].ok, ~io[t].mixed, io[t].offset >= 0,
             stream[io[t].file].mode # "write"
      PROVE  LET bytes == stream[io[t].file].bytes
                 last == io[t].offset + io[t].n
             IN  io[t].data = SubSeq(bytes, io[t].offset + 1,
                                     IF last < Len(bytes) THEN last ELSE Len(bytes))
  <2>1. Alone(io[t], stream[io[t].file])
    BY <1>1, TheCall DEF Places
  <2> QED
    BY <1>1, <2>1, Zenon DEF Alone, TheBytes
<1>2. ASSUME NEW h \in Files, stream[h] # Free, ~stream[h].dirty
      PROVE  XGetFileSizeA(h) = Len(stream[h].bytes)
  BY <1>2 DEF FilesOK, StreamsOK, XGetFileSizeA
<1> QED
  BY <1>1, <1>2, Zenon DEF ReadsReturnTheFile

(* However calls overlap that open and close roots, a file that is open is *)
(* the one that its opener asked for (resolve_path, XCreateFileA): its     *)
(* name in the directory that its root led to at the look-up, unless that  *)
(* root was closed before the text was copied (XamContentClose).           *)
THEOREM FilesAreTheOnesAskedFor == FileSpec => []FilesAreWhereTheirRootsLed
<1>1. FileInv => FilesAreWhereTheirRootsLed
  BY DEF FileInv, FilesOK, StreamsOK, StreamOK, FilesAreWhereTheirRootsLed
<1> QED
  BY <1>1, FilesAreSound, PTL

(* A read that no other call on the file overlaps returns the file's bytes *)
(* from its offset (XReadFile, XReadFileEx), whatever failed before; and   *)
(* the host's size of a file without waiting bytes is its own.             *)
THEOREM ReadsAreWhole == FileSpec => []ReadsReturnTheFile
<1>1. FileInv => ReadsReturnTheFile
  BY ReadsAreTrue DEF FileInv
<1> QED
  BY <1>1, FilesAreSound, PTL

(* Searches return the names in the directory asked for, each once, and    *)
(* say that there are no more only when they have (XFindFirstFileA,        *)
(* XFindNextFileA); enumerators return the packages there were when they   *)
(* were made, each once, whatever is registered meanwhile, unless that     *)
(* changed the order of those (XamEnumerate, XamRegisterContent).          *)
THEOREM ListingsAreWhole == FileSpec => []ListingsAreComplete
<1>1. FileInv => ListingsAreComplete
  BY ListingsComplete DEF FileInv, ContentOK, FilesOK
<1> QED
  BY <1>1, FilesAreSound, PTL

-----------------------------------------------------------------------------
(* Kernel objects.                                                         *)
Making(h) == \E t \in Threads : pc[t] \in {"create", "link"} /\ subject[t] = h

HeaderInv ==
    \A h \in Headers : blink[h] # None =>
        /\ heap[blink[h]] # "free"
        /\ blink[h] \notin handles
        /\ \A g \in Headers : blink[g] = blink[h] => g = h

CompleteInv ==
    \A h \in Headers : signed[h] /\ ~Making(h) =>
        blink[h] # None /\ (h \notin stale => heap[blink[h]] = type[h])

CallInv ==
    \A t \in Threads :
        /\ pc[t] = "guest" => subject[t] = None
        /\ pc[t] \in InQuery => subject[t] # None
        /\ subject[t] # None => class[t] = type[subject[t]]
        /\ pc[t] \in {"create", "link"} => signed[subject[t]]
        /\ pc[t] = "link" =>
             /\ object[t] # None
             /\ heap[object[t]] = class[t]
             /\ object[t] \notin handles
             /\ \A g \in Headers : blink[g] # object[t]
        /\ pc[t] \in {"leave", "use"} /\ subject[t] # None =>
             /\ signed[subject[t]] /\ ~Making(subject[t])
             /\ object[t] = blink[subject[t]]

HandleInv ==
    /\ \A b \in handles : heap[b] # "free"
    /\ \A t \in Threads : pc[t] = "use" /\ subject[t] = None =>
         /\ object[t] # None
         /\ t \notin pulled => object[t] \in handles /\ heap[object[t]] = class[t]

IInv == TypeOK /\ HeaderInv /\ CompleteInv /\ CallInv /\ HandleInv

USE NoneAssumption DEF Locations, InLock, InQuery, Classes, guestMemory

LEMMA InitIInv == Init => IInv
<1> SUFFICES ASSUME Init PROVE IInv
  OBVIOUS
<1>1. signed \in [Headers -> BOOLEAN] /\ \A h \in Headers : ~signed[h]
  BY Zenon DEF Init
<1>2. TypeOK
  BY <1>1 DEF Init, TypeOK
<1>3. HeaderInv /\ CallInv /\ HandleInv
  BY DEF Init, HeaderInv, CallInv, HandleInv
<1>4. CompleteInv
  BY <1>1 DEF CompleteInv
<1> QED
  BY <1>2, <1>3, <1>4 DEF IInv

LEMMA NextTypeOK == IInv /\ [Next]_vars => TypeOK'
<1> SUFFICES ASSUME IInv, [Next]_vars PROVE TypeOK'
  OBVIOUS
<1> USE DEF IInv, TypeOK, CallInv, Goto, Query
<1>1. ASSUME NEW h \in Headers, InitializeEvent(h) PROVE TypeOK'
  BY <1>1 DEF InitializeEvent
<1>2. ASSUME NEW t \in Threads, NEW h \in Headers, InitializeSemaphore(t, h) PROVE TypeOK'
  BY <1>2 DEF InitializeSemaphore
<1>3. ASSUME NEW t \in Threads, NEW h \in Headers, CallOnHeader(t, h) PROVE TypeOK'
  BY <1>3 DEF CallOnHeader
<1>4. ASSUME NEW t \in Threads, Enter(t) \/ Leave(t) PROVE TypeOK'
  BY <1>4 DEF Enter, Leave
<1>5. ASSUME NEW t \in Threads, FindSigned(t) PROVE TypeOK'
  BY <1>5 DEF FindSigned
<1>6. ASSUME NEW t \in Threads, Sign(t) PROVE TypeOK'
  BY <1>6 DEF Sign
<1>7. ASSUME NEW t \in Threads, Create(t) PROVE TypeOK'
  BY <1>7 DEF Create
<1>8. ASSUME NEW t \in Threads, Link(t) PROVE TypeOK'
  BY <1>8 DEF Link
<1>9. ASSUME NEW t \in Threads, WaitReturns(t) PROVE TypeOK'
  BY <1>9 DEF WaitReturns
<1>10. ASSUME NEW t \in Threads, NEW T \in Classes, CreateHandle(t, T) PROVE TypeOK'
  BY <1>10 DEF CreateHandle
<1>11. ASSUME NEW t \in Threads, NEW b \in Blocks, CallOnHandle(t, b) PROVE TypeOK'
  BY <1>11 DEF CallOnHandle, HandleInv
<1>12. ASSUME NEW t \in Threads, NEW b \in Blocks, Close(t, b) PROVE TypeOK'
  BY <1>12 DEF Close
<1>13. CASE UNCHANGED vars
  BY <1>13 DEF vars, guestMemory
<1> QED
  BY <1>1, <1>2, <1>3, <1>4, <1>5, <1>6, <1>7, <1>8, <1>9, <1>10, <1>11, <1>12, <1>13
     DEF Next

LEMMA NextHeaderInv == IInv /\ [Next]_vars => HeaderInv'
<1> SUFFICES ASSUME IInv, [Next]_vars PROVE HeaderInv'
  OBVIOUS
<1> USE DEF IInv, TypeOK, HeaderInv, CallInv, HandleInv, Goto, Query, Queried
<1>1. ASSUME NEW h \in Headers, InitializeEvent(h) PROVE HeaderInv'
  BY <1>1 DEF InitializeEvent
<1>2. ASSUME NEW t \in Threads, NEW h \in Headers, InitializeSemaphore(t, h) PROVE HeaderInv'
  BY <1>2 DEF InitializeSemaphore
<1>3. ASSUME NEW t \in Threads, NEW h \in Headers, CallOnHeader(t, h) PROVE HeaderInv'
  BY <1>3 DEF CallOnHeader
<1>4. ASSUME NEW t \in Threads, Enter(t) PROVE HeaderInv'
  BY <1>4 DEF Enter
<1>5. ASSUME NEW t \in Threads, Leave(t) PROVE HeaderInv'
  BY <1>5 DEF Leave
<1>6. ASSUME NEW t \in Threads, FindSigned(t) PROVE HeaderInv'
  BY <1>6 DEF FindSigned
<1>7. ASSUME NEW t \in Threads, Sign(t) PROVE HeaderInv'
  BY <1>7 DEF Sign
<1>8. ASSUME NEW t \in Threads, Create(t) PROVE HeaderInv'
  BY <1>8 DEF Create
<1>9. ASSUME NEW t \in Threads, Link(t) PROVE HeaderInv'
  BY <1>9 DEF Link
<1>10. ASSUME NEW t \in Threads, WaitReturns(t) PROVE HeaderInv'
  BY <1>10 DEF WaitReturns
<1>11. ASSUME NEW t \in Threads, NEW T \in Classes, CreateHandle(t, T) PROVE HeaderInv'
  BY <1>11 DEF CreateHandle
<1>12. ASSUME NEW t \in Threads, NEW b \in Blocks, CallOnHandle(t, b) PROVE HeaderInv'
  BY <1>12 DEF CallOnHandle
<1>13. ASSUME NEW t \in Threads, NEW b \in Blocks, Close(t, b) PROVE HeaderInv'
  BY <1>13 DEF Close
<1>14. CASE UNCHANGED vars
  BY <1>14 DEF vars
<1> QED
  BY <1>1, <1>2, <1>3, <1>4, <1>5, <1>6, <1>7, <1>8, <1>9,
     <1>10, <1>11, <1>12, <1>13, <1>14 DEF Next

LEMMA NextCallInv == IInv /\ [Next]_vars => CallInv'
<1> SUFFICES ASSUME IInv, [Next]_vars PROVE CallInv'
  OBVIOUS
<1> USE DEF IInv, TypeOK, HeaderInv, CallInv, HandleInv, CompleteInv, Making, Goto, Query, Queried
<1>1. ASSUME NEW h \in Headers, InitializeEvent(h) PROVE CallInv'
  BY <1>1 DEF InitializeEvent
<1>2. ASSUME NEW t \in Threads, NEW h \in Headers, InitializeSemaphore(t, h) PROVE CallInv'
  BY <1>2 DEF InitializeSemaphore
<1>3. ASSUME NEW t \in Threads, NEW h \in Headers, CallOnHeader(t, h) PROVE CallInv'
  BY <1>3 DEF CallOnHeader
<1>4. ASSUME NEW t \in Threads, Enter(t) PROVE CallInv'
  BY <1>4 DEF Enter
<1>5. ASSUME NEW t \in Threads, Leave(t) PROVE CallInv'
  BY <1>5 DEF Leave
<1>6. ASSUME NEW t \in Threads, FindSigned(t) PROVE CallInv'
  BY <1>6 DEF FindSigned
<1>7. ASSUME NEW t \in Threads, Sign(t) PROVE CallInv'
  BY <1>7 DEF Sign
<1>8. ASSUME NEW t \in Threads, Create(t) PROVE CallInv'
  BY <1>8 DEF Create
<1>9. ASSUME NEW t \in Threads, Link(t) PROVE CallInv'
  BY <1>9 DEF Link
<1>10. ASSUME NEW t \in Threads, WaitReturns(t) PROVE CallInv'
  BY <1>10 DEF WaitReturns
<1>11. ASSUME NEW t \in Threads, NEW T \in Classes, CreateHandle(t, T) PROVE CallInv'
  BY <1>11 DEF CreateHandle
<1>12. ASSUME NEW t \in Threads, NEW b \in Blocks, CallOnHandle(t, b) PROVE CallInv'
  BY <1>12 DEF CallOnHandle
<1>13. ASSUME NEW t \in Threads, NEW b \in Blocks, Close(t, b) PROVE CallInv'
  BY <1>13 DEF Close
<1>14. CASE UNCHANGED vars
  BY <1>14 DEF vars
<1> QED
  BY <1>1, <1>2, <1>3, <1>4, <1>5, <1>6, <1>7, <1>8, <1>9,
     <1>10, <1>11, <1>12, <1>13, <1>14 DEF Next

LEMMA NextHandleInv == IInv /\ [Next]_vars => HandleInv'
<1> SUFFICES ASSUME IInv, [Next]_vars PROVE HandleInv'
  OBVIOUS
<1> USE DEF IInv, TypeOK, HeaderInv, CallInv, HandleInv, Goto, Query, Queried
<1>1. ASSUME NEW h \in Headers, InitializeEvent(h) PROVE HandleInv'
  BY <1>1 DEF InitializeEvent
<1>2. ASSUME NEW t \in Threads, NEW h \in Headers, InitializeSemaphore(t, h) PROVE HandleInv'
  BY <1>2 DEF InitializeSemaphore
<1>3. ASSUME NEW t \in Threads, NEW h \in Headers, CallOnHeader(t, h) PROVE HandleInv'
  BY <1>3 DEF CallOnHeader
<1>4. ASSUME NEW t \in Threads, Enter(t) PROVE HandleInv'
  BY <1>4 DEF Enter
<1>5. ASSUME NEW t \in Threads, Leave(t) PROVE HandleInv'
  BY <1>5 DEF Leave
<1>6. ASSUME NEW t \in Threads, FindSigned(t) PROVE HandleInv'
  BY <1>6 DEF FindSigned
<1>7. ASSUME NEW t \in Threads, Sign(t) PROVE HandleInv'
  BY <1>7 DEF Sign
<1>8. ASSUME NEW t \in Threads, Create(t) PROVE HandleInv'
  BY <1>8 DEF Create
<1>9. ASSUME NEW t \in Threads, Link(t) PROVE HandleInv'
  BY <1>9 DEF Link
<1>10. ASSUME NEW t \in Threads, WaitReturns(t) PROVE HandleInv'
  BY <1>10 DEF WaitReturns
<1>11. ASSUME NEW t \in Threads, NEW T \in Classes, CreateHandle(t, T) PROVE HandleInv'
  BY <1>11 DEF CreateHandle
<1>12. ASSUME NEW t \in Threads, NEW b \in Blocks, CallOnHandle(t, b) PROVE HandleInv'
  BY <1>12 DEF CallOnHandle
<1>13. ASSUME NEW t \in Threads, NEW b \in Blocks, Close(t, b) PROVE HandleInv'
  BY <1>13 DEF Close
<1>14. CASE UNCHANGED vars
  BY <1>14 DEF vars
<1> QED
  BY <1>1, <1>2, <1>3, <1>4, <1>5, <1>6, <1>7, <1>8, <1>9,
     <1>10, <1>11, <1>12, <1>13, <1>14 DEF Next

LEMMA NextCompleteInv == IInv /\ [Next]_vars => CompleteInv'
<1> SUFFICES ASSUME IInv, [Next]_vars PROVE CompleteInv'
  OBVIOUS
<1> USE DEF IInv, TypeOK, HeaderInv, CallInv, HandleInv, CompleteInv, Making, Goto, Query, Queried
<1>1. ASSUME NEW h \in Headers, InitializeEvent(h) PROVE CompleteInv'
  BY <1>1 DEF InitializeEvent
<1>2. ASSUME NEW t \in Threads, NEW h \in Headers, InitializeSemaphore(t, h) PROVE CompleteInv'
  BY <1>2 DEF InitializeSemaphore
<1>3. ASSUME NEW t \in Threads, NEW h \in Headers, CallOnHeader(t, h) PROVE CompleteInv'
  BY <1>3 DEF CallOnHeader
<1>4. ASSUME NEW t \in Threads, Enter(t) PROVE CompleteInv'
  BY <1>4 DEF Enter
<1>5. ASSUME NEW t \in Threads, Leave(t) PROVE CompleteInv'
  BY <1>5 DEF Leave
<1>6. ASSUME NEW t \in Threads, FindSigned(t) PROVE CompleteInv'
  BY <1>6 DEF FindSigned
<1>7. ASSUME NEW t \in Threads, Sign(t) PROVE CompleteInv'
  BY <1>7 DEF Sign
<1>8. ASSUME NEW t \in Threads, Create(t) PROVE CompleteInv'
  BY <1>8 DEF Create
<1>9. ASSUME NEW t \in Threads, Link(t) PROVE CompleteInv'
  BY <1>9 DEF Link
<1>10. ASSUME NEW t \in Threads, WaitReturns(t) PROVE CompleteInv'
  BY <1>10 DEF WaitReturns
<1>11. ASSUME NEW t \in Threads, NEW T \in Classes, CreateHandle(t, T) PROVE CompleteInv'
  BY <1>11 DEF CreateHandle
<1>12. ASSUME NEW t \in Threads, NEW b \in Blocks, CallOnHandle(t, b) PROVE CompleteInv'
  BY <1>12 DEF CallOnHandle
<1>13. ASSUME NEW t \in Threads, NEW b \in Blocks, Close(t, b) PROVE CompleteInv'
  BY <1>13 DEF Close
<1>14. CASE UNCHANGED vars
  BY <1>14 DEF vars
<1> QED
  BY <1>1, <1>2, <1>3, <1>4, <1>5, <1>6, <1>7, <1>8, <1>9,
     <1>10, <1>11, <1>12, <1>13, <1>14 DEF Next

LEMMA SpecIInv == Spec => []IInv
<1>1. IInv /\ [Next]_vars => IInv'
  BY NextTypeOK, NextHeaderInv, NextCallInv, NextHandleInv, NextCompleteInv DEF IInv
<1> QED
  BY InitIInv, <1>1, PTL DEF Spec

-----------------------------------------------------------------------------
(* Every variable keeps its type, and GLOBAL_KERNEL_LOCK is held by just   *)
(* the thread that is between its lock and its unlock.                     *)
THEOREM TypeCorrect == Spec => []TypeOK
<1>1. IInv => TypeOK
  BY DEF IInv
<1> QED
  BY <1>1, SpecIInv, PTL

(* QueryKernelObject makes one object for a header, however many threads   *)
(* call on it first.                                                       *)
THEOREM OneObject == Spec => []OneObjectPerHeader
<1>1. IInv => OneObjectPerHeader
  BY DEF IInv, CallInv, OneObjectPerHeader
<1> QED
  BY <1>1, SpecIInv, PTL

(* NtClose never destroys the object of a header, and no two headers meet  *)
(* in one object, although blocks are used again.                          *)
THEOREM Ownership == Spec => []HeadersOwnTheirObjects
<1>1. ASSUME IInv PROVE HeadersOwnTheirObjects
  <2> SUFFICES ASSUME NEW h \in Headers, signed[h], lock # None => subject[lock] # h
               PROVE  /\ blink[h] \in Blocks
                      /\ heap[blink[h]] # "free"
                      /\ blink[h] \notin handles
                      /\ \A g \in Headers : signed[g] /\ blink[g] = blink[h] => g = h
    BY DEF HeadersOwnTheirObjects
  <2>1. ~Making(h)
    BY <1>1 DEF IInv, TypeOK, Making
  <2> QED
    BY <1>1, <2>1 DEF IInv, TypeOK, HeaderInv, CompleteInv
<1> QED
  BY <1>1, SpecIInv, PTL

(* What the guest must do for a call to meet a destroyed object or one of  *)
(* another class: close a handle in use, or initialise a semaphore where   *)
(* an object's signature is.                                               *)
THEOREM CallsFit == Spec => []CallsFitTheirObjects
<1>1. IInv => CallsFitTheirObjects
  BY DEF IInv, TypeOK, CompleteInv, CallInv, HandleInv, CallsFitTheirObjects
<1> QED
  BY <1>1, SpecIInv, PTL

-----------------------------------------------------------------------------
(* The title database.                                                     *)
LEMMA MinIsLeast ==
    ASSUME NEW S \in SUBSET Nat, S # {}
    PROVE  Min(S) \in S /\ \A x \in S : Min(S) <= x
<1>1. \E x \in S : \A y \in S : x <= y
  BY LeastNumber
<1> QED
  BY <1>1 DEF Min

(* The walk over a block of texts meets each where its maker put it.       *)
LEMMA WalkMeetsTexts ==
    ASSUME NEW data \in Nat, NEW texts, NEW resource, resource.buffer = data,
           DOMAIN texts = 1 .. Len(texts), Len(texts) \in Nat,
           HoldsTexts(database, data, texts)
    PROVE  StringEntries(resource) = [i \in DOMAIN texts |-> data + texts[i].start]
<1> DEFINE n == Len(texts)
           Walk(f) == [i \in 1 .. n |-> IF i = 1 THEN data + XSTRHeaderSize
                                        ELSE f[i - 1] + EntryAndString(Bytes(f[i - 1]))]
           g == [i \in 1 .. n |-> data + texts[i].start]
           f == CHOOSE f : f = Walk(f)
<1>1. StringEntries(resource) = f
  <2>1. Bytes(resource.buffer).count = n
    BY DEF HoldsTexts, Bytes
  <2> QED
    BY <2>1 DEF StringEntries
<1>2. ASSUME NEW i \in 1 .. n
      PROVE  /\ texts[i].start \in Nat /\ texts[i].length \in Nat
             /\ texts[i].start = IF i = 1 THEN XSTRHeaderSize
                                 ELSE texts[i - 1].start + XSTREntrySize + texts[i - 1].length
             /\ Bytes(data + texts[i].start).length = texts[i].length
  BY DEF HoldsTexts, Bytes
<1>3. ASSUME NEW h, NEW i \in 1 .. n, i # 1, h[i - 1] = data + texts[i - 1].start
      PROVE  Walk(h)[i] = data + texts[i].start
  <2>1. i - 1 \in 1 .. n
    BY <1>3
  <2>2. Bytes(data + texts[i - 1].start).length = texts[i - 1].length
    BY <1>2, <2>1
  <2>3. Walk(h)[i] = data + texts[i - 1].start + (XSTREntrySize + texts[i - 1].length)
    BY <1>3, <2>2 DEF EntryAndString
  <2>4. texts[i].start = texts[i - 1].start + XSTREntrySize + texts[i - 1].length
    BY <1>2, <1>3
  <2>5. texts[i - 1].start \in Nat /\ texts[i - 1].length \in Nat
    BY <1>2, <2>1
  <2> DEFINE a == texts[i - 1].start
             b == texts[i - 1].length
             w == Walk(h)[i]
  <2>6. w = data + a + (4 + b) /\ texts[i].start = a + 4 + b /\ a \in Nat /\ b \in Nat
    BY <2>3, <2>4, <2>5 DEF XSTREntrySize
  <2> HIDE DEF Walk, a, b, w
  <2>7. data + a + (4 + b) = data + (a + 4 + b)
    BY <2>6
  <2>8. w = data + texts[i].start
    BY <2>6, <2>7
  <2> QED
    BY <2>8 DEF w
<1>4. \A h : 1 \in 1 .. n => Walk(h)[1] = data + texts[1].start
  BY <1>2
<1>5. g = Walk(g)
  <2>1. ASSUME NEW i \in 1 .. n PROVE g[i] = Walk(g)[i]
    <3>1. CASE i = 1
      BY <1>4, <3>1
    <3>2. CASE i # 1
      <4>1. g[i - 1] = data + texts[i - 1].start
        BY <3>2
      <4> QED
        BY <1>3, <3>2, <4>1
    <3> QED
      BY <3>1, <3>2
  <2> QED
    BY <2>1
<1>6. f = Walk(f)
  BY <1>5
<1> HIDE DEF f, g
<1>7. \A i \in 1 .. n : f[i] = data + texts[i].start
  <2> DEFINE S == {k \in Nat : k \in 1 .. n => f[k] = data + texts[k].start}
  <2>1. 0 \in S
    OBVIOUS
  <2>2. ASSUME NEW k \in S PROVE k + 1 \in S
    <3> SUFFICES ASSUME k + 1 \in 1 .. n PROVE f[k + 1] = data + texts[k + 1].start
      OBVIOUS
    <3>1. CASE k = 0
      <4>1. Walk(f)[1] = data + texts[1].start
        BY <1>4, <3>1
      <4> QED
        BY <1>6, <3>1, <4>1
    <3>2. CASE k # 0
      <4> DEFINE i == k + 1
      <4>1. i \in 1 .. n /\ i # 1 /\ i - 1 = k /\ k \in 1 .. n
        BY <3>2
      <4> HIDE DEF i
      <4>2. f[i - 1] = data + texts[i - 1].start
        BY <4>1
      <4>3. Walk(f)[i] = data + texts[i].start
        BY <1>3, <4>1, <4>2
      <4>4. f[i] = data + texts[i].start
        BY <1>6, <4>3
      <4> QED
        BY <4>4 DEF i
    <3> QED
      BY <3>1, <3>2
  <2> HIDE DEF S
  <2>3. S = Nat
    BY <2>1, <2>2, SetInduction DEF S
  <2> QED
    BY <2>3 DEF S
<1> HIDE DEF Walk
<1>8. f = [i \in 1 .. n |-> f[i]]
  BY <1>6 DEF Walk
<1> QED
  BY <1>1, <1>7, <1>8

(* What GetResource finds in a file of the format.                         *)
Kept == /\ IsXDBF(database) /\ IsFull(database) /\ WellMade(database)
        /\ wrapper.content = Content(database)

LEMMA DataType ==
    ASSUME Kept, NEW i \in Table(database)
    PROVE  Data(database, i) \in Nat /\ Data(database, i) # 0
<1>1. RecordAt(database, 0).entryTableLength \in Nat /\ RecordAt(database, 0).freeSpaceTableLength \in Nat
      /\ Entry(database, i).offset \in Nat
  BY DEF Kept, WellMade
<1> QED
  BY <1>1 DEF Data, Content, HeaderSize, EntrySize, FreeSpaceEntrySize

(* A resource is found by its name, which is given once.                   *)
LEMMA ResourceIsFound ==
    ASSUME Kept, NEW ns, NEW id, NEW i \in Table(database),
           Entry(database, i).ns = ns, Entry(database, i).id = id
    PROVE  GetResource(ns, id) = [buffer |-> Data(database, i), size |-> Entry(database, i).length]
<1> DEFINE found == {j \in Table(database) : Entry(database, j).ns = ns /\ Entry(database, j).id = id}
<1>1. found = {i}
  BY DEF Kept, WellMade
<1>2. RecordAt(database, 0).entryCount \in Nat
  BY DEF Kept, WellMade
<1>3. i \in Nat
  BY <1>2 DEF Table
<1>4. Min(found) = i
  <2>1. Min({i}) \in {i}
    BY <1>3, MinIsLeast
  <2> QED
    BY <1>1, <2>1
<1> QED
  BY <1>1, <1>4 DEF GetResource, Kept, Data

LEMMA ResourceIsMissing ==
    ASSUME NEW ns, NEW id, id \notin Ids(database, ns)
    PROVE  GetResource(ns, id) = NoResource
BY DEF GetResource, Ids

(* A text is returned as its maker wrote it.                               *)
LEMMA StringsAreFound ==
    ASSUME Kept, NEW language, NEW id
    PROVE  GetString(language, id) = Text(database, language, id)
<1> DEFINE resource == GetResource("STRING_TABLE", language)
           strings == database.meaning.strings
<1>1. DOMAIN strings = Ids(database, "STRING_TABLE")
  BY DEF Kept, WellMade
<1>2. CASE language \notin DOMAIN strings
  <2>1. resource = NoResource
    BY <1>1, <1>2, ResourceIsMissing
  <2>2. GetString(language, id) = ""
    BY <2>1 DEF GetString
  <2>3. Text(database, language, id) = ""
    <3>1. \A e \in {<<>>} : DOMAIN e = {} /\ {i \in DOMAIN e : e[i].id = id} = {}
      OBVIOUS
    <3> QED
      BY <1>2, <3>1 DEF Text
  <2> QED
    BY <2>2, <2>3
<1>3. CASE language \in DOMAIN strings
  <2> DEFINE texts == strings[language]
             entries == StringEntries(resource)
  <2>1. PICK i \in Table(database) : Entry(database, i).ns = "STRING_TABLE" /\ Entry(database, i).id = language
    BY <1>1, <1>3 DEF Ids
  <2> DEFINE data == Data(database, i)
  <2>2. data \in Nat /\ data # 0
    BY DataType
  <2>3. resource = [buffer |-> data, size |-> Entry(database, i).length]
    BY <2>1, ResourceIsFound
  <2>4. HoldsTexts(database, data, texts)
    BY <2>1 DEF Kept, WellMade
  <2>5. DOMAIN texts = 1 .. Len(texts) /\ Len(texts) \in Nat
    BY <1>3 DEF Kept, WellMade
  <2>6. resource.buffer = data /\ resource # NoResource
    BY <2>2, <2>3 DEF NoResource
  <2> HIDE DEF data, texts, resource
  <2>7. entries = [j \in DOMAIN texts |-> data + texts[j].start]
    BY <2>2, <2>4, <2>5, <2>6, WalkMeetsTexts
  <2>8. ASSUME NEW j \in DOMAIN texts
        PROVE  /\ entries[j] = data + texts[j].start
               /\ Bytes(entries[j]).id = texts[j].id /\ Bytes(entries[j]).length = texts[j].length
               /\ texts[j].length = 0 => texts[j].string = ""
               /\ texts[j].length # 0 => Bytes(entries[j] + XSTREntrySize).string = texts[j].string
    <3>1. entries[j] = data + texts[j].start
      BY <2>7
    <3> HIDE DEF entries
    <3> QED
      BY <2>4, <3>1 DEF HoldsTexts, Bytes
  <2> DEFINE found == {j \in DOMAIN entries : Bytes(entries[j]).id = id}
             meant == {j \in DOMAIN texts : texts[j].id = id}
  <2>9. found = meant
    <3>1. DOMAIN entries = DOMAIN texts
      BY <2>7
    <3> HIDE DEF entries
    <3> QED
      BY <2>8, <3>1
  <2>10. Text(database, language, id) = IF meant = {} THEN "" ELSE texts[Min(meant)].string
    BY <1>3 DEF Text, texts
  <2>11. GetString(language, id) =
           IF found = {} \/ Bytes(entries[Min(found)]).length = 0 THEN ""
           ELSE Bytes(entries[Min(found)] + XSTREntrySize).string
    BY <2>6 DEF GetString, resource
  <2>12. CASE meant # {}
    <3>1. Min(meant) \in DOMAIN texts
      <4>1. meant \in SUBSET Nat /\ meant \subseteq DOMAIN texts
      BY <2>5
    <4> QED
      BY <2>12, <4>1, MinIsLeast
    <3> HIDE DEF entries, found, meant
    <3> QED
      BY <2>8, <2>9, <2>10, <2>11, <2>12, <3>1
  <2> HIDE DEF entries, found, meant
  <2> QED
    BY <2>9, <2>10, <2>11, <2>12
<1> QED
  BY <1>2, <1>3

(* So is an achievement, with its strings and its image.                   *)
LEMMA AchievementsAreRead ==
    ASSUME Kept, NEW entry, NEW meant, NEW language,
           \A field \in {"id", "score", "name", "unlocked", "locked", "image"} : entry[field] = meant[field]
    PROVE  Same(database, Achievement(entry, language), meant, language)
<1> DEFINE got == Achievement(entry, language)
<1>1. \A field \in {"id", "score", "name", "unlocked", "locked"} : got[field] = Meant(database, meant, language)[field]
  BY StringsAreFound DEF Achievement, Meant
<1>2. got.image = GetResource("IMAGE", meant.image)
  BY DEF Achievement
<1> HIDE DEF got
<1>3. DOMAIN database.meaning.images = Ids(database, "IMAGE")
  BY DEF Kept, WellMade
<1>4. CASE meant.image \in DOMAIN database.meaning.images
  <2>1. PICK i \in Table(database) : Entry(database, i).ns = "IMAGE" /\ Entry(database, i).id = meant.image
    BY <1>3, <1>4 DEF Ids
  <2>2. got.image = [buffer |-> Data(database, i), size |-> Entry(database, i).length]
    BY <1>2, <2>1, ResourceIsFound
  <2>3. RecordAt(database, Data(database, i)).image = database.meaning.images[meant.image]
    BY <2>1 DEF Kept, WellMade
  <2>4. RecordAt(database, got.image.buffer).image = database.meaning.images[meant.image]
    BY <2>2, <2>3
  <2> QED
    BY <1>1, <1>4, <2>4 DEF Same, got
<1>5. CASE meant.image \notin DOMAIN database.meaning.images
  <2>1. got.image = NoResource
    BY <1>2, <1>3, <1>5, ResourceIsMissing
  <2> QED
    BY <1>1, <1>5, <2>1 DEF Same, got
<1> QED
  BY <1>4, <1>5

(* The entries that are walked over are the maker's achievements.          *)
LEMMA EntriesAreAchievements ==
    ASSUME Kept
    PROVE  /\ DOMAIN AchievementEntries = DOMAIN database.meaning.achievements
           /\ DOMAIN database.meaning.achievements \in SUBSET Nat
           /\ \A i \in DOMAIN AchievementEntries :
                \A field \in {"id", "score", "name", "unlocked", "locked", "image"} :
                  Bytes(AchievementEntries[i])[field] = database.meaning.achievements[i][field]
<1> DEFINE achievements == database.meaning.achievements
           resource == GetResource("METADATA", XACHSignature)
<1>1. DOMAIN achievements = 1 .. Len(achievements)
  BY DEF Kept, WellMade
<1>2. CASE XACHSignature \notin Ids(database, "METADATA")
  <2>1. achievements = <<>>
    BY <1>2 DEF Kept, WellMade
  <2>2. AchievementEntries = <<>>
    BY <1>2, ResourceIsMissing DEF AchievementEntries
  <2>3. \A e \in {<<>>} : DOMAIN e = {}
    OBVIOUS
  <2> QED
    BY <2>1, <2>2, <2>3
<1>3. CASE XACHSignature \in Ids(database, "METADATA")
  <2>1. PICK i \in Table(database) : Entry(database, i).ns = "METADATA" /\ Entry(database, i).id = XACHSignature
    BY <1>3 DEF Ids
  <2> DEFINE data == Data(database, i)
  <2>2. resource = [buffer |-> data, size |-> Entry(database, i).length] /\ data # 0
    BY <2>1, ResourceIsFound, DataType
  <2>3. HoldsAchievements(database, data, achievements)
    BY <2>1 DEF Kept, WellMade
  <2>4. resource.buffer = data /\ resource # NoResource
    BY <2>2 DEF NoResource
  <2> HIDE DEF data, resource
  <2>5. AchievementEntries =
          [j \in 1 .. Len(achievements) |-> data + XACHHeaderSize + XACHEntrySize * (j - 1)]
    BY <2>3, <2>4 DEF AchievementEntries, HoldsAchievements, Bytes, resource
  <2> QED
    BY <1>1, <2>3, <2>5 DEF HoldsAchievements, Bytes
<1> QED
  BY <1>2, <1>3

LEMMA AllAreFound ==
    ASSUME Kept, NEW language
    PROVE  /\ DOMAIN GetAchievements(language) = DOMAIN database.meaning.achievements
           /\ \A i \in DOMAIN GetAchievements(language) :
                Same(database, GetAchievements(language)[i], database.meaning.achievements[i], language)
<1>1. \A i \in DOMAIN AchievementEntries :
        Same(database, Achievement(Bytes(AchievementEntries[i]), language),
              database.meaning.achievements[i], language)
  BY EntriesAreAchievements, AchievementsAreRead
<1> QED
  BY <1>1, EntriesAreAchievements DEF GetAchievements

(* The first achievement with the id, as its maker wrote it.               *)
LEMMA OneIsFound ==
    ASSUME Kept, NEW language, NEW id
    PROVE  LET meant == database.meaning.achievements
               found == {i \in DOMAIN meant : meant[i].id = id}
           IN  IF found = {} THEN GetAchievement(language, id) = NoAchievement
               ELSE Same(database, GetAchievement(language, id), meant[Min(found)], language)
<1> DEFINE meant == database.meaning.achievements
           entries == AchievementEntries
           found == {i \in DOMAIN meant : meant[i].id = id}
           read == {i \in DOMAIN entries : Bytes(entries[i]).id = id}
<1>1. DOMAIN entries = DOMAIN meant /\ DOMAIN meant \in SUBSET Nat
      /\ \A i \in DOMAIN entries : \A field \in {"id", "score", "name", "unlocked", "locked", "image"} :
           Bytes(entries[i])[field] = meant[i][field]
  BY EntriesAreAchievements
<1>2. GetAchievement(language, id) = IF read = {} THEN NoAchievement
                                     ELSE Achievement(Bytes(entries[Min(read)]), language)
  BY DEF GetAchievement
<1> HIDE DEF entries, meant
<1>3. read = found
  BY <1>1
<1>4. found # {} => Min(found) \in DOMAIN meant
  <2>1. found \in SUBSET Nat /\ found \subseteq DOMAIN meant
    BY <1>1
  <2> QED
    BY <2>1, MinIsLeast
<1> HIDE DEF found, read
<1>5. found # {} => Same(database, Achievement(Bytes(entries[Min(found)]), language), meant[Min(found)], language)
  BY <1>1, <1>4, AchievementsAreRead
<1>6. IF found = {} THEN GetAchievement(language, id) = NoAchievement
      ELSE Same(database, GetAchievement(language, id), meant[Min(found)], language)
  BY <1>2, <1>3, <1>5
<1> QED
  BY <1>6 DEF found, meant

-----------------------------------------------------------------------------
(* A wrapper that kept its buffer has the content of a file of the format. *)
TitleInv ==
    /\ database \in Databases
    /\ wrapper.buffer /\ IsFull(database) => wrapper.content = Content(database)
    /\ RecordsAreFound

LEMMA TitleStart == TitleInit => TitleInv
BY DEF TitleInit, TitleInv, RecordsAreFound, NoWrapper

LEMMA OpeningKeeps == TitleInv /\ XDBFWrapper => TitleInv'
<1> SUFFICES ASSUME TitleInv, XDBFWrapper PROVE TitleInv'
  OBVIOUS
<1>1. database' = database /\ question' = <<"open">>
  BY DEF XDBFWrapper
<1>2. \/ wrapper' = NoWrapper
      \/ /\ IsXDBF(database)
         /\ wrapper' = [buffer |-> TRUE,
                        content |-> HeaderSize + EntrySize * RecordAt(database, 0).entryCount
                                    + FreeSpaceEntrySize * RecordAt(database, 0).freeSpaceTableLength]
  <2>1. CASE database.size <= HeaderSize \/ Bytes(0).signature # "XDBF"
    BY <2>1 DEF XDBFWrapper
  <2>2. CASE ~ (database.size <= HeaderSize \/ Bytes(0).signature # "XDBF")
    <3>1. database.size > HeaderSize
      BY <2>2, FormatAssumption DEF HeaderSize, TitleInv
    <3> QED
      BY <2>2, <3>1 DEF XDBFWrapper, Bytes, IsXDBF
  <2> QED
    BY <2>1, <2>2
<1>3. wrapper'.buffer => IsXDBF(database)
  BY <1>2 DEF NoWrapper
<1>4. wrapper'.buffer /\ IsFull(database) => wrapper'.content = Content(database)
  BY <1>2 DEF NoWrapper, IsFull, Content
<1> QED
  BY <1>1, <1>3, <1>4 DEF TitleInv, RecordsAreFound, IsFull, IsXDBF, Content

LEMMA LookupKeeps == TitleInv /\ Lookup => TitleInv'
<1> SUFFICES ASSUME TitleInv, Lookup PROVE TitleInv'
  OBVIOUS
<1>1. database' = database /\ wrapper' = wrapper /\ wrapper.buffer /\ IsXDBF(database)
  BY DEF Lookup, TitleInv, RecordsAreFound
<1>2. IsFull(database) => Kept
  BY <1>1, FormatAssumption DEF TitleInv, Kept
<1>3. PICK language \in Languages :
        \/ question' = <<"all", language>> /\ answer' = [all |-> GetAchievements(language)]
        \/ \E id \in 1 .. 4 : question' = <<"one", language, id>> /\ answer' = [one |-> GetAchievement(language, id)]
        \/ \E id \in 1 .. 7 : question' = <<"string", language, id>> /\ answer' = [string |-> GetString(language, id)]
  BY DEF Lookup
<1>4. ASSUME Kept PROVE (/\ question[1] = "string" => StringIsMeant
                         /\ question[1] = "one" => OneIsMeant
                         /\ question[1] = "all" => AllAreMeant)'
  <2>1. CASE question' = <<"all", language>> /\ answer' = [all |-> GetAchievements(language)]
    <3>1. question'[1] = "all" /\ question'[2] = language /\ answer'.all = GetAchievements(language)
      BY <2>1
    <3>2. AllAreMeant'
      BY <1>1, <1>4, <3>1, AllAreFound DEF AllAreMeant
    <3> QED
      BY <3>1, <3>2
  <2>2. ASSUME NEW id \in 1 .. 4,
               question' = <<"one", language, id>> /\ answer' = [one |-> GetAchievement(language, id)]
        PROVE  (/\ question[1] = "string" => StringIsMeant
                /\ question[1] = "one" => OneIsMeant
                /\ question[1] = "all" => AllAreMeant)'
    <3>1. question'[1] = "one" /\ question'[2] = language /\ question'[3] = id
          /\ answer'.one = GetAchievement(language, id)
      BY <2>2
    <3> DEFINE meant == database.meaning.achievements
               found == {i \in DOMAIN meant : meant[i].id = id}
               one == GetAchievement(language, id)
    <3>2. IF found = {} THEN one = NoAchievement ELSE Same(database, one, meant[Min(found)], language)
      BY <1>4, OneIsFound
    <3>3. OneIsMeant' = IF found = {} THEN answer'.one = NoAchievement
                        ELSE Same(database, answer'.one, meant[Min(found)], language)
      BY <1>1, <3>1 DEF OneIsMeant
    <3> HIDE DEF one, found, meant
    <3>4. OneIsMeant'
      BY <3>1, <3>2, <3>3 DEF one
    <3> QED
      BY <3>1, <3>4
  <2>3. ASSUME NEW id \in 1 .. 7,
               question' = <<"string", language, id>> /\ answer' = [string |-> GetString(language, id)]
        PROVE  (/\ question[1] = "string" => StringIsMeant
                /\ question[1] = "one" => OneIsMeant
                /\ question[1] = "all" => AllAreMeant)'
    <3>1. question'[1] = "string" /\ question'[2] = language /\ question'[3] = id
          /\ answer'.string = GetString(language, id)
      BY <2>3
    <3>2. StringIsMeant'
      BY <1>1, <1>4, <3>1, StringsAreFound DEF StringIsMeant
    <3> QED
      BY <3>1, <3>2
  <2> QED
    BY <1>3, <2>1, <2>2, <2>3
<1>5. (wrapper.buffer => IsXDBF(database))' /\ (wrapper.buffer /\ IsFull(database)
      => wrapper.content = Content(database))'
  BY <1>1 DEF TitleInv, IsXDBF, IsFull, Content
<1>6. IsFull(database)' => IsFull(database)
  BY <1>1
<1>7. RecordsAreFound'
  BY <1>2, <1>4, <1>5, <1>6 DEF RecordsAreFound
<1> QED
  BY <1>1, <1>5, <1>7 DEF TitleInv

(* RecordsAreFound is true of every file of the format, whatever its texts *)
(* and resources.                                                          *)
THEOREM RecordsAreAlwaysFound == TitleSpec => []RecordsAreFound
<1>1. TitleInv /\ [TitleNext]_titleVars => TitleInv'
  <2> SUFFICES ASSUME TitleInv, [TitleNext]_titleVars PROVE TitleInv'
    OBVIOUS
  <2>1. CASE UNCHANGED titleVars
    BY <2>1 DEF titleVars, TitleInv, RecordsAreFound, StringIsMeant, OneIsMeant, AllAreMeant
  <2> QED
    BY <2>1, OpeningKeeps, LookupKeeps DEF TitleNext
<1>2. TitleInv => RecordsAreFound
  BY DEF TitleInv
<1> QED
  BY <1>1, <1>2, TitleStart, PTL DEF TitleSpec

-----------------------------------------------------------------------------
(* Executables.  There are sums: of 0 and one amount after the other.      *)
LEMMA SumsExist ==
    ASSUME NEW n \in Nat, NEW amount \in [1 .. n -> Nat]
    PROVE  \E g \in [0 .. n -> Nat] : g[0] = 0 /\ \A i \in 1 .. n : g[i] = g[i - 1] + amount[i]
<1> DEFINE step == [i \in Nat |-> [x \in Nat |-> IF i + 1 \in 1 .. n THEN x + amount[i + 1] ELSE x]]
<1>1. step \in [Nat -> [Nat -> Nat]]
  OBVIOUS
<1> HIDE DEF step
<1>2. PICK f \in [Nat -> Nat] : f[0] = 0 /\ \A i \in Nat : f[i + 1] = step[i][f[i]]
  BY <1>1, Recursion
<1> DEFINE g == [i \in 0 .. n |-> f[i]]
<1>3. ASSUME NEW i \in 1 .. n PROVE g[i] = g[i - 1] + amount[i]
  <2> DEFINE j == i - 1
  <2>1. j \in Nat /\ j \in 0 .. n /\ j + 1 = i
    OBVIOUS
  <2> HIDE DEF j
  <2>2. f[i] = step[j][f[j]]
    BY <1>2, <2>1
  <2>3. step[j][f[j]] = f[j] + amount[i]
    BY <2>1 DEF step
  <2> QED
    BY <2>1, <2>2, <2>3 DEF j
<1>4. g \in [0 .. n -> Nat] /\ g[0] = 0
  <2>1. f \in [Nat -> Nat]
    BY <1>2
  <2>2. 0 \in 0 .. n /\ f[0] = 0
    BY <1>2
  <2> HIDE DEF step
  <2> QED
    BY <2>1, <2>2
<1> HIDE DEF g
<1> QED
  BY <1>3, <1>4

(* Blocks whose sizes are numbers.                                         *)
AreBlocks(blocks) ==
    /\ Len(blocks) \in Nat /\ DOMAIN blocks = 1 .. Len(blocks)
    /\ \A i \in DOMAIN blocks : blocks[i].dataSize \in Nat /\ blocks[i].zeroSize \in Nat

LEMMA PackedSizes ==
    ASSUME NEW blocks, AreBlocks(blocks)
    PROVE  /\ PackedSize(blocks) \in [0 .. Len(blocks) -> Nat]
           /\ PackedSize(blocks)[0] = 0
           /\ \A i \in 1 .. Len(blocks) : PackedSize(blocks)[i] = PackedSize(blocks)[i - 1] + blocks[i].dataSize
<1> DEFINE n == Len(blocks)
           amount == [i \in 1 .. n |-> blocks[i].dataSize]
           Sums(f) == [i \in 0 .. n |-> IF i = 0 THEN 0 ELSE f[i - 1] + blocks[i].dataSize]
           f == CHOOSE f : f = Sums(f)
<1>1. n \in Nat /\ amount \in [1 .. n -> Nat] /\ \A i \in 1 .. n : amount[i] = blocks[i].dataSize
  BY DEF AreBlocks
<1> HIDE DEF n, amount
<1>2. PICK g \in [0 .. n -> Nat] : g[0] = 0 /\ \A i \in 1 .. n : g[i] = g[i - 1] + amount[i]
  BY <1>1, SumsExist
<1>3. g = Sums(g)
  <2>1. \A i \in 0 .. n : g[i] = Sums(g)[i]
    BY <1>1, <1>2
  <2> QED
    BY <2>1
<1>4. f = Sums(f)
  BY <1>3
<1>5. PackedSize(blocks) = f
  BY DEF PackedSize, n
<1> HIDE DEF f
<1>6. \A i \in 0 .. n : f[i] \in Nat
  <2> DEFINE S == {i \in Nat : i \in 0 .. n => f[i] \in Nat}
  <2>1. 0 \in S
    BY <1>4
  <2>2. ASSUME NEW i \in S PROVE i + 1 \in S
    <3> SUFFICES ASSUME i + 1 \in 0 .. n PROVE f[i + 1] \in Nat
      OBVIOUS
    <3>1. i \in 0 .. n /\ i + 1 \in 1 .. n /\ i + 1 # 0 /\ (i + 1) - 1 = i /\ f[i] \in Nat
      BY <1>1
    <3>2. f[i + 1] = f[i] + blocks[i + 1].dataSize
      BY <1>4, <3>1
    <3> QED
      BY <1>1, <3>1, <3>2
  <2> HIDE DEF S
  <2>3. S = Nat
    BY <2>1, <2>2, SetInduction DEF S
  <2> QED
    BY <2>3 DEF S
<1>7. f[0] = 0 /\ \A i \in 1 .. n : f[i] = f[i - 1] + blocks[i].dataSize
  BY <1>1, <1>4
<1>8. f \in [0 .. n -> Nat]
  <2>1. f = [i \in 0 .. n |-> f[i]]
    BY <1>4
  <2> QED
    BY <1>6, <2>1
<1> QED
  BY <1>5, <1>7, <1>8 DEF n

LEMMA UnpackedSizes ==
    ASSUME NEW blocks, AreBlocks(blocks)
    PROVE  /\ UnpackedSize(blocks) \in [0 .. Len(blocks) -> Nat]
           /\ UnpackedSize(blocks)[0] = 0
           /\ \A i \in 1 .. Len(blocks) :
                UnpackedSize(blocks)[i] = UnpackedSize(blocks)[i - 1] + blocks[i].dataSize + blocks[i].zeroSize
<1> DEFINE n == Len(blocks)
           amount == [i \in 1 .. n |-> blocks[i].dataSize + blocks[i].zeroSize]
           Sums(f) == [i \in 0 .. n |-> IF i = 0 THEN 0 ELSE f[i - 1] + blocks[i].dataSize + blocks[i].zeroSize]
           f == CHOOSE f : f = Sums(f)
<1>1. /\ n \in Nat /\ amount \in [1 .. n -> Nat]
      /\ \A i \in 1 .. n : amount[i] = blocks[i].dataSize + blocks[i].zeroSize
      /\ \A i \in 1 .. n : blocks[i].dataSize \in Nat /\ blocks[i].zeroSize \in Nat
  BY DEF AreBlocks
<1>0. n \in Nat
  BY <1>1
<1> HIDE DEF n, amount
<1>2. PICK g \in [0 .. n -> Nat] : g[0] = 0 /\ \A i \in 1 .. n : g[i] = g[i - 1] + amount[i]
  BY <1>1, SumsExist
<1>3. g = Sums(g)
  <2>1. ASSUME NEW i \in 1 .. n PROVE g[i] = g[i - 1] + blocks[i].dataSize + blocks[i].zeroSize
    <3>1. i - 1 \in 0 .. n
      BY <1>0
    <3>2. g[i - 1] \in Nat
      BY <3>1
    <3>3. g[i] = g[i - 1] + (blocks[i].dataSize + blocks[i].zeroSize)
      BY <1>1, <1>2
    <3> QED
      BY <1>1, <3>2, <3>3
  <2>2. \A i \in 0 .. n : g[i] = Sums(g)[i]
    BY <1>1, <1>2, <2>1
  <2> QED
    BY <2>2
<1>4. f = Sums(f)
  BY <1>3
<1>5. UnpackedSize(blocks) = f
  BY DEF UnpackedSize, n
<1> HIDE DEF f
<1>6. \A i \in 0 .. n : f[i] \in Nat
  <2> DEFINE S == {i \in Nat : i \in 0 .. n => f[i] \in Nat}
  <2>1. 0 \in S
    BY <1>4
  <2>2. ASSUME NEW i \in S PROVE i + 1 \in S
    <3> SUFFICES ASSUME i + 1 \in 0 .. n PROVE f[i + 1] \in Nat
      OBVIOUS
    <3>1. i \in 0 .. n /\ i + 1 \in 1 .. n /\ i + 1 # 0 /\ (i + 1) - 1 = i /\ f[i] \in Nat
      BY <1>0
    <3>2. f[i + 1] = f[i] + blocks[i + 1].dataSize + blocks[i + 1].zeroSize
      BY <1>4, <3>1
    <3>3. blocks[i + 1].dataSize \in Nat /\ blocks[i + 1].zeroSize \in Nat
      BY <1>1, <3>1
    <3> QED
      BY <3>1, <3>2, <3>3
  <2> HIDE DEF S
  <2>3. S = Nat
    BY <2>1, <2>2, SetInduction DEF S
  <2> QED
    BY <2>3 DEF S
<1>7. f[0] = 0 /\ \A i \in 1 .. n : f[i] = f[i - 1] + blocks[i].dataSize + blocks[i].zeroSize
  BY <1>1, <1>4
<1>8. f \in [0 .. n -> Nat]
  <2>1. f = [i \in 0 .. n |-> f[i]]
    BY <1>4
  <2> QED
    BY <1>6, <2>1
<1> QED
  BY <1>5, <1>7, <1>8 DEF n

(* Both grow, and packing makes nothing longer.                            *)
LEMMA SizesGrow ==
    ASSUME NEW blocks, AreBlocks(blocks)
    PROVE  /\ \A i, j \in 0 .. Len(blocks) : i <= j =>
                 /\ PackedSize(blocks)[i] <= PackedSize(blocks)[j]
                 /\ UnpackedSize(blocks)[i] <= UnpackedSize(blocks)[j]
           /\ \A i \in 0 .. Len(blocks) : PackedSize(blocks)[i] <= UnpackedSize(blocks)[i]
<1> DEFINE n == Len(blocks)
           packed == PackedSize(blocks)
           unpacked == UnpackedSize(blocks)
<1>1. /\ packed \in [0 .. n -> Nat] /\ packed[0] = 0
      /\ \A i \in 1 .. n : packed[i] = packed[i - 1] + blocks[i].dataSize
  BY PackedSizes
<1>2. /\ unpacked \in [0 .. n -> Nat] /\ unpacked[0] = 0
      /\ \A i \in 1 .. n : unpacked[i] = unpacked[i - 1] + blocks[i].dataSize + blocks[i].zeroSize
  BY UnpackedSizes
<1>3. n \in Nat
  BY DEF AreBlocks
<1>4. \A i \in 1 .. n : blocks[i].dataSize \in Nat /\ blocks[i].zeroSize \in Nat
  BY DEF AreBlocks
<1> HIDE DEF n, packed, unpacked
<1> DEFINE S == {m \in Nat : m \in 0 .. n =>
                   /\ packed[m] <= unpacked[m]
                   /\ \A i \in 0 .. m : packed[i] <= packed[m] /\ unpacked[i] <= unpacked[m]}
<1>5. 0 \in S
  BY <1>1, <1>2, <1>3
<1>6. ASSUME NEW m \in S PROVE m + 1 \in S
  <2> SUFFICES ASSUME m + 1 \in 0 .. n
               PROVE  /\ packed[m + 1] <= unpacked[m + 1]
                      /\ \A i \in 0 .. m + 1 : packed[i] <= packed[m + 1] /\ unpacked[i] <= unpacked[m + 1]
    OBVIOUS
  <2> DEFINE k == m + 1
  <2>1. m \in 0 .. n /\ k \in 1 .. n /\ k - 1 = m /\ m \in Nat
    BY <1>3
  <2>2. /\ packed[m] <= unpacked[m]
        /\ \A i \in 0 .. m : packed[i] <= packed[m] /\ unpacked[i] <= unpacked[m]
    BY <2>1
  <2> HIDE DEF k, S
  <2>3. packed[k] = packed[m] + blocks[k].dataSize
        /\ unpacked[k] = unpacked[m] + blocks[k].dataSize + blocks[k].zeroSize
    BY <1>1, <1>2, <2>1
  <2>4. blocks[k].dataSize \in Nat /\ blocks[k].zeroSize \in Nat /\ packed[m] \in Nat /\ unpacked[m] \in Nat
    BY <1>1, <1>2, <1>4, <2>1
  <2>5. packed[m] <= packed[k] /\ unpacked[m] <= unpacked[k] /\ packed[k] <= unpacked[k]
        /\ packed[k] \in Nat /\ unpacked[k] \in Nat
    BY <2>2, <2>3, <2>4
  <2>6. ASSUME NEW i \in 0 .. k PROVE packed[i] <= packed[k] /\ unpacked[i] <= unpacked[k]
    <3>1. CASE i = k
      BY <2>5, <3>1
    <3>2. CASE i # k
      <4>1. i \in 0 .. m
        BY <2>1, <3>2 DEF k
      <4>2. i \in 0 .. n
        BY <2>1, <4>1, <1>3
      <4>3. packed[i] \in Nat /\ unpacked[i] \in Nat
        BY <1>1, <1>2, <4>2
      <4> QED
        BY <2>2, <2>4, <2>5, <4>1, <4>3
    <3> QED
      BY <3>1, <3>2
  <2> QED
    BY <2>5, <2>6 DEF k
<1> HIDE DEF S
<1>7. S = Nat
  BY <1>5, <1>6, SetInduction DEF S
<1>8. \A m \in 0 .. n : /\ packed[m] <= unpacked[m]
                        /\ \A i \in 0 .. m : packed[i] <= packed[m] /\ unpacked[i] <= unpacked[m]
  BY <1>3, <1>7 DEF S
<1> QED
  BY <1>8 DEF n, packed, unpacked

(* A word of the meaning is of one block.                                  *)
LEMMA MeaningAt ==
    ASSUME NEW blocks, AreBlocks(blocks), NEW body, NEW i \in 1 .. Len(blocks), NEW k \in Nat,
           UnpackedSize(blocks)[i - 1] < k, k <= UnpackedSize(blocks)[i]
    PROVE  /\ k \in 1 .. SizeUnpacked(blocks)
           /\ Meaning(blocks, body)[k] =
                IF k - UnpackedSize(blocks)[i - 1] <= blocks[i].dataSize
                THEN body[PackedSize(blocks)[i - 1] + (k - UnpackedSize(blocks)[i - 1])] ELSE Zero
<1> DEFINE n == Len(blocks)
           unpacked == UnpackedSize(blocks)
           packed == PackedSize(blocks)
           Here(j) == unpacked[j - 1] < k /\ k <= unpacked[j]
           the == CHOOSE j \in DOMAIN blocks : Here(j)
<1>1. unpacked \in [0 .. n -> Nat] /\ n \in Nat /\ DOMAIN blocks = 1 .. n /\ i \in 1 .. n
  BY UnpackedSizes DEF AreBlocks
<1>2. \A j, m \in 0 .. n : j <= m => unpacked[j] <= unpacked[m]
  BY SizesGrow
<1>3. Here(i)
  OBVIOUS
<1>4. SizeUnpacked(blocks) = unpacked[n]
  BY DEF SizeUnpacked
<1> HIDE DEF n, unpacked
<1>5. k \in 1 .. unpacked[n]
  <2>1. i \in 0 .. n /\ n \in 0 .. n /\ i <= n /\ i - 1 \in 0 .. n
    BY <1>1
  <2>2. unpacked[i] <= unpacked[n] /\ unpacked[i] \in Nat /\ unpacked[n] \in Nat /\ unpacked[i - 1] \in Nat
    BY <1>1, <1>2, <2>1
  <2> QED
    BY <1>3, <2>2
<1>6. ASSUME NEW j \in 1 .. n, Here(j) PROVE j = i
  <2>1. i \in 0 .. n /\ j \in 0 .. n /\ i - 1 \in 0 .. n /\ j - 1 \in 0 .. n
    BY <1>1
  <2>2. /\ unpacked[i] \in Nat /\ unpacked[j] \in Nat
        /\ unpacked[i - 1] \in Nat /\ unpacked[j - 1] \in Nat
    BY <1>1, <2>1
  <2>3. CASE j < i
    <3>1. unpacked[j] <= unpacked[i - 1]
      BY <1>1, <1>2, <2>1, <2>3
    <3> QED
      BY <1>3, <1>6, <2>2, <3>1
  <2>4. CASE i < j
    <3>1. unpacked[i] <= unpacked[j - 1]
      BY <1>1, <1>2, <2>1, <2>4
    <3> QED
      BY <1>3, <1>6, <2>2, <3>1
  <2> QED
    BY <1>1, <2>3, <2>4
<1>7. the = i
  BY <1>1, <1>3, <1>6
<1>8. Meaning(blocks, body)[k] =
        IF k - unpacked[the - 1] <= blocks[the].dataSize
        THEN body[packed[the - 1] + (k - unpacked[the - 1])] ELSE Zero
  BY <1>4, <1>5 DEF Meaning, unpacked
<1> HIDE DEF the, packed
<1> QED
  BY <1>4, <1>5, <1>7, <1>8 DEF unpacked, packed

(* Copying the blocks one after the other writes what they mean.           *)
Copied(to, blocks, body, i) ==
    [to |-> [k \in DOMAIN to |-> IF k <= UnpackedSize(blocks)[i] THEN Meaning(blocks, body)[k] ELSE to[k]],
     from |-> body, src |-> PackedSize(blocks)[i], dest |-> UnpackedSize(blocks)[i]]

(* A block leaves what the blocks so far mean, and both pointers at its    *)
(* end.                                                                    *)
LEMMA BlockIsWritten ==
    ASSUME NEW blocks, AreBlocks(blocks), NEW to, DOMAIN to \in SUBSET Nat, NEW body, NEW i \in 1 .. Len(blocks)
    PROVE  CopyBlock(Copied(to, blocks, body, i - 1), blocks[i]) = Copied(to, blocks, body, i)
<1> DEFINE p == PackedSize(blocks)[i - 1]
           u == UnpackedSize(blocks)[i - 1]
           v == UnpackedSize(blocks)[i]
           d == blocks[i].dataSize
           z == blocks[i].zeroSize
           meaning == Meaning(blocks, body)
           old == Copied(to, blocks, body, i - 1).to
           copied == Copy(old, u, body, p, d)
           new == Clear0(copied, u + d, z)
<1>1. p \in Nat /\ u \in Nat /\ d \in Nat /\ z \in Nat /\ v = u + d + z /\ PackedSize(blocks)[i] = p + d
  <2>1. i - 1 \in 0 .. Len(blocks)
    BY DEF AreBlocks
  <2>2. p \in Nat /\ PackedSize(blocks)[i] = p + d
    BY <2>1, PackedSizes
  <2>3. u \in Nat /\ v = u + d + z
    BY <2>1, UnpackedSizes
  <2> QED
    BY <2>2, <2>3 DEF AreBlocks
<1>2. ASSUME NEW k \in DOMAIN to, u < k, k <= v
      PROVE  meaning[k] = IF k - u <= d THEN body[p + (k - u)] ELSE Zero
  BY <1>2, MeaningAt
<1>3. CopyBlock(Copied(to, blocks, body, i - 1), blocks[i]) =
        [to |-> new, from |-> body, src |-> p + d, dest |-> u + d + z]
  BY DEF CopyBlock, Copied
<1>4. old = [k \in DOMAIN to |-> IF k <= u THEN meaning[k] ELSE to[k]]
  BY DEF Copied
<1> HIDE DEF p, u, v, d, z, meaning, old
<1>5. DOMAIN new = DOMAIN to
  BY <1>4 DEF Copy, Clear0
<1>6. ASSUME NEW k \in DOMAIN to PROVE new[k] = IF k <= v THEN meaning[k] ELSE to[k]
  <2>1. new[k] = IF u + d < k /\ k <= u + d + z THEN Zero
                 ELSE IF u < k /\ k <= u + d THEN body[p + k - u]
                 ELSE IF k <= u THEN meaning[k] ELSE to[k]
    BY <1>4 DEF Copy, Clear0
  <2>2. k \in Nat
    OBVIOUS
  <2>3. p + k - u = p + (k - u)
    BY <1>1, <2>2
  <2> HIDE DEF new, copied
  <2>4. CASE k <= u
    <3>1. ~ (u + d < k) /\ ~ (u < k) /\ k <= v
      BY <1>1, <2>2, <2>4
    <3> QED
      BY <2>1, <2>4, <3>1
  <2>5. CASE u < k /\ k <= u + d
    <3>1. ~ (u + d < k) /\ k <= v /\ k - u <= d
      BY <1>1, <2>2, <2>5
    <3> QED
      BY <1>2, <2>1, <2>3, <2>5, <3>1
  <2>6. CASE u + d < k /\ k <= v
    <3>1. u < k /\ ~ (k - u <= d) /\ k <= u + d + z
      BY <1>1, <2>2, <2>6
    <3> QED
      BY <1>2, <2>1, <2>6, <3>1
  <2>7. CASE v < k
    <3>1. ~ (k <= u + d + z) /\ ~ (k <= u + d) /\ ~ (k <= u) /\ ~ (k <= v)
      BY <1>1, <2>2, <2>7
    <3> QED
      BY <2>1, <3>1
  <2>8. k <= u \/ (u < k /\ k <= u + d) \/ (u + d < k /\ k <= v) \/ v < k
    BY <1>1, <2>2
  <2> QED
    BY <2>4, <2>5, <2>6, <2>7, <2>8
<1>7. new = [k \in DOMAIN to |-> IF k <= v THEN meaning[k] ELSE to[k]]
  <2>1. new = [k \in DOMAIN new |-> new[k]]
    BY DEF Clear0
  <2> HIDE DEF new, copied
  <2> QED
    BY <1>5, <1>6, <2>1
<1> HIDE DEF new, copied
<1> QED
  BY <1>1, <1>3, <1>7 DEF Copied, v, meaning

(* So what is unpacked is what the blocks mean.                            *)
LEMMA UnpackWritesMeaning ==
    ASSUME NEW format, AreBlocks(format.blocks), format.compression # "NONE", NEW body, NEW size, NEW to,
           to = [k \in 1 .. SizeUnpacked(format.blocks) |-> to[k]]
    PROVE  Unpack(to, body, format, size) = Meaning(format.blocks, body)
<1> DEFINE blocks == format.blocks
           n == Len(blocks)
           Walk(f) == [i \in 0 .. n |-> IF i = 0 THEN [to |-> to, from |-> body, src |-> 0, dest |-> 0]
                                        ELSE CopyBlock(f[i - 1], blocks[i])]
           g == [i \in 0 .. n |-> Copied(to, blocks, body, i)]
           f == CHOOSE f : f = Walk(f)
<1>1. Unpack(to, body, format, size) = f[n].to
  BY DEF Unpack
<1>2. n \in Nat /\ AreBlocks(blocks)
  BY DEF AreBlocks
<1>3. /\ UnpackedSize(blocks)[0] = 0 /\ PackedSize(blocks)[0] = 0 /\ SizeUnpacked(blocks) = UnpackedSize(blocks)[n]
      /\ SizeUnpacked(blocks) \in Nat
  BY <1>2, PackedSizes, UnpackedSizes DEF SizeUnpacked
<1>4. DOMAIN to = 1 .. SizeUnpacked(blocks) /\ DOMAIN to \in SUBSET Nat
  BY <1>3
<1> HIDE DEF n, blocks
<1>5. Copied(to, blocks, body, 0) = [to |-> to, from |-> body, src |-> 0, dest |-> 0]
  <2>1. [k \in DOMAIN to |-> IF k <= 0 THEN Meaning(blocks, body)[k] ELSE to[k]] = to
    BY <1>3, <1>4
  <2> QED
    BY <1>3, <2>1 DEF Copied
<1>6. \A i \in 1 .. n : CopyBlock(Copied(to, blocks, body, i - 1), blocks[i]) = Copied(to, blocks, body, i)
  BY <1>2, <1>4, BlockIsWritten DEF n
<1>7. g = Walk(g)
  <2>1. ASSUME NEW i \in 0 .. n PROVE g[i] = Walk(g)[i]
    <3>1. CASE i = 0
      BY <1>5, <3>1
    <3>2. CASE i # 0
      <4>1. i \in 1 .. n /\ i - 1 \in 0 .. n
        BY <1>2, <3>2
      <4>2. g[i - 1] = Copied(to, blocks, body, i - 1)
        BY <4>1
      <4> QED
        BY <1>6, <3>2, <4>1, <4>2
    <3> QED
      BY <3>1, <3>2
  <2> QED
    BY <2>1
<1>8. f = Walk(f)
  BY <1>7
<1> HIDE DEF f, g
<1>0. n \in Nat
  BY <1>2
<1>9. f[0] = Copied(to, blocks, body, 0) /\ \A i \in 1 .. n : f[i] = CopyBlock(f[i - 1], blocks[i])
  <2>1. 0 \in 0 .. n
    BY <1>0
  <2>2. f[0] = Copied(to, blocks, body, 0)
    BY <1>5, <1>8, <2>1
  <2>3. ASSUME NEW i \in 1 .. n PROVE f[i] = CopyBlock(f[i - 1], blocks[i])
    <3>1. i \in 0 .. n /\ i # 0
      BY <1>0
    <3> QED
      BY <1>8, <3>1
  <2> QED
    BY <2>2, <2>3
<1> HIDE DEF Walk
<1> DEFINE S == {i \in Nat : i \in 0 .. n => f[i] = Copied(to, blocks, body, i)}
<1>10. 0 \in S
  BY <1>9
<1>11. ASSUME NEW i \in S PROVE i + 1 \in S
  <2> SUFFICES ASSUME i + 1 \in 0 .. n PROVE f[i + 1] = Copied(to, blocks, body, i + 1)
    OBVIOUS
  <2>1. i \in 0 .. n /\ i + 1 \in 1 .. n /\ (i + 1) - 1 = i
    BY <1>2
  <2>2. f[i] = Copied(to, blocks, body, i)
    BY <2>1
  <2> HIDE DEF S
  <2>3. f[i + 1] = CopyBlock(Copied(to, blocks, body, i), blocks[i + 1])
    BY <1>9, <2>1, <2>2
  <2>4. CopyBlock(Copied(to, blocks, body, (i + 1) - 1), blocks[i + 1]) = Copied(to, blocks, body, i + 1)
    BY <1>6, <2>1
  <2> QED
    BY <2>1, <2>3, <2>4
<1> HIDE DEF S
<1>12. S = Nat
  BY <1>10, <1>11, SetInduction DEF S
<1>13. f[n] = Copied(to, blocks, body, n)
  BY <1>2, <1>12 DEF S
<1>14. f[n].to = [k \in 1 .. SizeUnpacked(blocks) |-> Meaning(blocks, body)[k]]
  BY <1>3, <1>4, <1>13 DEF Copied
<1>15. Meaning(blocks, body) = [k \in 1 .. SizeUnpacked(blocks) |-> Meaning(blocks, body)[k]]
  BY DEF Meaning
<1> QED
  BY <1>1, <1>14, <1>15 DEF blocks, n

(* Functions that agree at 0, and at a number if at the one before, agree. *)
LEMMA Agree ==
    ASSUME NEW n \in Nat, NEW f, NEW g, f[0] = g[0],
           \A i \in 1 .. n : f[i - 1] = g[i - 1] => f[i] = g[i]
    PROVE  \A i \in 0 .. n : f[i] = g[i]
<1> DEFINE S == {i \in Nat : i \in 0 .. n => f[i] = g[i]}
<1>1. 0 \in S
  OBVIOUS
<1>2. ASSUME NEW i \in S PROVE i + 1 \in S
  <2> SUFFICES ASSUME i + 1 \in 0 .. n PROVE f[i + 1] = g[i + 1]
    OBVIOUS
  <2>1. i \in 0 .. n /\ i + 1 \in 1 .. n /\ (i + 1) - 1 = i
    OBVIOUS
  <2>2. f[i] = g[i]
    BY <2>1
  <2> HIDE DEF S
  <2> QED
    BY <2>1, <2>2
<1> HIDE DEF S
<1>3. S = Nat
  BY <1>1, <1>2, SetInduction DEF S
<1> QED
  BY <1>3 DEF S

(* Each word of the image is of a block.                                   *)
LEMMA BlockOfWord ==
    ASSUME NEW blocks, AreBlocks(blocks), NEW k \in 1 .. SizeUnpacked(blocks)
    PROVE  \E i \in 1 .. Len(blocks) : UnpackedSize(blocks)[i - 1] < k /\ k <= UnpackedSize(blocks)[i]
<1> DEFINE n == Len(blocks)
           unpacked == UnpackedSize(blocks)
           S == {i \in 0 .. n : k <= unpacked[i]}
<1>1. n \in Nat
  BY DEF AreBlocks
<1>2. unpacked \in [0 .. n -> Nat] /\ unpacked[0] = 0
  BY UnpackedSizes
<1>3. SizeUnpacked(blocks) = unpacked[n]
  BY DEF SizeUnpacked
<1> HIDE DEF n, unpacked
<1>4. k \in Nat /\ k > 0 /\ k <= unpacked[n]
  <2>1. unpacked[n] \in Nat
    BY <1>1, <1>2
  <2> QED
    BY <1>3, <2>1
<1>5. S \in SUBSET Nat /\ S # {}
  <2>1. n \in S
    BY <1>1, <1>4
  <2> QED
    BY <1>1, <2>1
<1>6. PICK i \in S : \A j \in S : i <= j
  BY <1>5, LeastNumber
<1>7. i # 0
  BY <1>2, <1>4, <1>6
<1>8. i \in 1 .. n /\ i - 1 \in 0 .. n /\ ~ (i <= i - 1)
  BY <1>1, <1>7
<1>9. ~ (k <= unpacked[i - 1])
  BY <1>6, <1>8
<1>10. unpacked[i - 1] < k
  <2>1. unpacked[i - 1] \in Nat
    BY <1>2, <1>8
  <2> QED
    BY <1>4, <1>9, <2>1
<1>11. k <= unpacked[i]
  BY <1>6
<1> QED
  BY <1>8, <1>10, <1>11 DEF n, unpacked

(* It is zero, or a word of the body.                                      *)
LEMMA WordOfMeaning ==
    ASSUME NEW blocks, AreBlocks(blocks), NEW k \in 1 .. SizeUnpacked(blocks)
    PROVE  \/ \A body : Meaning(blocks, body)[k] = Zero
           \/ \E j \in 1 .. PackedSize(blocks)[Len(blocks)] : \A body : Meaning(blocks, body)[k] = body[j]
<1> DEFINE n == Len(blocks)
           unpacked == UnpackedSize(blocks)
           packed == PackedSize(blocks)
<1>1. n \in Nat /\ \A i \in 1 .. n : blocks[i].dataSize \in Nat
  BY DEF AreBlocks
<1>2. unpacked \in [0 .. n -> Nat]
  BY UnpackedSizes
<1>3. packed \in [0 .. n -> Nat] /\ \A i \in 1 .. n : packed[i] = packed[i - 1] + blocks[i].dataSize
  BY PackedSizes
<1>4. PICK i \in 1 .. n : unpacked[i - 1] < k /\ k <= unpacked[i]
  BY BlockOfWord
<1>5. SizeUnpacked(blocks) \in Nat
  <2>1. n \in 0 .. n
    BY <1>1
  <2> QED
    BY <1>2, <2>1 DEF SizeUnpacked
<1>6. k \in Nat
  BY <1>5
<1> DEFINE m == k - unpacked[i - 1]
<1>7. \A body : Meaning(blocks, body)[k] = IF m <= blocks[i].dataSize THEN body[packed[i - 1] + m] ELSE Zero
  BY <1>4, <1>6, MeaningAt
<1>8. packed[i] <= packed[n]
  <2>1. i \in 0 .. n /\ n \in 0 .. n /\ i <= n
    BY <1>1
  <2> QED
    BY <2>1, SizesGrow
<1> HIDE DEF n, unpacked, packed
<1>9. i - 1 \in 0 .. n /\ i \in 0 .. n /\ n \in 0 .. n
  <2>1. n \in Nat
    BY <1>1
  <2> QED
    BY <2>1
<1>10. unpacked[i - 1] \in Nat /\ packed[i - 1] \in Nat /\ packed[i] \in Nat /\ packed[n] \in Nat
  BY <1>2, <1>3, <1>9
<1>11. m \in Nat /\ m > 0
  BY <1>4, <1>6, <1>10
<1>12. packed[i] = packed[i - 1] + blocks[i].dataSize /\ blocks[i].dataSize \in Nat
  BY <1>1, <1>3
<1> HIDE DEF m
<1>13. CASE m <= blocks[i].dataSize
  <2>1. packed[i - 1] + m \in 1 .. packed[n]
    BY <1>8, <1>10, <1>11, <1>12, <1>13
  <2> QED
    BY <1>7, <1>13, <2>1 DEF packed, n
<1>14. CASE ~ (m <= blocks[i].dataSize)
  BY <1>7, <1>14
<1> QED
  BY <1>13, <1>14

(* The body as it was before it was encrypted.                             *)
Plain(xex) == [i \in DOMAIN xex.body |-> [xex.body[i] EXCEPT !.key = "plain"]]

(* Decrypted with its key, or if it was not encrypted, a body is plain.    *)
LEMMA BodyIsPlain ==
    ASSUME NEW xex, BodyIsWell(xex)
    PROVE  /\ FormatOf(xex).encryption = "NORMAL" => Decrypt(Unwrap("retail", xex.aesKey), xex.body) = Plain(xex)
           /\ FormatOf(xex).encryption # "NORMAL" => xex.body = Plain(xex)
           /\ DOMAIN Plain(xex) = 1 .. Len(xex.body)
           /\ \A i \in 1 .. Len(xex.body) : Plain(xex)[i] \in Words("plain")
           /\ Len(xex.body) \in Nat
<1> DEFINE body == xex.body
           key == BodyKey(xex)
<1>1. body \in Seq(Words(key))
  BY DEF BodyIsWell
<1>2. /\ Len(body) \in Nat /\ DOMAIN body = 1 .. Len(body) /\ body = [i \in DOMAIN body |-> body[i]]
      /\ \A i \in DOMAIN body : body[i] \in Words(key)
  BY <1>1
<1> HIDE DEF body
<1>3. ASSUME NEW i \in DOMAIN body
      PROVE  /\ [body[i] EXCEPT !.key = "plain"] \in Words("plain")
             /\ key = "plain" => [body[i] EXCEPT !.key = "plain"] = body[i]
             /\ [body[i] EXCEPT !.key = IF @ = key THEN "plain" ELSE "garbled"] = [body[i] EXCEPT !.key = "plain"]
  BY <1>2 DEF Words
<1>4. Plain(xex) = [i \in DOMAIN body |-> [body[i] EXCEPT !.key = "plain"]]
  BY DEF Plain, body
<1>5. FormatOf(xex).encryption = "NORMAL" => Decrypt(Unwrap("retail", xex.aesKey), body) = Plain(xex)
  <2> SUFFICES ASSUME FormatOf(xex).encryption = "NORMAL"
               PROVE  Decrypt(Unwrap("retail", xex.aesKey), body) = Plain(xex)
    OBVIOUS
  <2>1. Unwrap("retail", xex.aesKey) = key
    BY DEF Unwrap, BodyKey, BodyIsWell
  <2>2. Decrypt(key, body) = [i \in DOMAIN body |-> [body[i] EXCEPT !.key = IF @ = key THEN "plain" ELSE "garbled"]]
    BY DEF Decrypt
  <2>3. Decrypt(key, body) = [i \in DOMAIN body |-> [body[i] EXCEPT !.key = "plain"]]
    BY <1>3, <2>2
  <2> QED
    BY <1>4, <2>1, <2>3
<1>6. FormatOf(xex).encryption # "NORMAL" => body = Plain(xex)
  <2> SUFFICES ASSUME FormatOf(xex).encryption # "NORMAL" PROVE body = Plain(xex)
    OBVIOUS
  <2>1. key = "plain"
    BY DEF BodyKey
  <2>2. \A i \in DOMAIN body : Plain(xex)[i] = body[i]
    BY <1>3, <1>4, <2>1
  <2> QED
    BY <1>2, <1>4, <2>2
<1>7. DOMAIN Plain(xex) = 1 .. Len(body)
  BY <1>2, <1>4
<1>8. ASSUME NEW i \in 1 .. Len(body) PROVE Plain(xex)[i] \in Words("plain")
  <2>1. i \in DOMAIN body
    BY <1>2
  <2>2. Plain(xex)[i] = [body[i] EXCEPT !.key = "plain"]
    BY <1>4, <2>1
  <2> QED
    BY <1>3, <2>1, <2>2
<1> QED
  BY <1>2, <1>5, <1>6, <1>7, <1>8 DEF body

LEMMA BlocksOfBody ==
    ASSUME NEW xex, BodyIsWell(xex)
    PROVE  AreBlocks(FormatOf(xex).blocks)
  BY DEF BodyIsWell, AreBlocks

(* The words of an image, and how many.                                    *)
ImageSize(xex) == IF FormatOf(xex).compression = "NONE" THEN Len(xex.body) ELSE SizeUnpacked(FormatOf(xex).blocks)

LEMMA ContentsAreWords ==
    ASSUME NEW xex, BodyIsWell(xex)
    PROVE  /\ ImageSize(xex) \in Nat
           /\ ContentsOf(xex) = [k \in 1 .. ImageSize(xex) |-> ContentsOf(xex)[k]]
           /\ \A k \in 1 .. ImageSize(xex) : ContentsOf(xex)[k] \in Words("plain")
           /\ FormatOf(xex).compression # "NONE" => ContentsOf(xex) = Meaning(FormatOf(xex).blocks, Plain(xex))
           /\ FormatOf(xex).compression = "NONE" => ContentsOf(xex) = Plain(xex)
           /\ xex.body # <<>> => ImageSize(xex) > 0
<1> DEFINE blocks == FormatOf(xex).blocks
           packed == PackedSize(blocks)[Len(blocks)]
<1>1. /\ DOMAIN Plain(xex) = 1 .. Len(xex.body) /\ Len(xex.body) \in Nat
      /\ \A i \in 1 .. Len(xex.body) : Plain(xex)[i] \in Words("plain")
  BY BodyIsPlain
<1>2. xex.body # <<>> => Len(xex.body) > 0
  <2>1. xex.body \in Seq(Words(BodyKey(xex)))
    BY DEF BodyIsWell
  <2> QED
    BY <1>1, <2>1, EmptySeq
<1>3. Plain(xex) = [k \in DOMAIN Plain(xex) |-> Plain(xex)[k]]
  BY DEF Plain
<1>4. CASE FormatOf(xex).compression = "NONE"
  <2>1. ContentsOf(xex) = Plain(xex) /\ ImageSize(xex) = Len(xex.body)
    BY <1>4 DEF ContentsOf, Plain, ImageSize
  <2> QED
    BY <1>1, <1>2, <1>3, <1>4, <2>1
<1>5. CASE FormatOf(xex).compression # "NONE"
  <2>1. ContentsOf(xex) = Meaning(blocks, Plain(xex)) /\ ImageSize(xex) = SizeUnpacked(blocks)
    BY <1>5 DEF ContentsOf, Plain, ImageSize
  <2>2. AreBlocks(blocks) /\ Len(blocks) \in Nat
    BY BlocksOfBody DEF AreBlocks
  <2>3. Len(xex.body) = packed
    BY <1>5 DEF BodyIsWell
  <2>4. packed <= SizeUnpacked(blocks) /\ SizeUnpacked(blocks) \in Nat
    <3>1. Len(blocks) \in 0 .. Len(blocks)
      BY <2>2
    <3> QED
      BY <2>2, <3>1, SizesGrow, UnpackedSizes DEF SizeUnpacked
  <2>5. Meaning(blocks, Plain(xex)) = [k \in 1 .. SizeUnpacked(blocks) |-> Meaning(blocks, Plain(xex))[k]]
    BY DEF Meaning
  <2> HIDE DEF blocks, packed
  <2>6. ASSUME NEW k \in 1 .. SizeUnpacked(blocks) PROVE Meaning(blocks, Plain(xex))[k] \in Words("plain")
    <3>1. Zero \in Words("plain")
      BY DEF Zero, Word, Words
    <3>2. \/ Meaning(blocks, Plain(xex))[k] = Zero
          \/ \E j \in 1 .. packed : Meaning(blocks, Plain(xex))[k] = Plain(xex)[j]
      BY <2>2, WordOfMeaning DEF packed
    <3> QED
      BY <1>1, <2>3, <3>1, <3>2
  <2>7. xex.body # <<>> => SizeUnpacked(blocks) > 0
    BY <1>1, <1>2, <2>3, <2>4
  <2> QED
    BY <1>5, <2>1, <2>4, <2>5, <2>6, <2>7 DEF blocks
<1> QED
  BY <1>4, <1>5

(* What the recompiler unpacks, decrypted if need be, is the contents; and *)
(* what the runtime unpacks, of a file that is not encrypted.              *)
LEMMA UnpackGivesContents ==
    ASSUME NEW xex, BodyIsWell(xex), NEW size, FormatOf(xex).compression = "NONE" => size = Len(xex.body),
           NEW to, to = [k \in 1 .. ImageSize(xex) |-> to[k]]
    PROVE  Unpack(to, Plain(xex), FormatOf(xex), size) = ContentsOf(xex)
<1> DEFINE format == FormatOf(xex)
<1>1. CASE format.compression = "NONE"
  <2>1. size = Len(xex.body) /\ size \in Nat /\ ContentsOf(xex) = Plain(xex) /\ DOMAIN Plain(xex) = 1 .. size
    BY <1>1, BodyIsPlain, ContentsAreWords
  <2>2. to = [k \in 1 .. size |-> to[k]]
    BY <1>1, <2>1 DEF ImageSize
  <2>3. Unpack(to, Plain(xex), format, size) = Copy(to, 0, Plain(xex), 0, size)
    BY <1>1 DEF Unpack
  <2>4. Copy(to, 0, Plain(xex), 0, size) = [k \in 1 .. size |-> Plain(xex)[k]]
    <3>1. DOMAIN to = 1 .. size
      BY <2>2
    <3>2. \A k \in 1 .. size : 0 < k /\ k <= 0 + size /\ 0 + k - 0 = k
      BY <2>1
    <3> QED
      BY <3>1, <3>2 DEF Copy
  <2>5. Plain(xex) = [k \in 1 .. size |-> Plain(xex)[k]]
    BY <2>1 DEF Plain
  <2> QED
    BY <2>1, <2>3, <2>4, <2>5
<1>2. CASE format.compression # "NONE"
  <2>1. ContentsOf(xex) = Meaning(format.blocks, Plain(xex))
    BY <1>2, ContentsAreWords
  <2>2. AreBlocks(format.blocks)
    BY BlocksOfBody
  <2>3. to = [k \in 1 .. SizeUnpacked(format.blocks) |-> to[k]]
    BY <1>2 DEF ImageSize
  <2> QED
    BY <1>2, <2>1, <2>2, <2>3, UnpackWritesMeaning
<1> QED
  BY <1>1, <1>2

-----------------------------------------------------------------------------
(* Sections.  Of those that have the same base, Map keeps the first.       *)
FirstKept(section, there, n) ==
    {section[j] : j \in {j \in there : j <= n /\ \A m \in there : m < j => section[m].base # section[j].base}}

(* A section with each base is kept.                                       *)
LEMMA FirstWithBase ==
    ASSUME NEW section, NEW there \in SUBSET Nat, NEW n \in Nat, NEW j \in there, j <= n
    PROVE  \E s \in FirstKept(section, there, n) : s.base = section[j].base
<1> DEFINE S == {m \in there : section[m].base = section[j].base}
<1>1. PICK m \in S : \A o \in S : m <= o
  BY LeastNumber
<1>2. m \in there /\ m <= n /\ section[m].base = section[j].base
  BY <1>1
<1>3. ASSUME NEW o \in there, o < m PROVE section[o].base # section[m].base
  <2>1. ~ (m <= o)
    BY <1>2, <1>3
  <2> QED
    BY <1>1, <1>2, <2>1
<1>4. section[m] \in FirstKept(section, there, n)
  BY <1>2, <1>3 DEF FirstKept
<1> QED
  BY <1>2, <1>4

(* Map adds a section just when it is the first with its base.             *)
LEMMA MapKeepsFirst ==
    ASSUME NEW section, NEW there \in SUBSET Nat, NEW n \in Nat \ {0}
    PROVE  FirstKept(section, there, n) =
             IF n \in there THEN Map(FirstKept(section, there, n - 1), section[n])
                   ELSE FirstKept(section, there, n - 1)
<1> DEFINE First(j) == \A m \in there : m < j => section[m].base # section[j].base
           New(k) == {j \in there : j <= k /\ First(j)}
<1>1. \A k : FirstKept(section, there, k) = {section[j] : j \in New(k)}
  BY DEF FirstKept
<1>2. CASE n \notin there
  <2>1. \A j \in there : j <= n <=> j <= n - 1
    BY <1>2
  <2>2. New(n) = New(n - 1)
    BY <2>1
  <2> HIDE DEF New
  <2> QED
    BY <1>1, <1>2, <2>2
<1>3. CASE n \in there /\ First(n)
  <2>1. New(n) = New(n - 1) \cup {n}
    <3>1. \A j \in there : j <= n <=> (j <= n - 1 \/ j = n)
      OBVIOUS
    <3> HIDE DEF First
    <3> QED
      BY <1>3, <3>1
  <2>2. \A j \in New(n - 1) : section[j].base # section[n].base
    <3>1. \A j \in New(n - 1) : j \in there /\ j < n
      OBVIOUS
    <3> QED
      BY <1>3, <3>1
  <2> HIDE DEF New, First
  <2>3. FirstKept(section, there, n) = FirstKept(section, there, n - 1) \cup {section[n]}
    BY <1>1, <2>1
  <2>4. ~ \E other \in FirstKept(section, there, n - 1) : other.base = section[n].base
    BY <1>1, <2>2
  <2> QED
    BY <1>3, <2>3, <2>4 DEF Map
<1>4. CASE n \in there /\ ~ First(n)
  <2>1. New(n) = New(n - 1)
    <3>1. \A j \in there : j <= n <=> (j <= n - 1 \/ j = n)
      OBVIOUS
    <3> HIDE DEF First
    <3> QED
      BY <1>4, <3>1
  <2>2. PICK m \in there : m < n /\ section[m].base = section[n].base
    BY <1>4
  <2>3. m <= n - 1 /\ n - 1 \in Nat
    BY <2>2
  <2>4. \E other \in FirstKept(section, there, n - 1) : other.base = section[n].base
    BY <2>2, <2>3, FirstWithBase
  <2> HIDE DEF New, First
  <2> QED
    BY <1>1, <1>4, <2>1, <2>4 DEF Map
<1> QED
  BY <1>2, <1>3, <1>4

(* What each loader maps.                                                  *)
LEMMA PeSectionsAre ==
    ASSUME NEW xex, Len(xex.sections) \in Nat
    PROVE  PeSections(xex) = FirstKept([j \in 1 .. Len(xex.sections) |-> PeSection(xex, xex.sections[j])],
                                  1 .. Len(xex.sections), Len(xex.sections))
<1> DEFINE n == Len(xex.sections)
           section == [j \in 1 .. n |-> PeSection(xex, xex.sections[j])]
           Walk(f) == [i \in 0 .. n |-> IF i = 0 THEN {} ELSE Map(f[i - 1], PeSection(xex, xex.sections[i]))]
           g == [i \in 0 .. n |-> FirstKept(section, 1 .. n, i)]
           f == CHOOSE f : f = Walk(f)
<1>1. n \in Nat
  OBVIOUS
<1>2. PeSections(xex) = f[n]
  BY DEF PeSections
<1> HIDE DEF n
<1>3. FirstKept(section, 1 .. n, 0) = {}
  BY <1>1 DEF FirstKept
<1>4. ASSUME NEW i \in 1 .. n
      PROVE  FirstKept(section, 1 .. n, i) = Map(FirstKept(section, 1 .. n, i - 1), PeSection(xex, xex.sections[i]))
  <2>1. i \in Nat \ {0} /\ 1 .. n \in SUBSET Nat
    OBVIOUS
  <2>2. FirstKept(section, 1 .. n, i) = Map(FirstKept(section, 1 .. n, i - 1), section[i])
    BY <2>1, MapKeepsFirst
  <2>3. section[i] = PeSection(xex, xex.sections[i])
    OBVIOUS
  <2> HIDE DEF section
  <2> QED
    BY <2>2, <2>3
<1> HIDE DEF section
<1>5. g = Walk(g)
  <2>1. ASSUME NEW i \in 0 .. n PROVE g[i] = Walk(g)[i]
    <3>1. CASE i = 0
      BY <1>3, <3>1
    <3>2. CASE i # 0
      <4>1. i \in 1 .. n /\ i - 1 \in 0 .. n
        BY <1>1, <3>2
      <4>2. g[i - 1] = FirstKept(section, 1 .. n, i - 1) /\ g[i] = FirstKept(section, 1 .. n, i)
        BY <4>1
      <4> QED
        BY <1>4, <3>2, <4>1, <4>2
    <3> QED
      BY <3>1, <3>2
  <2> QED
    BY <2>1
<1>6. f = Walk(f)
  BY <1>5
<1> HIDE DEF f
<1>7. f[0] = g[0] /\ \A i \in 1 .. n : f[i - 1] = g[i - 1] => f[i] = g[i]
  <2>1. 0 \in 0 .. n
    BY <1>1
  <2>2. f[0] = {} /\ g[0] = {}
    BY <1>3, <1>6, <2>1
  <2>3. ASSUME NEW i \in 1 .. n, f[i - 1] = g[i - 1] PROVE f[i] = g[i]
    <3>1. i \in 0 .. n /\ i # 0 /\ i - 1 \in 0 .. n
      BY <1>1
    <3>2. f[i] = Map(f[i - 1], PeSection(xex, xex.sections[i]))
      BY <1>6, <3>1
    <3>3. g[i - 1] = FirstKept(section, 1 .. n, i - 1) /\ g[i] = FirstKept(section, 1 .. n, i)
      BY <3>1
    <3> QED
      BY <1>4, <2>3, <3>2, <3>3
  <2> QED
    BY <2>2, <2>3
<1> HIDE DEF g, Walk
<1>8. f[n] = g[n]
  <2>1. n \in 0 .. n
    BY <1>1
  <2>2. \A i \in 0 .. n : f[i] = g[i]
    BY <1>1, <1>7, Agree
  <2> QED
    BY <2>1, <2>2
<1>9. g[n] = FirstKept(section, 1 .. n, n)
  BY <1>1 DEF g
<1> QED
  BY <1>2, <1>8, <1>9 DEF section, n

ElfThere(elf) == {j \in 1 .. Len(elf.sections) : elf.sections[j].type # 0}

LEMMA ElfSectionsAre ==
    ASSUME NEW elf, Len(elf.sections) \in Nat
    PROVE  ElfSections(elf) = FirstKept([j \in 1 .. Len(elf.sections) |-> ElfSection(elf.sections[j])],
                                   ElfThere(elf), Len(elf.sections))
<1> DEFINE n == Len(elf.sections)
           there == ElfThere(elf)
           section == [j \in 1 .. n |-> ElfSection(elf.sections[j])]
           Walk(f) == [i \in 0 .. n |-> IF i = 0 THEN {}
                                        ELSE IF elf.sections[i].type = 0 THEN f[i - 1]
                                        ELSE Map(f[i - 1], ElfSection(elf.sections[i]))]
           g == [i \in 0 .. n |-> FirstKept(section, there, i)]
           f == CHOOSE f : f = Walk(f)
<1>1. n \in Nat
  OBVIOUS
<1>2. ElfSections(elf) = f[n]
  BY DEF ElfSections
<1>3. \A i \in 1 .. n : i \in there <=> elf.sections[i].type # 0
  BY DEF ElfThere
<1>0. there \in SUBSET Nat /\ \A i \in there : ~ (i <= 0)
  BY DEF ElfThere
<1> HIDE DEF n, there
<1>4. FirstKept(section, there, 0) = {}
  <2> HIDE DEF section
  <2> QED
    BY <1>0 DEF FirstKept
<1>5. ASSUME NEW i \in 1 .. n
      PROVE  FirstKept(section, there, i) =
               IF elf.sections[i].type = 0 THEN FirstKept(section, there, i - 1)
               ELSE Map(FirstKept(section, there, i - 1), ElfSection(elf.sections[i]))
  <2>1. i \in Nat \ {0}
    OBVIOUS
  <2>3. section[i] = ElfSection(elf.sections[i])
    OBVIOUS
  <2>4. there \in SUBSET Nat
    BY <1>0
  <2> HIDE DEF section
  <2>2. FirstKept(section, there, i) = IF i \in there THEN Map(FirstKept(section, there, i - 1), section[i])
                                  ELSE FirstKept(section, there, i - 1)
    BY <2>1, <2>4, MapKeepsFirst
  <2> QED
    BY <1>3, <2>2, <2>3
<1> HIDE DEF section
<1>6. g = Walk(g)
  <2>1. ASSUME NEW i \in 0 .. n PROVE g[i] = Walk(g)[i]
    <3>1. CASE i = 0
      BY <1>4, <3>1
    <3>2. CASE i # 0
      <4>1. i \in 1 .. n /\ i - 1 \in 0 .. n
        BY <1>1, <3>2
      <4>2. g[i - 1] = FirstKept(section, there, i - 1) /\ g[i] = FirstKept(section, there, i)
        BY <4>1
      <4> QED
        BY <1>5, <3>2, <4>1, <4>2
    <3> QED
      BY <3>1, <3>2
  <2> QED
    BY <2>1
<1>7. f = Walk(f)
  BY <1>6
<1> HIDE DEF f
<1>8. f[0] = g[0] /\ \A i \in 1 .. n : f[i - 1] = g[i - 1] => f[i] = g[i]
  <2>1. 0 \in 0 .. n
    BY <1>1
  <2>2. f[0] = {} /\ g[0] = {}
    BY <1>4, <1>7, <2>1
  <2>3. ASSUME NEW i \in 1 .. n, f[i - 1] = g[i - 1] PROVE f[i] = g[i]
    <3>1. i \in 0 .. n /\ i # 0 /\ i - 1 \in 0 .. n
      BY <1>1
    <3>2. f[i] = IF elf.sections[i].type = 0 THEN f[i - 1] ELSE Map(f[i - 1], ElfSection(elf.sections[i]))
      BY <1>7, <3>1
    <3>3. g[i - 1] = FirstKept(section, there, i - 1) /\ g[i] = FirstKept(section, there, i)
      BY <3>1
    <3> QED
      BY <1>5, <2>3, <3>2, <3>3
  <2> QED
    BY <2>2, <2>3
<1> HIDE DEF g, Walk
<1>9. f[n] = g[n]
  <2>1. n \in 0 .. n
    BY <1>1
  <2>2. \A i \in 0 .. n : f[i] = g[i]
    BY <1>1, <1>8, Agree
  <2> QED
    BY <2>1, <2>2
<1>10. g[n] = FirstKept(section, there, n)
  BY <1>1 DEF g
<1> QED
  BY <1>2, <1>9, <1>10 DEF section, n, there

(* Find returns the word of the highest section at or below the address.   *)
LEMMA FindsHighest ==
    ASSUME NEW sections, \A s \in sections : s.base \in Nat, NEW address \in Nat,
           \E s \in sections : s.base <= address
    PROVE  \E s \in sections : /\ s.base <= address
                               /\ \A other \in sections : other.base <= address => other.base <= s.base
                               /\ FindOffset(sections, address) = s.data + address - s.base
<1> DEFINE below == {section \in sections : section.base <= address}
           gaps == {address - s.base : s \in below}
           last == CHOOSE s \in below : \A other \in below : other.base <= s.base
<1>1. gaps \in SUBSET Nat /\ gaps # {}
  OBVIOUS
<1>2. PICK gap \in gaps : \A other \in gaps : gap <= other
  BY <1>1, LeastNumber
<1>3. PICK s \in below : gap = address - s.base
  OBVIOUS
<1>4. \A other \in below : other.base <= s.base
  <2> SUFFICES ASSUME NEW other \in below PROVE other.base <= s.base
    OBVIOUS
  <2>1. address - s.base <= address - other.base
    BY <1>2, <1>3
  <2> QED
    BY <2>1
<1>5. last \in below /\ \A other \in below : other.base <= last.base
  BY <1>3, <1>4
<1>6. FindOffset(sections, address) = last.data + address - last.base
  BY DEF FindOffset
<1> QED
  BY <1>5, <1>6

(* In an image of an XEX file an offset is a distance from its base.       *)
LEMMA XexOffset ==
    ASSUME NEW xex, XexIsWell(xex), NEW address \in Nat,
           \E i \in DOMAIN xex.sections : xex.base + xex.sections[i].address <= address
    PROVE  FindOffset(PeSections(xex), address) = address - xex.base
<1> DEFINE n == Len(xex.sections)
           section == [j \in 1 .. n |-> PeSection(xex, xex.sections[j])]
<1>1. /\ n \in Nat /\ DOMAIN xex.sections = 1 .. n /\ xex.base \in Nat
      /\ \A i \in 1 .. n : xex.sections[i].address \in Nat
  BY DEF XexIsWell
<1>2. \A j \in 1 .. n : /\ section[j].base = xex.base + xex.sections[j].address
                        /\ section[j].data = xex.sections[j].address
  BY DEF PeSection
<1>3. PeSections(xex) = FirstKept(section, 1 .. n, n)
  BY <1>1, PeSectionsAre
<1>4. PICK j \in 1 .. n : xex.base + xex.sections[j].address <= address
  BY <1>1
<1> HIDE DEF n, section
<1>5. ASSUME NEW s \in PeSections(xex) PROVE s.base \in Nat /\ s.data \in Nat /\ s.base = xex.base + s.data
  <2>1. PICK i \in 1 .. n : s = section[i]
    BY <1>3 DEF FirstKept
  <2>2. s.base = xex.base + xex.sections[i].address /\ s.data = xex.sections[i].address
    BY <1>2, <2>1
  <2>3. xex.base \in Nat /\ xex.sections[i].address \in Nat
    BY <1>1
  <2> QED
    BY <2>2, <2>3
<1>6. \E s \in PeSections(xex) : s.base <= address
  <2>1. 1 .. n \in SUBSET Nat
    BY <1>1
  <2>3. n \in Nat /\ j <= n
    BY <1>1
  <2>2. \E s \in FirstKept(section, 1 .. n, n) : s.base = section[j].base
    <3> DEFINE there == 1 .. n
    <3>1. there \in SUBSET Nat /\ n \in Nat /\ j \in there /\ j <= n
      BY <2>1, <2>3
    <3> HIDE DEF there
    <3>2. \E s \in FirstKept(section, there, n) : s.base = section[j].base
      BY <3>1, FirstWithBase
    <3> QED
      BY <3>2 DEF there
  <2> QED
    BY <1>2, <1>3, <1>4, <2>2
<1>7. PICK s \in PeSections(xex) : FindOffset(PeSections(xex), address) = s.data + address - s.base
  BY <1>5, <1>6, FindsHighest
<1>8. xex.base \in Nat /\ s.data \in Nat /\ s.base = xex.base + s.data
  BY <1>1, <1>5
<1> QED
  BY <1>7, <1>8

(* In an image of an ELF file each section that is loaded is found by name *)
(* and by address.                                                         *)
LEMMA ElfIsAsMeant ==
    ASSUME NEW elf, ElfIsWell(elf)
    PROVE  ElfAsMeant(elf, ElfLoadImage(elf))
<1> DEFINE n == Len(elf.sections)
           there == ElfThere(elf)
           section == [j \in 1 .. n |-> ElfSection(elf.sections[j])]
           sections == ElfSections(elf)
<1>1. /\ n \in Nat /\ DOMAIN elf.sections = 1 .. n
      /\ \A i \in 1 .. n : elf.sections[i].address \in Nat
  BY DEF ElfIsWell
<1>2. there \in SUBSET Nat /\ there \subseteq 1 .. n
  BY DEF ElfThere
<1>3. sections = FirstKept(section, there, n)
  BY <1>1, ElfSectionsAre
<1>4. \A j \in 1 .. n : /\ section[j].base = elf.sections[j].address
                        /\ section[j].data = elf.sections[j].offset
                        /\ section[j].name = elf.sections[j].name
  BY DEF ElfSection
<1>5. ElfLoadImage(elf).sections = sections
  BY DEF ElfLoadImage
<1> SUFFICES ASSUME NEW j \in 1 .. n, elf.sections[j].loaded
             PROVE  /\ FindSection(sections, elf.sections[j].name).base = elf.sections[j].address
                    /\ \A i \in 0 .. elf.sections[j].size - 1 :
                          FindOffset(sections, elf.sections[j].address + i) = elf.sections[j].offset + i
  BY <1>1, <1>5 DEF ElfAsMeant
<1> DEFINE name == elf.sections[j].name
           address == elf.sections[j].address
           size == elf.sections[j].size
           offset == elf.sections[j].offset
<1>6. j \in there /\ size \in Nat /\ offset \in Nat /\ address \in Nat
  BY <1>1 DEF ElfIsWell, ElfThere
<1>7. ASSUME NEW m \in there, m # j
      PROVE  section[m].name # name /\ section[m].base # address
            /\ section[m].base \notin address .. address + size - 1
  <2>1. m \in 1 .. n /\ elf.sections[m].type # 0
    BY DEF ElfThere
  <2>2. /\ elf.sections[m].name # name /\ elf.sections[m].address # address
        /\ elf.sections[m].address \notin address .. address + size - 1
    BY <1>1, <1>7, <2>1 DEF ElfIsWell
  <2> QED
    BY <1>4, <2>1, <2>2
<1>8. section[j].name = name /\ section[j].base = address /\ section[j].data = offset
  BY <1>4
<1> HIDE DEF n, there, section, sections, name, address, size, offset
<1>9. section[j] \in sections
  <2>1. j <= n
    BY <1>1
  <2>2. \A m \in there : m < j => section[m].base # section[j].base
    BY <1>2, <1>7, <1>8
  <2> QED
    BY <1>3, <1>6, <2>1, <2>2 DEF FirstKept
<1>10. \A s \in sections : \E m \in there : s = section[m]
  BY <1>3 DEF FirstKept
<1>11. FindSection(sections, name) = section[j]
  <2> DEFINE found == {s \in sections : s.name = name}
  <2>1. found = {section[j]}
    <3>1. \A s \in found : s = section[j]
      BY <1>7, <1>8, <1>10
    <3> QED
      BY <1>8, <1>9, <3>1
  <2>2. section[j].base <= section[j].base
    BY <1>6, <1>8
  <2>3. (CHOOSE s \in found : \A other \in found : s.base <= other.base) = section[j]
    BY <2>1, <2>2
  <2> QED
    BY <2>1, <2>3 DEF FindSection
<1>12. ASSUME NEW i \in 0 .. size - 1 PROVE FindOffset(sections, address + i) = offset + i
  <2>1. address + i \in Nat /\ address <= address + i /\ i \in Nat /\ i <= size - 1
    BY <1>6
  <2>2. \A s \in sections : s.base \in Nat
    <3>1. \A m \in there : m \in 1 .. n
      BY <1>2
    <3> QED
      BY <1>1, <1>4, <1>10, <3>1
  <2>3. \E s \in sections : s.base <= address + i
    BY <1>8, <1>9, <2>1
  <2>4. PICK s \in sections : /\ s.base <= address + i
                              /\ \A other \in sections : other.base <= address + i => other.base <= s.base
                              /\ FindOffset(sections, address + i) = s.data + (address + i) - s.base
    BY <2>1, <2>2, <2>3, FindsHighest
  <2>5. address <= s.base /\ s.base \in Nat
    BY <1>8, <1>9, <2>1, <2>2, <2>4
  <2>6. s.base \in address .. address + size - 1
    BY <1>6, <2>1, <2>4, <2>5
  <2>7. s = section[j]
    BY <1>7, <1>10, <2>6
  <2> QED
    BY <1>6, <1>8, <2>1, <2>4, <2>7
<1> QED
  BY <1>8, <1>11, <1>12 DEF name, address, size, offset

-----------------------------------------------------------------------------
(* Binding.  The image and its symbols when the thunks of S are bound.     *)
OffsetOf(xex, p) == ImportOf(xex, p).address - xex.base
HasName(xex, p) == /\ ImportOf(xex, p).type # 0
                   /\ ImportOf(xex, p).ordinal \in DOMAIN NamesOf(ImportOf(xex, p).library)
NameBound(xex, p) == NamesOf(ImportOf(xex, p).library)[ImportOf(xex, p).ordinal]

DataIsBound(xex, data, S) ==
    /\ data = [k \in 1 .. ImageSize(xex) |-> data[k]]
    /\ \A k \in 1 .. ImageSize(xex) : (\A p \in S : k \notin Room(xex, p)) => data[k] = ContentsOf(xex)[k]
    /\ \A p \in S : IF ImportOf(xex, p).type = 0
                    THEN data[OffsetOf(xex, p) + 1] = ByteSwap(ContentsOf(xex)[OffsetOf(xex, p) + 1])
                    ELSE \A j \in 1 .. 4 : data[OffsetOf(xex, p) + j] = Stub[j]

NamedImports(xex, S) == {ImportOf(xex, p) : p \in {p \in S : HasName(xex, p)}}

SymbolsAreBound(xex, symbols, S) ==
    /\ IsFiniteSet(symbols) /\ IsFiniteSet(NamedImports(xex, S))
    /\ Cardinality(symbols) = Cardinality(NamedImports(xex, S))
    /\ \A s, t \in symbols : s.address = t.address => s = t
    /\ \A s \in symbols : \E p \in S : /\ HasName(xex, p) /\ s.address = ImportOf(xex, p).address
                                       /\ s.name = NameBound(xex, p) /\ s.size = 4 /\ s.serial \in Nat
    /\ \A p \in S : HasName(xex, p) => \E s \in symbols : s.address = ImportOf(xex, p).address

IsBound(xex, img, S) ==
    /\ DOMAIN img = {"data", "sections", "symbols"} /\ img.sections = PeSections(xex)
    /\ DataIsBound(xex, img.data, S)
    /\ SymbolsAreBound(xex, img.symbols, S)

(* A thunk and its stub are in the image, and Find leads to them.          *)
LEMMA ThunkIsInImage ==
    ASSUME NEW xex, XexIsWell(xex), NEW p \in Thunks(xex)
    PROVE  /\ OffsetOf(xex, p) \in Nat /\ OffsetOf(xex, p) + 1 \in 1 .. ImageSize(xex)
           /\ ImportOf(xex, p).type # 0 => OffsetOf(xex, p) + 4 \in 1 .. ImageSize(xex)
           /\ Room(xex, p) = OffsetOf(xex, p) + 1 .. OffsetOf(xex, p) + IF ImportOf(xex, p).type = 0 THEN 1 ELSE 4
           /\ FindOffset(PeSections(xex), ImportOf(xex, p).address) = OffsetOf(xex, p)
           /\ ImageSize(xex) \in Nat
           /\ ImportOf(xex, p).address \in Nat /\ ImportOf(xex, p).address = xex.base + OffsetOf(xex, p)
           /\ xex.base \in Nat
           /\ ImportOf(xex, p).type = ContentsOf(xex)[OffsetOf(xex, p) + 1].value \div 100
           /\ ImportOf(xex, p).ordinal = ContentsOf(xex)[OffsetOf(xex, p) + 1].value % 100
<1> DEFINE o == OffsetOf(xex, p)
           address == ImportOf(xex, p).address
           function == ImportOf(xex, p).type # 0
           size == ImageSize(xex)
<1>1. address \in Nat /\ xex.base \in Nat /\ Room(xex, p) \subseteq 1 .. xex.imageSize
      /\ \E i \in DOMAIN xex.sections : xex.base + xex.sections[i].address <= address
  BY DEF XexIsWell
<1>2. xex.imageSize = size /\ size \in Nat
  BY ContentsAreWords DEF XexIsWell, ImageSize
<1>3. o = address - xex.base
  BY DEF OffsetOf
<1>4. Room(xex, p) = o + 1 .. o + IF function THEN 4 ELSE 1
  BY DEF Room, OffsetOf
<1>5. FindOffset(PeSections(xex), address) = o
  BY <1>1, <1>3, XexOffset
<1>6. /\ ImportOf(xex, p).type = ContentsOf(xex)[o + 1].value \div 100
      /\ ImportOf(xex, p).ordinal = ContentsOf(xex)[o + 1].value % 100
  BY DEF ImportOf, OffsetOf
<1>7. Room(xex, p) = o + 1 .. o + IF ImportOf(xex, p).type = 0 THEN 1 ELSE 4
  BY <1>4
<1> HIDE DEF o, address, function, size
<1>8. o \in Int /\ address = xex.base + o
  BY <1>1, <1>3
<1>9. o + 1 \in Room(xex, p) /\ (function => o + 4 \in Room(xex, p))
  BY <1>4, <1>8
<1>10. o + 1 \in 1 .. size /\ (function => o + 4 \in 1 .. size)
  BY <1>1, <1>2, <1>9
<1>11. o \in Nat
  BY <1>2, <1>8, <1>10
<1> QED
  BY <1>1, <1>2, <1>5, <1>6, <1>7, <1>8, <1>10, <1>11 DEF o, address, function, size

(* What binding one import writes is no other's.                           *)
LEMMA ThunksAreApart ==
    ASSUME NEW xex, XexIsWell(xex), NEW p \in Thunks(xex), NEW q \in Thunks(xex), p # q
    PROVE  Room(xex, p) \cap Room(xex, q) = {} /\ ImportOf(xex, p).address # ImportOf(xex, q).address
<1>1. Room(xex, p) \cap Room(xex, q) = {}
  BY DEF XexIsWell
<1>2. OffsetOf(xex, p) + 1 \in Room(xex, p)
  BY ThunkIsInImage
<1>3. OffsetOf(xex, q) + 1 \in Room(xex, q)
  BY ThunkIsInImage
<1>4. ImportOf(xex, p).address = ImportOf(xex, q).address => OffsetOf(xex, p) = OffsetOf(xex, q)
  BY DEF OffsetOf
<1> QED
  BY <1>1, <1>2, <1>3, <1>4

(* One thunk more.                                                         *)
LEMMA WordIsThere ==
    ASSUME NEW xex, XexIsWell(xex), NEW S \in SUBSET Thunks(xex), NEW p \in Thunks(xex) \ S,
           NEW data, DataIsBound(xex, data, S)
    PROVE  data[OffsetOf(xex, p) + 1] = ContentsOf(xex)[OffsetOf(xex, p) + 1]
<1>1. OffsetOf(xex, p) + 1 \in 1 .. ImageSize(xex) /\ OffsetOf(xex, p) + 1 \in Room(xex, p)
  BY ThunkIsInImage
<1>2. \A q \in S : OffsetOf(xex, p) + 1 \notin Room(xex, q)
  BY <1>1, ThunksAreApart
<1> QED
  BY <1>1, <1>2 DEF DataIsBound

(* Binding one more leaves the words of those bound before.                *)
LEMMA DataStaysBound ==
    ASSUME NEW xex, XexIsWell(xex), NEW S \in SUBSET Thunks(xex), NEW p \in Thunks(xex) \ S,
           NEW data, DataIsBound(xex, data, S), NEW new, new = [k \in 1 .. ImageSize(xex) |-> new[k]],
           \A k \in 1 .. ImageSize(xex) : k \notin Room(xex, p) => new[k] = data[k],
           IF ImportOf(xex, p).type = 0
           THEN new[OffsetOf(xex, p) + 1] = ByteSwap(ContentsOf(xex)[OffsetOf(xex, p) + 1])
           ELSE \A j \in 1 .. 4 : new[OffsetOf(xex, p) + j] = Stub[j]
    PROVE  DataIsBound(xex, new, S \cup {p})
<1>1. ASSUME NEW k \in 1 .. ImageSize(xex), \A q \in S \cup {p} : k \notin Room(xex, q)
      PROVE  new[k] = ContentsOf(xex)[k]
  BY <1>1 DEF DataIsBound
<1>2. ASSUME NEW q \in S
      PROVE  IF ImportOf(xex, q).type = 0
             THEN new[OffsetOf(xex, q) + 1] = ByteSwap(ContentsOf(xex)[OffsetOf(xex, q) + 1])
             ELSE \A j \in 1 .. 4 : new[OffsetOf(xex, q) + j] = Stub[j]
  <2> DEFINE o == OffsetOf(xex, q)
  <2>1. Room(xex, q) \cap Room(xex, p) = {}
    <3>1. q \in Thunks(xex) /\ p # q
      OBVIOUS
    <3> QED
      BY <3>1, ThunksAreApart
  <2>2. /\ o \in Nat /\ o + 1 \in 1 .. ImageSize(xex) /\ ImageSize(xex) \in Nat
        /\ ImportOf(xex, q).type # 0 => o + 4 \in 1 .. ImageSize(xex)
        /\ Room(xex, q) = o + 1 .. o + IF ImportOf(xex, q).type = 0 THEN 1 ELSE 4
    BY ThunkIsInImage
  <2>3. IF ImportOf(xex, q).type = 0 THEN data[o + 1] = ByteSwap(ContentsOf(xex)[o + 1])
        ELSE \A j \in 1 .. 4 : data[o + j] = Stub[j]
    BY DEF DataIsBound
  <2> HIDE DEF o
  <2>4. CASE ImportOf(xex, q).type = 0
    <3>1. o + 1 \in Room(xex, q)
      BY <2>2, <2>4
    <3> QED
      BY <2>1, <2>2, <2>3, <2>4, <3>1 DEF o
  <2>5. CASE ImportOf(xex, q).type # 0
    <3>1. ASSUME NEW j \in 1 .. 4 PROVE o + j \in Room(xex, q) /\ o + j \in 1 .. ImageSize(xex)
      <4>1. Room(xex, q) = o + 1 .. o + 4 /\ o \in Nat /\ o + 4 <= ImageSize(xex) /\ ImageSize(xex) \in Nat
        BY <2>2, <2>5
      <4> QED
        BY <4>1
    <3>2. \A j \in 1 .. 4 : new[o + j] = data[o + j]
      BY <2>1, <3>1
    <3> QED
      BY <2>3, <2>5, <3>2 DEF o
  <2> QED
    BY <2>4, <2>5
<1> QED
  BY <1>1, <1>2 DEF DataIsBound

LEMMA ImageWith ==
    ASSUME NEW img, NEW d, NEW s, DOMAIN img = {"data", "sections", "symbols"}
    PROVE  /\ LET new == [img EXCEPT !.data = d]
              IN  /\ DOMAIN new = {"data", "sections", "symbols"}
                  /\ new.data = d /\ new.sections = img.sections /\ new.symbols = img.symbols
           /\ LET new == [img EXCEPT !.data = d, !.symbols = s]
              IN  /\ DOMAIN new = {"data", "sections", "symbols"}
                  /\ new.data = d /\ new.sections = img.sections /\ new.symbols = s
  OBVIOUS

(* A symbol is added just for a function that has a name.                  *)
LEMMA BindNames ==
    ASSUME NEW xex, XexIsWell(xex), NEW S \in SUBSET Thunks(xex), NEW p \in Thunks(xex) \ S,
           NEW symbols, SymbolsAreBound(xex, symbols, S), NEW serial \in Nat
    PROVE  SymbolsAreBound(xex,
             IF HasName(xex, p)
             THEN symbols \cup {[name |-> NameBound(xex, p), address |-> ImportOf(xex, p).address,
                                 size |-> 4, serial |-> serial]}
             ELSE symbols, S \cup {p})
<1> DEFINE new == [name |-> NameBound(xex, p), address |-> ImportOf(xex, p).address, size |-> 4, serial |-> serial]
           T == S \cup {p}
<1>1. CASE ~ HasName(xex, p)
  <2>1. NamedImports(xex, T) = NamedImports(xex, S)
    BY <1>1 DEF NamedImports
  <2>2. \A q \in T : HasName(xex, q) => q \in S
    BY <1>1
  <2> QED
    BY <1>1, <2>1, <2>2 DEF SymbolsAreBound
<1>2. CASE HasName(xex, p)
  <2>1. NamedImports(xex, T) = NamedImports(xex, S) \cup {ImportOf(xex, p)}
    BY <1>2 DEF NamedImports
  <2>2. \A q \in S : ImportOf(xex, q).address # ImportOf(xex, p).address
    <3>1. \A q \in S : q \in Thunks(xex) /\ q # p
      OBVIOUS
    <3> QED
      BY <3>1, ThunksAreApart
  <2>3. ImportOf(xex, p) \notin NamedImports(xex, S)
    BY <2>2 DEF NamedImports
  <2>4. \A s \in symbols : s.address # new.address
    BY <2>2 DEF SymbolsAreBound
  <2>5. new \notin symbols
    BY <2>4
  <2>6. IsFiniteSet(symbols) /\ IsFiniteSet(NamedImports(xex, S))
        /\ Cardinality(symbols) = Cardinality(NamedImports(xex, S))
    BY DEF SymbolsAreBound
  <2>7. new.address = ImportOf(xex, p).address /\ new.name = NameBound(xex, p) /\ new.size = 4 /\ new.serial \in Nat
    OBVIOUS
  <2> HIDE DEF new, T
  <2>8. IsFiniteSet(symbols \cup {new}) /\ Cardinality(symbols \cup {new}) = Cardinality(symbols) + 1
    BY <2>5, <2>6, FS_AddElement
  <2>9. IsFiniteSet(NamedImports(xex, T)) /\ Cardinality(NamedImports(xex, T)) = Cardinality(NamedImports(xex, S)) + 1
    BY <2>1, <2>3, <2>6, FS_AddElement
  <2>10. \A s, t \in symbols \cup {new} : s.address = t.address => s = t
    BY <2>4 DEF SymbolsAreBound
  <2>11. ASSUME NEW s \in symbols \cup {new}
         PROVE  \E q \in T : /\ HasName(xex, q) /\ s.address = ImportOf(xex, q).address
                             /\ s.name = NameBound(xex, q) /\ s.size = 4 /\ s.serial \in Nat
    <3>1. CASE s = new
      BY <1>2, <2>7, <3>1 DEF T
    <3>2. CASE s \in symbols
      BY <3>2 DEF SymbolsAreBound, T
    <3> QED
      BY <3>1, <3>2
  <2>12. ASSUME NEW q \in T, HasName(xex, q)
         PROVE  \E s \in symbols \cup {new} : s.address = ImportOf(xex, q).address
    <3>1. CASE q = p
      BY <2>7, <3>1
    <3>2. CASE q # p
      BY <2>12, <3>2 DEF SymbolsAreBound, T
    <3> QED
      BY <3>1, <3>2
  <2>13. SymbolsAreBound(xex, symbols \cup {new}, T)
    BY <2>6, <2>8, <2>9, <2>10, <2>11, <2>12 DEF SymbolsAreBound
  <2> QED
    BY <1>2, <2>13 DEF new, T
<1> QED
  BY <1>1, <1>2

(* The loop's body binds its import, whatever was bound before.            *)
LEMMA BindOne ==
    ASSUME NEW xex, XexIsWell(xex), NEW S \in SUBSET Thunks(xex), NEW p \in Thunks(xex) \ S,
           NEW img, IsBound(xex, img, S),
           NEW bound, bound = BindImport(img, NamesOf(ImportOf(xex, p).library), ImportOf(xex, p).address)
    PROVE  IsBound(xex, bound, S \cup {p})
<1> DEFINE import == ImportOf(xex, p)
           names == NamesOf(import.library)
           o == OffsetOf(xex, p)
           data == img.data
           size == ImageSize(xex)
           old == ContentsOf(xex)[o + 1]
           swapped == [data EXCEPT ![o + 1] = ByteSwap(@)]
           new == IF import.type = 0 THEN swapped ELSE Copy(swapped, o, Stub, 0, 4)
           symbol == [name |-> NameBound(xex, p), address |-> import.address, size |-> 4,
                      serial |-> Cardinality(img.symbols)]
<1>1. /\ o \in Nat /\ o + 1 \in 1 .. size /\ size \in Nat /\ (import.type # 0 => o + 4 \in 1 .. size)
      /\ Room(xex, p) = o + 1 .. o + IF import.type = 0 THEN 1 ELSE 4
      /\ FindOffset(PeSections(xex), import.address) = o
      /\ import.type = old.value \div 100 /\ import.ordinal = old.value % 100
  BY ThunkIsInImage
<1>2. /\ DataIsBound(xex, data, S)
      /\ DOMAIN img = {"data", "sections", "symbols"} /\ img.sections = PeSections(xex)
  BY DEF IsBound
<1>3. data[o + 1] = old
  BY <1>2, WordIsThere
<1>4. old \in Words("plain")
  BY <1>1, ContentsAreWords DEF XexIsWell
<1>5. data = [k \in 1 .. size |-> data[k]]
  BY <1>2 DEF DataIsBound
<1>6. HasName(xex, p) <=> import.type # 0 /\ import.ordinal \in DOMAIN names
  BY DEF HasName
<1>7. NameBound(xex, p) = names[import.ordinal]
  BY DEF NameBound
<1> HIDE DEF o, data, size, import, names, old
<1>8. DOMAIN data = 1 .. size
  BY <1>5
<1>9. swapped[o + 1] = ByteSwap(old) /\ ByteSwap(old).value = old.value
  BY <1>1, <1>3, <1>4, <1>8 DEF ByteSwap, Words
<1>10. img.sections = PeSections(xex)
  BY <1>2
<1>11. FindOffset(img.sections, import.address) = o
  BY <1>1, <1>10
<1>12. bound = IF import.type = 0 THEN [img EXCEPT !.data = swapped]
               ELSE [img EXCEPT !.data = Copy(swapped, o, Stub, 0, 4),
                                !.symbols = IF import.ordinal \in DOMAIN names
                                            THEN @ \cup {[name |-> names[import.ordinal], address |-> import.address,
                                                          size |-> 4, serial |-> Cardinality(@)]}
                                            ELSE @]
  <2>1. bound = IF swapped[o + 1].value \div 100 = 0 THEN [img EXCEPT !.data = swapped]
                ELSE [img EXCEPT
                        !.data = Copy(swapped, o, Stub, 0, 4),
                        !.symbols = IF swapped[o + 1].value % 100 \in DOMAIN names
                                    THEN @ \cup {[name |-> names[swapped[o + 1].value % 100],
                                          address |-> import.address,
                                                  size |-> 4, serial |-> Cardinality(@)]}
                                    ELSE @]
    BY <1>11 DEF BindImport, import, names, data
  <2>2. swapped[o + 1].value \div 100 = import.type /\ swapped[o + 1].value % 100 = import.ordinal
    BY <1>1, <1>9
  <2> HIDE DEF swapped, names, import
  <2> QED
    BY <2>1, <2>2
<1>13. /\ DOMAIN bound = {"data", "sections", "symbols"} /\ bound.sections = PeSections(xex) /\ bound.data = new
       /\ bound.symbols = IF HasName(xex, p) THEN img.symbols \cup {symbol} ELSE img.symbols
  <2> HIDE DEF swapped, symbol, data
  <2>1. CASE import.type = 0
    <3>1. bound = [img EXCEPT !.data = swapped] /\ new = swapped /\ ~ HasName(xex, p)
      BY <1>6, <1>12, <2>1
    <3> HIDE DEF new
    <3> QED
      BY <1>2, <3>1, ImageWith
  <2>2. CASE import.type # 0
    <3>1. new = Copy(swapped, o, Stub, 0, 4)
      BY <2>2
    <3> HIDE DEF new
    <3>2. CASE HasName(xex, p)
      <4>1. bound = [img EXCEPT !.data = new, !.symbols = img.symbols \cup {symbol}]
        BY <1>6, <1>7, <1>12, <2>2, <3>1, <3>2 DEF symbol
      <4> QED
        BY <1>2, <3>2, <4>1, ImageWith
    <3>3. CASE ~ HasName(xex, p)
      <4>1. bound = [img EXCEPT !.data = new, !.symbols = img.symbols]
        BY <1>6, <1>12, <2>2, <3>1, <3>3
      <4> QED
        BY <1>2, <3>3, <4>1, ImageWith
    <3> QED
      BY <3>2, <3>3
  <2> QED
    BY <2>1, <2>2
<1>14. swapped = [k \in 1 .. size |-> swapped[k]] /\ \A k \in 1 .. size : k # o + 1 => swapped[k] = data[k]
  BY <1>8
<1>15. DataIsBound(xex, new, S \cup {p})
  <2>1. new = [k \in 1 .. size |-> new[k]]
    <3> HIDE DEF swapped
    <3>1. CASE import.type = 0
      BY <1>14, <3>1
    <3>2. CASE import.type # 0
      <4>1. DOMAIN swapped = 1 .. size
        BY <1>14
      <4>2. Copy(swapped, o, Stub, 0, 4) = [k \in 1 .. size |-> Copy(swapped, o, Stub, 0, 4)[k]]
        BY <4>1 DEF Copy
      <4> QED
        BY <3>2, <4>2
    <3> QED
      BY <3>1, <3>2
  <2>2. import.type # 0 => \A k \in 1 .. size : new[k] = IF o < k /\ k <= o + 4 THEN Stub[0 + k - o] ELSE swapped[k]
    <3> HIDE DEF swapped
    <3> QED
      BY <1>14 DEF Copy
  <2>3. ASSUME NEW k \in 1 .. size, k \notin Room(xex, p) PROVE new[k] = data[k]
    <3>1. k # o + 1 /\ (import.type # 0 => ~ (o < k /\ k <= o + 4))
      <4>1. k \in Nat
        BY <1>1
      <4> QED
        BY <1>1, <2>3, <4>1
    <3>2. swapped[k] = data[k]
      BY <1>14, <3>1
    <3> HIDE DEF swapped
    <3> QED
      BY <2>2, <3>1, <3>2
  <2>4. IF import.type = 0 THEN new[o + 1] = ByteSwap(old) ELSE \A j \in 1 .. 4 : new[o + j] = Stub[j]
    <3> HIDE DEF swapped
    <3>1. CASE import.type = 0
      BY <1>9, <3>1
    <3>2. CASE import.type # 0
      <4>1. ASSUME NEW j \in 1 .. 4 PROVE new[o + j] = Stub[j]
        <5>1. o + j \in 1 .. size /\ o < o + j /\ o + j <= o + 4 /\ 0 + (o + j) - o = j
          <6>1. o \in Nat /\ size \in Nat /\ o + 4 <= size
            BY <1>1, <3>2
          <6> QED
            BY <6>1
        <5> QED
          BY <2>2, <3>2, <5>1
      <4> QED
        BY <3>2, <4>1
    <3> QED
      BY <3>1, <3>2
  <2> HIDE DEF new
  <2> QED
    BY <1>2, <2>1, <2>3, <2>4, DataStaysBound DEF o, size, import, old
<1> HIDE DEF new, symbol
<1>16. SymbolsAreBound(xex, bound.symbols, S \cup {p})
  <2> DEFINE serial == Cardinality(img.symbols)
  <2>1. SymbolsAreBound(xex, img.symbols, S)
    BY DEF IsBound
  <2>2. symbol = [name |-> NameBound(xex, p), address |-> ImportOf(xex, p).address, size |-> 4, serial |-> serial]
    BY DEF symbol, import
  <2>4. serial \in Nat
    BY <2>1, FS_CardinalityType DEF SymbolsAreBound
  <2> HIDE DEF serial
  <2>3. SymbolsAreBound(xex,
          IF HasName(xex, p)
          THEN img.symbols \cup {[name |-> NameBound(xex, p), address |-> ImportOf(xex, p).address,
                                  size |-> 4, serial |-> serial]}
          ELSE img.symbols, S \cup {p})
    BY <2>1, <2>4, BindNames
  <2> QED
    BY <1>13, <2>2, <2>3
<1> QED
  BY <1>13, <1>15, <1>16 DEF IsBound

(* The thunks of a library, and the libraries, one after the other.        *)
Binds(f, img, names, thunks, n) ==
    f = [i \in 0 .. n |-> IF i = 0 THEN img ELSE BindImport(f[i - 1], names, thunks[i])]
BindsLibraries(f, img, libraries, n) ==
    f = [i \in 0 .. n |-> IF i = 0 THEN img ELSE BindLibrary(f[i - 1], libraries[i])]

(* The loops over thunks and libraries have a result.                      *)
LEMMA BindingsExist ==
    ASSUME NEW img, NEW names, NEW thunks, NEW n \in Nat
    PROVE  \E f : Binds(f, img, names, thunks, n)
<1> DEFINE Walk(f, m) == [i \in 0 .. m |-> IF i = 0 THEN img ELSE BindImport(f[i - 1], names, thunks[i])]
           S == {m \in Nat : \E f : f = Walk(f, m)}
<1>1. 0 \in S
  <2> DEFINE f == [i \in 0 .. 0 |-> img]
  <2>1. f = Walk(f, 0)
    OBVIOUS
  <2> QED
    BY <2>1
<1>2. ASSUME NEW m \in S PROVE m + 1 \in S
  <2>1. PICK f : f = Walk(f, m)
    OBVIOUS
  <2> DEFINE g == [i \in 0 .. m + 1 |-> IF i = m + 1 THEN BindImport(f[m], names, thunks[m + 1]) ELSE f[i]]
  <2>2. ASSUME NEW i \in 0 .. m + 1 PROVE g[i] = IF i = 0 THEN img ELSE BindImport(g[i - 1], names, thunks[i])
    <3>1. CASE i = m + 1
      <4>1. m \in 0 .. m + 1 /\ i - 1 = m /\ m # m + 1 /\ i # 0
        BY <3>1
      <4>2. g[m] = f[m]
        BY <4>1
      <4>3. g[i] = BindImport(f[m], names, thunks[m + 1])
        BY <3>1
      <4> HIDE DEF g
      <4> QED
        BY <3>1, <4>1, <4>2, <4>3
    <3>2. CASE i # m + 1
      <4>1. i \in 0 .. m /\ (i # 0 => i - 1 \in 0 .. m + 1 /\ i - 1 # m + 1)
        BY <3>2
      <4>2. f[i] = IF i = 0 THEN img ELSE BindImport(f[i - 1], names, thunks[i])
        BY <2>1, <4>1
      <4>3. g[i] = f[i] /\ (i # 0 => g[i - 1] = f[i - 1])
        BY <3>2, <4>1
      <4> HIDE DEF g
      <4> QED
        BY <4>2, <4>3
    <3> QED
      BY <3>1, <3>2
  <2>3. g = Walk(g, m + 1)
    BY <2>2
  <2> HIDE DEF g
  <2> QED
    BY <2>3
<1> HIDE DEF S
<1>3. S = Nat
  BY <1>1, <1>2, SetInduction DEF S
<1>4. PICK f : f = Walk(f, n)
  BY <1>3 DEF S
<1> QED
  BY <1>4 DEF Binds

LEMMA LibrariesExist ==
    ASSUME NEW img, NEW libraries, NEW n \in Nat
    PROVE  \E f : BindsLibraries(f, img, libraries, n)
<1> DEFINE Walk(f, m) == [i \in 0 .. m |-> IF i = 0 THEN img ELSE BindLibrary(f[i - 1], libraries[i])]
           S == {m \in Nat : \E f : f = Walk(f, m)}
<1>1. 0 \in S
  <2> DEFINE f == [i \in 0 .. 0 |-> img]
  <2>1. f = Walk(f, 0)
    OBVIOUS
  <2> QED
    BY <2>1
<1>2. ASSUME NEW m \in S PROVE m + 1 \in S
  <2>1. PICK f : f = Walk(f, m)
    OBVIOUS
  <2> DEFINE g == [i \in 0 .. m + 1 |-> IF i = m + 1 THEN BindLibrary(f[m], libraries[m + 1]) ELSE f[i]]
  <2>2. ASSUME NEW i \in 0 .. m + 1 PROVE g[i] = IF i = 0 THEN img ELSE BindLibrary(g[i - 1], libraries[i])
    <3>1. CASE i = m + 1
      <4>1. m \in 0 .. m + 1 /\ i - 1 = m /\ m # m + 1 /\ i # 0
        BY <3>1
      <4>2. g[m] = f[m]
        BY <4>1
      <4>3. g[i] = BindLibrary(f[m], libraries[m + 1])
        BY <3>1
      <4> HIDE DEF g
      <4> QED
        BY <3>1, <4>1, <4>2, <4>3
    <3>2. CASE i # m + 1
      <4>1. i \in 0 .. m /\ (i # 0 => i - 1 \in 0 .. m + 1 /\ i - 1 # m + 1)
        BY <3>2
      <4>2. f[i] = IF i = 0 THEN img ELSE BindLibrary(f[i - 1], libraries[i])
        BY <2>1, <4>1
      <4>3. g[i] = f[i] /\ (i # 0 => g[i - 1] = f[i - 1])
        BY <3>2, <4>1
      <4> HIDE DEF g
      <4> QED
        BY <4>2, <4>3
    <3> QED
      BY <3>1, <3>2
  <2>3. g = Walk(g, m + 1)
    BY <2>2
  <2> HIDE DEF g
  <2> QED
    BY <2>3
<1> HIDE DEF S
<1>3. S = Nat
  BY <1>1, <1>2, SetInduction DEF S
<1>4. PICK f : f = Walk(f, n)
  BY <1>3 DEF S
<1> QED
  BY <1>4 DEF BindsLibraries

(* The thunks before the next one of a library.                            *)
Bound(xex, l, i) == {p \in Thunks(xex) : p[1] < l \/ (p[1] = l /\ p[2] <= i)}

LEMMA LibraryIsBound ==
    ASSUME NEW xex, XexIsWell(xex), NEW l \in DOMAIN ImportLibraries(xex),
          NEW img, IsBound(xex, img, Bound(xex, l, 0))
    PROVE  IsBound(xex, BindLibrary(img, ImportLibraries(xex)[l]), Bound(xex, l, Len(ImportLibraries(xex)[l].thunks)))
<1> DEFINE library == ImportLibraries(xex)[l]
           thunks == library.thunks
           n == Len(thunks)
           names == NamesOf(library.name)
           Walk(f) == [i \in 0 .. n |-> IF i = 0 THEN img ELSE BindImport(f[i - 1], names, thunks[i])]
           f == CHOOSE f : f = Walk(f)
           S == {i \in Nat : i \in 0 .. n => IsBound(xex, f[i], Bound(xex, l, i))}
<1>1. n \in Nat /\ DOMAIN thunks = 1 .. n
  BY DEF XexIsWell
<1>2. BindLibrary(img, library) = f[n]
  BY DEF BindLibrary
<1>3. f = Walk(f)
  <2> HIDE DEF names, thunks, n
  <2>1. n \in Nat
    BY <1>1
  <2>3. PICK h : Binds(h, img, names, thunks, n)
    BY <2>1, BindingsExist
  <2>2. h = Walk(h)
    BY <2>3 DEF Binds
  <2> QED
    BY <2>2
<1>4. l \in Int
  BY DEF XexIsWell
<1>5. ASSUME NEW i \in 1 .. n
      PROVE  /\ <<l, i>> \in Thunks(xex) /\ <<l, i>> \notin Bound(xex, l, i - 1)
             /\ Bound(xex, l, i) = Bound(xex, l, i - 1) \cup {<<l, i>>}
             /\ ImportOf(xex, <<l, i>>).address = thunks[i] /\ ImportOf(xex, <<l, i>>).library = library.name
  <2>1. <<l, i>> \in Thunks(xex)
    BY <1>1 DEF Thunks
  <2>2. \A p \in Thunks(xex) : p[1] = l => \E m \in 1 .. n : p = <<l, m>>
    BY <1>1 DEF Thunks
  <2>3. ImportOf(xex, <<l, i>>).address = thunks[i] /\ ImportOf(xex, <<l, i>>).library = library.name
    BY DEF ImportOf
  <2> HIDE DEF library, thunks, n
  <2>4. i \in Nat /\ ~ (i <= i - 1) /\ <<l, i>>[1] = l /\ <<l, i>>[2] = i /\ ~ (l < l)
    BY <1>1, <1>4
  <2>5. <<l, i>> \notin Bound(xex, l, i - 1)
    BY <2>4 DEF Bound
  <2>6. ASSUME NEW p \in Thunks(xex) PROVE p \in Bound(xex, l, i) <=> p \in Bound(xex, l, i - 1) \/ p = <<l, i>>
    <3>1. CASE p[1] = l
      <4>1. PICK m \in 1 .. n : p = <<l, m>>
        BY <2>2, <3>1
      <4>2. m <= i <=> (m <= i - 1 \/ m = i)
        BY <1>1
      <4>3. p[2] = m /\ (p = <<l, i>> <=> m = i)
        BY <4>1
      <4> QED
        BY <1>4, <2>4, <3>1, <4>2, <4>3 DEF Bound
    <3>2. CASE p[1] # l
      <4>1. p # <<l, i>>
        BY <2>4, <3>2
      <4>2. \A k : p \in Bound(xex, l, k) <=> p[1] < l
        BY <3>2 DEF Bound
      <4> QED
        BY <4>1, <4>2
    <3> QED
      BY <3>1, <3>2
  <2>7. Bound(xex, l, i) = Bound(xex, l, i - 1) \cup {<<l, i>>}
    BY <2>1, <2>6 DEF Bound
  <2> QED
    BY <2>1, <2>3, <2>5, <2>7
<1> HIDE DEF f, library, thunks, n
<1>6. 0 \in S
  <2>1. 0 \in 0 .. n
    BY <1>1
  <2>2. f[0] = img
    BY <1>3, <2>1
  <2> QED
    BY <2>2
<1>7. ASSUME NEW i \in S PROVE i + 1 \in S
  <2> SUFFICES ASSUME i + 1 \in 0 .. n PROVE IsBound(xex, f[i + 1], Bound(xex, l, i + 1))
    OBVIOUS
  <2> DEFINE k == i + 1
             p == <<l, k>>
  <2>1. i \in 0 .. n /\ k \in 1 .. n /\ k \in 0 .. n /\ k # 0 /\ k - 1 = i
    BY <1>1
  <2>2. IsBound(xex, f[i], Bound(xex, l, i))
    BY <2>1
  <2> HIDE DEF k, S
  <2>3. f[k] = BindImport(f[i], names, thunks[k])
    BY <1>3, <2>1
  <2>4. p \in Thunks(xex) \ Bound(xex, l, i) /\ Bound(xex, l, k) = Bound(xex, l, i) \cup {p}
    BY <1>5, <2>1
  <2>5. ImportOf(xex, p).address = thunks[k] /\ ImportOf(xex, p).library = library.name
    BY <1>5, <2>1
  <2> HIDE DEF p
  <2>6. f[k] = BindImport(f[i], NamesOf(ImportOf(xex, p).library), ImportOf(xex, p).address)
    BY <2>3, <2>5
  <2>7. Bound(xex, l, i) \in SUBSET Thunks(xex)
    BY DEF Bound
  <2>8. IsBound(xex, f[k], Bound(xex, l, i) \cup {p})
    BY <2>2, <2>4, <2>6, <2>7, BindOne
  <2> QED
    BY <2>4, <2>8 DEF k
<1> HIDE DEF S
<1>8. S = Nat
  BY <1>6, <1>7, SetInduction DEF S
<1>9. IsBound(xex, f[n], Bound(xex, l, n))
  BY <1>1, <1>8 DEF S
<1> QED
  BY <1>2, <1>9 DEF library, n, thunks

(* After the last library every import is bound.                           *)
LEMMA LibrariesAreBound ==
    ASSUME NEW xex, XexIsWell(xex), NEW img, IsBound(xex, img, {})
    PROVE  IsBound(xex, BindLibraries(img, ImportLibraries(xex)), Thunks(xex))
<1> DEFINE libraries == ImportLibraries(xex)
           n == Len(libraries)
           Walk(f) == [i \in 0 .. n |-> IF i = 0 THEN img ELSE BindLibrary(f[i - 1], libraries[i])]
           f == CHOOSE f : f = Walk(f)
           S == {l \in Nat : l \in 0 .. n => IsBound(xex, f[l], Bound(xex, l + 1, 0))}
<1>1. n \in Nat /\ DOMAIN libraries = 1 .. n
  BY DEF XexIsWell
<1>2. BindLibraries(img, libraries) = f[n]
  BY DEF BindLibraries
<1>3. f = Walk(f)
  <2> HIDE DEF libraries, n
  <2>1. n \in Nat
    BY <1>1
  <2>3. PICK h : BindsLibraries(h, img, libraries, n)
    BY <2>1, LibrariesExist
  <2>2. h = Walk(h)
    BY <2>3 DEF BindsLibraries
  <2> QED
    BY <2>2
<1>4. \A p \in Thunks(xex) : /\ p[1] \in 1 .. n /\ p[2] \in 1 .. Len(libraries[p[1]].thunks)
                             /\ Len(libraries[p[1]].thunks) \in Nat
  <2> SUFFICES ASSUME NEW l \in DOMAIN libraries, NEW i \in DOMAIN libraries[l].thunks
               PROVE  l \in 1 .. n /\ i \in 1 .. Len(libraries[l].thunks) /\ Len(libraries[l].thunks) \in Nat
    BY DEF Thunks
  <2> QED
    BY <1>1 DEF XexIsWell
<1> HIDE DEF f, libraries, n
<1>5. Bound(xex, 1, 0) = {}
  BY <1>1, <1>4 DEF Bound
<1>6. 0 \in S
  <2>1. 0 \in 0 .. n
    BY <1>1
  <2>2. f[0] = img
    BY <1>3, <2>1
  <2> QED
    BY <1>5, <2>2
<1>7. ASSUME NEW m \in S PROVE m + 1 \in S
  <2> SUFFICES ASSUME m + 1 \in 0 .. n PROVE IsBound(xex, f[m + 1], Bound(xex, (m + 1) + 1, 0))
    OBVIOUS
  <2> DEFINE l == m + 1
             last == Len(libraries[l].thunks)
  <2>1. m \in 0 .. n /\ l \in 1 .. n /\ l \in 0 .. n /\ l # 0 /\ l - 1 = m
    BY <1>1
  <2>2. IsBound(xex, f[m], Bound(xex, l, 0))
    BY <2>1
  <2> HIDE DEF l, S
  <2>3. f[l] = BindLibrary(f[m], libraries[l])
    BY <1>3, <2>1
  <2>4. IsBound(xex, f[l], Bound(xex, l, last))
    BY <1>1, <2>1, <2>2, <2>3, LibraryIsBound DEF libraries
  <2>5. Bound(xex, l, last) = Bound(xex, l + 1, 0)
    <3>1. ASSUME NEW p \in Thunks(xex) PROVE (p[1] < l \/ (p[1] = l /\ p[2] <= last))
                 <=> (p[1] < l + 1 \/ (p[1] = l + 1 /\ p[2] <= 0))
      <4> DEFINE a == p[1]
                 b == p[2]
                 c == Len(libraries[a].thunks)
      <4>1. a \in Nat /\ b \in 1 .. c /\ c \in Nat /\ l \in Nat /\ (a = l => c = last)
        BY <1>1, <1>4, <2>1
      <4> HIDE DEF a, b, c, last
      <4>2. (a < l \/ (a = l /\ b <= last)) <=> (a < l + 1 \/ (a = l + 1 /\ b <= 0))
        BY <4>1
      <4> QED
        BY <4>2 DEF a, b
    <3> QED
      BY <3>1 DEF Bound
  <2> QED
    BY <2>4, <2>5 DEF l
<1> HIDE DEF S
<1>8. S = Nat
  BY <1>6, <1>7, SetInduction DEF S
<1>9. IsBound(xex, f[n], Bound(xex, n + 1, 0))
  BY <1>1, <1>8 DEF S
<1>10. Bound(xex, n + 1, 0) = Thunks(xex)
  <2>1. \A p \in Thunks(xex) : p[1] < n + 1
    BY <1>1, <1>4
  <2>2. \A p \in Thunks(xex) : p \in Bound(xex, n + 1, 0)
    BY <2>1 DEF Bound
  <2>3. Bound(xex, n + 1, 0) \subseteq Thunks(xex)
    BY DEF Bound
  <2> QED
    BY <2>2, <2>3
<1> QED
  BY <1>2, <1>9, <1>10 DEF libraries

(* So Xex2LoadImage has bound every thunk.                                 *)
LEMMA XexIsBound ==
    ASSUME NEW xex, XexIsWell(xex)
    PROVE  IsBound(xex, Xex2LoadImage(xex), Thunks(xex))
<1> DEFINE format == FormatOf(xex)
           key == Unwrap("retail", xex.aesKey)
           source == IF format.encryption = "NORMAL" THEN Decrypt(key, xex.body) ELSE xex.body
           size == IF format.compression = "NONE" THEN xex.imageSize ELSE SizeUnpacked(format.blocks)
           zeros == [i \in 1 .. size |-> Zero]
           data == Unpack(zeros, source, format, xex.imageSize)
           libraries == getOptHeaderPtr(xex, "IMPORT_LIBRARIES")
           unbound == [data |-> data, sections |-> PeSections(xex), symbols |-> {}]
<1>1. BodyIsWell(xex)
  BY DEF XexIsWell
<1>2. source = Plain(xex)
  BY <1>1, BodyIsPlain
<1>3. size = ImageSize(xex) /\ (format.compression = "NONE" => xex.imageSize = Len(xex.body))
  BY DEF XexIsWell, ImageSize
<1>4. data = ContentsOf(xex)
  <2>1. zeros = [k \in 1 .. ImageSize(xex) |-> zeros[k]]
    BY <1>3
  <2> HIDE DEF zeros, source
  <2> QED
    BY <1>1, <1>2, <1>3, <2>1, UnpackGivesContents
<1>5. Xex2LoadImage(xex) = IF libraries = Missing THEN unbound ELSE BindLibraries(unbound, libraries)
  BY DEF Xex2LoadImage, FormatOf
<1>6. ImportLibraries(xex) = IF libraries = Missing THEN <<>> ELSE libraries
  BY DEF ImportLibraries
<1> HIDE DEF data, source, libraries
<1>7. IsBound(xex, unbound, {})
  <2>1. DataIsBound(xex, data, {})
    BY <1>1, <1>4, ContentsAreWords DEF DataIsBound
  <2>2. SymbolsAreBound(xex, {}, {})
    <3>1. NamedImports(xex, {}) = {}
      BY DEF NamedImports
    <3> QED
      BY <3>1, FS_EmptySet DEF SymbolsAreBound
  <2> QED
    BY <2>1, <2>2 DEF IsBound
<1> HIDE DEF unbound
<1>8. CASE libraries = Missing
  <2>1. Thunks(xex) = {}
    BY <1>6, <1>8 DEF Thunks
  <2> QED
    BY <1>5, <1>7, <1>8, <2>1
<1>9. CASE libraries # Missing
  <2>1. Xex2LoadImage(xex) = BindLibraries(unbound, ImportLibraries(xex))
    BY <1>5, <1>6, <1>9
  <2> QED
    BY <1>7, <2>1, LibrariesAreBound
<1> QED
  BY <1>8, <1>9

(* Then each address of a section leads to the word that is meant.         *)
LEMMA WordsAreAsMeant ==
    ASSUME NEW xex, XexIsWell(xex), NEW img, IsBound(xex, img, Thunks(xex)), NEW section \in img.sections,
           NEW address \in section.base .. section.base + section.size - 1
    PROVE  WordAsMeant(xex, img, address)
<1> DEFINE k == address - xex.base + 1
           size == ImageSize(xex)
<1>1. /\ Len(xex.sections) \in Nat /\ DOMAIN xex.sections = 1 .. Len(xex.sections) /\ xex.base \in Nat
      /\ \A i \in DOMAIN xex.sections : /\ xex.sections[i].address \in Nat /\ xex.sections[i].size \in Nat
                                        /\ xex.sections[i].address + xex.sections[i].size <= xex.imageSize
  BY DEF XexIsWell
<1>2. img.sections = PeSections(xex) /\ DataIsBound(xex, img.data, Thunks(xex))
  BY DEF IsBound
<1>3. PICK i \in DOMAIN xex.sections : section = PeSection(xex, xex.sections[i])
  <2> DEFINE n == Len(xex.sections)
             made == [j \in 1 .. n |-> PeSection(xex, xex.sections[j])]
  <2>1. section \in FirstKept(made, 1 .. n, n)
    BY <1>1, <1>2, PeSectionsAre
  <2>2. PICK i \in 1 .. n : section = made[i]
    BY <2>1 DEF FirstKept
  <2> QED
    BY <1>1, <2>2
<1>4. xex.imageSize = size /\ size \in Nat
  BY ContentsAreWords DEF XexIsWell, ImageSize
<1>5. /\ section.base = xex.base + xex.sections[i].address /\ section.size = xex.sections[i].size
      /\ xex.sections[i].address \in Nat /\ xex.sections[i].size \in Nat
      /\ xex.sections[i].address + xex.sections[i].size <= size
  BY <1>1, <1>3, <1>4 DEF PeSection
<1>6. address \in Nat /\ xex.base + xex.sections[i].address <= address /\ k \in 1 .. size
  <2> DEFINE b == xex.base
             a == xex.sections[i].address
             c == xex.sections[i].size
  <2>1. address \in b + a .. b + a + c - 1
    BY <1>5
  <2>2. b \in Nat /\ a \in Nat /\ c \in Nat /\ a + c <= size /\ size \in Nat
    BY <1>1, <1>4, <1>5
  <2> HIDE DEF b, a, c, size
  <2>3. address \in Nat /\ b + a <= address /\ address - b + 1 \in 1 .. size
    BY <2>1, <2>2
  <2> QED
    BY <2>3 DEF b, a
<1>7. FindOffset(img.sections, address) + 1 = k
  <2>1. FindOffset(PeSections(xex), address) = address - xex.base
    BY <1>6, XexOffset
  <2> QED
    BY <1>2, <2>1
<1> DEFINE original == ContentsOf(xex)[k]
           word == img.data[k]
<1>8. ASSUME NEW p \in Thunks(xex)
      PROVE  /\ ImportOf(xex, p).address \in Nat
             /\ OffsetOf(xex, p) \in Nat /\ ImportOf(xex, p).address = xex.base + OffsetOf(xex, p)
             /\ Room(xex, p) = OffsetOf(xex, p) + 1 .. OffsetOf(xex, p) + IF ImportOf(xex, p).type = 0 THEN 1 ELSE 4
  BY ThunkIsInImage
<1>9. WordAsMeant(xex, img, address) <=>
        IF \E import \in Functions(xex) : address \in import.address .. import.address + 3
        THEN \E import \in Functions(xex) : /\ address \in import.address .. import.address + 3
                                           /\ word = Stub[address - import.address + 1]
        ELSE IF \E import \in Imports(xex) : address = import.address THEN word = ByteSwap(original)
        ELSE word = original
  BY <1>7 DEF WordAsMeant
<1> HIDE DEF size
<1>10. CASE \E import \in Functions(xex) : address \in import.address .. import.address + 3
  <2>1. PICK p \in Thunks(xex) : ImportOf(xex, p) \in Functions(xex)
                                 /\ address \in ImportOf(xex, p).address .. ImportOf(xex, p).address + 3
    BY <1>10 DEF Functions, Imports
  <2>2. ImportOf(xex, p).type # 0
    BY <2>1 DEF Functions
  <2> DEFINE j == address - ImportOf(xex, p).address + 1
  <2>3. j \in 1 .. 4 /\ k = OffsetOf(xex, p) + j
    <3> DEFINE o == OffsetOf(xex, p)
               a == ImportOf(xex, p).address
               b == xex.base
    <3>1. a \in Nat /\ o \in Nat /\ a = b + o /\ b \in Nat /\ address \in a .. a + 3 /\ address \in Nat
      BY <1>1, <1>6, <1>8, <2>1
    <3> HIDE DEF o, a, b
    <3>2. address - a + 1 \in 1 .. 4 /\ address - b + 1 = o + (address - a + 1)
      BY <3>1
    <3> QED
      BY <3>2 DEF o, a, b
  <2>4. img.data[OffsetOf(xex, p) + j] = Stub[j]
    BY <1>2, <2>2, <2>3 DEF DataIsBound
  <2>5. word = Stub[address - ImportOf(xex, p).address + 1]
    BY <2>3, <2>4
  <2> QED
    BY <1>9, <1>10, <2>1, <2>5
<1>11. CASE /\ ~ \E import \in Functions(xex) : address \in import.address .. import.address + 3
            /\ \E import \in Imports(xex) : address = import.address
  <2>1. PICK p \in Thunks(xex) : address = ImportOf(xex, p).address
    BY <1>11 DEF Imports
  <2>2. ImportOf(xex, p).type = 0
    <3>1. address \in ImportOf(xex, p).address .. ImportOf(xex, p).address + 3
      BY <1>6, <2>1
    <3> QED
      BY <1>11, <3>1 DEF Functions, Imports
  <2>3. k = OffsetOf(xex, p) + 1
    BY <1>1, <1>8, <2>1
  <2>4. word = ByteSwap(original)
    BY <1>2, <2>2, <2>3 DEF DataIsBound
  <2> QED
    BY <1>9, <1>11, <2>4
<1>12. CASE /\ ~ \E import \in Functions(xex) : address \in import.address .. import.address + 3
            /\ ~ \E import \in Imports(xex) : address = import.address
  <2>1. ASSUME NEW p \in Thunks(xex) PROVE k \notin Room(xex, p)
    <3> DEFINE o == OffsetOf(xex, p)
               a == ImportOf(xex, p).address
    <3>1. address # a /\ (ImportOf(xex, p).type # 0 => address \notin a .. a + 3)
      BY <1>12 DEF Functions, Imports
    <3>2. a \in Nat /\ o \in Nat /\ a = xex.base + o
          /\ Room(xex, p) = o + 1 .. o + IF ImportOf(xex, p).type = 0 THEN 1 ELSE 4
      BY <1>8
    <3> HIDE DEF o, a
    <3> QED
      BY <1>1, <1>6, <3>1, <3>2
  <2>2. word = original
    BY <1>2, <1>6, <2>1 DEF DataIsBound, size
  <2> QED
    BY <1>9, <1>12, <2>2
<1> QED
  BY <1>10, <1>11, <1>12

(* And the symbols are those of the functions that have a name.            *)
LEMMA SymbolsAreAsMeant ==
    ASSUME NEW xex, XexIsWell(xex), NEW img, IsBound(xex, img, Thunks(xex))
    PROVE  SymbolsAsMeant(xex, img)
<1>1. SymbolsAreBound(xex, img.symbols, Thunks(xex))
  BY DEF IsBound
<1>2. ASSUME NEW p \in Thunks(xex), ImportOf(xex, p).type # 0
      PROVE  HasName(xex, p) <=> Named(ImportOf(xex, p))
  BY <1>2 DEF HasName, Named, NamesOf
<1>3. ASSUME NEW import \in Functions(xex)
      PROVE  LET symbol == FindSymbol(img.symbols, import.address)
             IN  IF Named(import) THEN symbol.name = Exports[import.library][import.ordinal]
                 ELSE symbol = Missing
  <2>1. PICK p \in Thunks(xex) : import = ImportOf(xex, p) /\ import.type # 0
    BY DEF Functions, Imports
  <2> DEFINE there == {symbol \in img.symbols : symbol.address = import.address /\ symbol.size > 0}
  <2>2. ASSUME NEW s \in there PROVE HasName(xex, p) /\ s.name = NameBound(xex, p)
    <3>1. PICK q \in Thunks(xex) : HasName(xex, q) /\ s.address = ImportOf(xex, q).address /\ s.name = NameBound(xex, q)
      BY <1>1 DEF SymbolsAreBound
    <3>2. ImportOf(xex, p).address = ImportOf(xex, q).address
      BY <2>1, <3>1
    <3>3. p = q
      BY <3>2, ThunksAreApart
    <3> QED
      BY <3>1, <3>3
  <2>3. CASE Named(import)
    <3>1. HasName(xex, p)
      BY <1>2, <2>1, <2>3
    <3>2. PICK s \in img.symbols : s.address = ImportOf(xex, p).address
      BY <1>1, <3>1 DEF SymbolsAreBound
    <3>3. s.size = 4
      BY <1>1, <3>2 DEF SymbolsAreBound
    <3>4. s \in there
      BY <2>1, <3>2, <3>3
    <3>5. \A t \in there : t = s
      BY <1>1, <3>4 DEF SymbolsAreBound
    <3> HIDE DEF there
    <3>6. there = {s} /\ there # {}
      BY <3>4, <3>5
    <3>7. (CHOOSE t \in there : \A other \in there : other.serial <= t.serial) \in there
      <4>1. s.serial \in Nat
        BY <1>1, <3>2 DEF SymbolsAreBound
      <4> QED
        BY <3>4, <3>5, <4>1
    <3>8. FindSymbol(img.symbols, import.address) \in there
      BY <3>6, <3>7 DEF FindSymbol, there
    <3>9. NameBound(xex, p) = Exports[import.library][import.ordinal]
      BY <2>1, <2>3 DEF NameBound, NamesOf, Named
    <3> QED
      BY <2>2, <2>3, <3>8, <3>9
  <2>4. CASE ~ Named(import)
    <3>1. there = {}
      BY <1>2, <2>1, <2>2, <2>4
    <3>2. FindSymbol(img.symbols, import.address) = Missing
      BY <3>1 DEF FindSymbol
    <3> QED
      BY <2>4, <3>2
  <2> QED
    BY <2>3, <2>4
<1>4. NamedImports(xex, Thunks(xex)) = {import \in Functions(xex) : Named(import)}
  <2>1. ASSUME NEW x PROVE x \in NamedImports(xex, Thunks(xex)) <=> x \in Functions(xex) /\ Named(x)
    <3>1. x \in NamedImports(xex, Thunks(xex)) <=> \E p \in Thunks(xex) : HasName(xex, p) /\ x = ImportOf(xex, p)
      BY DEF NamedImports
    <3>2. x \in Functions(xex) <=> \E p \in Thunks(xex) : x = ImportOf(xex, p) /\ x.type # 0
      BY DEF Functions, Imports
    <3>3. \A p \in Thunks(xex) : HasName(xex, p) => ImportOf(xex, p).type # 0
      BY DEF HasName
    <3> QED
      BY <1>2, <3>1, <3>2, <3>3
  <2> QED
    BY <2>1
<1>5. Cardinality(img.symbols) = Cardinality({import \in Functions(xex) : Named(import)})
  BY <1>1, <1>4 DEF SymbolsAreBound
<1> QED
  BY <1>3, <1>5 DEF SymbolsAsMeant

LEMMA XexIsAsMeant ==
    ASSUME NEW xex, XexIsWell(xex)
    PROVE  XexAsMeant(xex, Xex2LoadImage(xex))
  BY XexIsBound, WordsAreAsMeant, SymbolsAreAsMeant DEF XexAsMeant

-----------------------------------------------------------------------------
(* What is in memory, and the image, at any time.                          *)
ExecInv ==
    /\ file \in Executables
    /\ guest = [k \in 1 .. file.imageSize |-> guest[k]]
    /\ \/ guest = [k \in 1 .. file.imageSize |-> Word(99)]
       \/ /\ file.magic = "XEX2" /\ file.body # <<>>
          /\ FormatOf(file).encryption = "NONE" => guest = ContentsOf(file)
       \/ file.magic = "XEX2" /\ FormatOf(file).encryption # "NONE"
    /\ \/ image = NoImage
       \/ file.magic = "XEX2" /\ image = Xex2LoadImage(file)
       \/ file.magic = "ELF" /\ image = ElfLoadImage(file)

LEMMA ExecInvStarts ==
    ASSUME ExecInit(Executables)
    PROVE  ExecInv
  BY DEF ExecInit, ExecInv

LEMMA XexSize ==
    ASSUME NEW xex, XexIsWell(xex)
    PROVE  xex.imageSize = ImageSize(xex)
  BY DEF XexIsWell, ImageSize

LEMMA ExecInvStays ==
    ASSUME ExecInv, [ExecNext]_execVars
    PROVE  ExecInv'
<1>1. CASE UNCHANGED execVars
  BY <1>1 DEF ExecInv, execVars
<1>2. CASE LdrLoadModule
  <2>1. UNCHANGED <<file, image>>
    BY <1>2 DEF LdrLoadModule
  <2>2. CASE file.body = <<>>
    <3>1. guest' = guest
      BY <1>2, <2>2 DEF LdrLoadModule
    <3> QED
      BY <2>1, <3>1 DEF ExecInv
  <2>3. CASE file.body # <<>>
    <3> DEFINE format == FormatOf(file)
    <3>1. file.magic = "XEX2" /\ guest' = Unpack(guest, file.body, format, file.imageSize)
      BY <1>2, <2>3 DEF LdrLoadModule, FormatOf
    <3>2. XexIsWell(file) /\ BodyIsWell(file)
      BY <3>1, FilesAssumption DEF ExecInv, XexIsWell
    <3>3. guest = [k \in 1 .. ImageSize(file) |-> guest[k]] /\ file.imageSize = ImageSize(file)
      BY <3>2, XexSize DEF ExecInv
    <3>4. format.compression = "NONE" => file.imageSize = Len(file.body)
      BY <3>3 DEF ImageSize
    <3>5. DOMAIN guest' = 1 .. file.imageSize /\ guest' = [k \in DOMAIN guest' |-> guest'[k]]
      <4>1. CASE format.compression = "NONE"
        <5>1. guest' = Copy(guest, 0, file.body, 0, file.imageSize)
          BY <3>1, <4>1 DEF Unpack
        <5>2. DOMAIN guest = 1 .. file.imageSize
          BY <3>3
        <5> QED
          BY <5>1, <5>2 DEF Copy
      <4>2. CASE format.compression # "NONE"
        <5>1. AreBlocks(format.blocks)
          BY <3>2, BlocksOfBody
        <5>2. guest = [k \in 1 .. SizeUnpacked(format.blocks) |-> guest[k]]
              /\ file.imageSize = SizeUnpacked(format.blocks)
          BY <3>3, <4>2 DEF ImageSize
        <5>3. guest' = Meaning(format.blocks, file.body)
          BY <3>1, <4>2, <5>1, <5>2, UnpackWritesMeaning
        <5> QED
          BY <5>2, <5>3 DEF Meaning
      <4> QED
        BY <4>1, <4>2
    <3>6. format.encryption = "NONE" => guest' = ContentsOf(file)
      <4> SUFFICES ASSUME format.encryption = "NONE" PROVE guest' = ContentsOf(file)
        OBVIOUS
      <4>1. file.body = Plain(file)
        BY <3>2, BodyIsPlain
      <4>2. Unpack(guest, Plain(file), format, file.imageSize) = ContentsOf(file)
        BY <3>2, <3>3, <3>4, UnpackGivesContents
      <4> QED
        BY <3>1, <4>1, <4>2
    <3> QED
      BY <2>1, <2>3, <3>1, <3>5, <3>6 DEF ExecInv
  <2> QED
    BY <2>2, <2>3
<1>3. CASE ParseImage
  <2>1. UNCHANGED <<file, guest>>
    BY <1>3 DEF ParseImage
  <2>2. \/ file.magic = "ELF" /\ image' = ElfLoadImage(file)
        \/ file.magic = "XEX2" /\ image' = Xex2LoadImage(file)
        \/ image' = NoImage
    BY <1>3 DEF ParseImage
  <2> QED
    BY <2>1, <2>2 DEF ExecInv
<1> QED
  BY <1>1, <1>2, <1>3 DEF ExecNext

LEMMA ExecInvSuffices ==
    ASSUME ExecInv
    PROVE  ImagesAreWhole
<1>1. file.magic = "XEX2" => XexIsWell(file)
  BY FilesAssumption DEF ExecInv
<1>2. file.magic = "ELF" => ElfIsWell(file)
  BY FilesAssumption DEF ExecInv
<1>3. LoadedAsMeant
  <2> SUFFICES ASSUME file.magic = "XEX2", file.body # <<>>, guest[1] # Word(99), FormatOf(file).encryption = "NONE"
               PROVE  guest = ContentsOf(file)
    BY DEF LoadedAsMeant
  <2>1. file.imageSize \in Nat /\ file.imageSize > 0
    BY <1>1, XexSize, ContentsAreWords DEF XexIsWell
  <2>2. guest # [k \in 1 .. file.imageSize |-> Word(99)]
    BY <2>1
  <2> QED
    BY <2>2 DEF ExecInv
<1>4. file.magic = "XEX2" /\ image # NoImage => XexAsMeant(file, image)
  BY <1>1, XexIsAsMeant DEF ExecInv
<1>5. file.magic = "ELF" /\ image # NoImage => ElfAsMeant(file, image)
  BY <1>2, ElfIsAsMeant DEF ExecInv
<1> QED
  BY <1>3, <1>4, <1>5 DEF ImagesAreWhole

(* Both loaders make of every file what it means: the words of its blocks  *)
(* are in the guest's memory, or in the sections of the image, where each  *)
(* address leads to its word and each import is bound, in every order of   *)
(* sections, libraries and thunks.                                         *)
THEOREM ImagesAreAlwaysWhole == ExecSpec => []ImagesAreWhole
<1>1. ExecInit(Executables) => ExecInv
  BY ExecInvStarts
<1>2. ExecInv /\ [ExecNext]_execVars => ExecInv'
  BY ExecInvStays
<1>3. ExecInv => ImagesAreWhole
  BY ExecInvSuffices
<1> QED
  BY <1>1, <1>2, <1>3, PTL DEF ExecSpec

-----------------------------------------------------------------------------
(* Sequences: a function on 1 .. n is one; and a splice, word by word.     *)
LEMMA SequenceOf ==
    ASSUME NEW n \in Nat, NEW f, f = [i \in 1 .. n |-> f[i]], NEW S, \A i \in 1 .. n : f[i] \in S
    PROVE  f \in Seq(S) /\ Len(f) = n
<1>1. f \in [1 .. n -> S]
  OBVIOUS
<1>2. f \in Seq(S)
  BY <1>1, SMT
<1>3. DOMAIN f = 1 .. n /\ DOMAIN f = 1 .. Len(f) /\ Len(f) \in Nat
  BY <1>1, <1>2, LenProperties
<1> QED
  BY <1>2, <1>3

(* A splice by its elements.                                               *)
LEMMA SplicedAt ==
    ASSUME NEW S, NEW words \in Seq(S), NEW offset \in Nat, NEW new \in Seq(S), offset + Len(new) <= Len(words)
    PROVE  /\ Splice(words, offset, new) =
                [i \in 1 .. Len(words) |->
                   IF offset < i /\ i <= offset + Len(new) THEN new[i - offset] ELSE words[i]]
           /\ Splice(words, offset, new) \in Seq(S) /\ Len(Splice(words, offset, new)) = Len(words)
<1> DEFINE a == SubSeq(words, 1, offset)
           n == Len(new)
           size == Len(words)
           b == SubSeq(words, offset + n + 1, size)
           ab == a \o new
           all == ab \o b
           m == offset + n
           r == size - m
<1>1. n \in Nat /\ size \in Nat /\ offset + n <= size
  OBVIOUS
<1>0. m \in Nat /\ r \in Nat /\ m + r = size /\ m = offset + n
  BY <1>1
<1>2. a \in Seq(S) /\ Len(a) = offset /\ \A i \in 1 .. offset : a[i] = words[i]
  BY <1>1
<1>3. b \in Seq(S) /\ Len(b) = size - (offset + n) /\ \A i \in 1 .. size - (offset + n) : b[i] = words[i + (offset + n)]
  BY <1>1
<1> HIDE DEF a, b
<1>4. ab \in Seq(S) /\ Len(ab) = offset + n /\ \A i \in 1 .. offset + n : ab[i] = IF i <= offset THEN a[i]
      ELSE new[i - offset]
  <2>1. a \in Seq(S)
    BY <1>2
  <2>2. /\ ab \in Seq(S) /\ Len(ab) = Len(a) + Len(new)
        /\ \A i \in 1 .. Len(a) + Len(new) : ab[i] = IF i <= Len(a) THEN a[i] ELSE new[i - Len(a)]
    BY <2>1, ConcatProperties
  <2> QED
    BY <1>2, <2>2
<1> HIDE DEF ab, n, size, m, r
<1>8. Len(ab) = m /\ Len(b) = r
  BY <1>3, <1>4 DEF m, r
<1>5. all \in Seq(S) /\ Len(all) = size /\ \A i \in 1 .. size : all[i] = IF i <= m THEN ab[i] ELSE b[i - m]
  <2>1. all \in Seq(S) /\ Len(all) = m + r /\ \A i \in 1 .. m + r : all[i] = IF i <= m THEN ab[i] ELSE b[i - m]
    <3>1. ab \in Seq(S)
      BY <1>4
    <3>2. b \in Seq(S)
      BY <1>3
    <3>3. /\ all \in Seq(S) /\ Len(all) = Len(ab) + Len(b)
          /\ \A i \in 1 .. Len(ab) + Len(b) : all[i] = IF i <= Len(ab) THEN ab[i] ELSE b[i - Len(ab)]
      BY <3>1, <3>2, ConcatProperties
    <3> QED
      BY <1>8, <3>3
  <2> QED
    BY <1>0, <2>1
<1> HIDE DEF all
<1>6. ASSUME NEW i \in 1 .. size PROVE all[i] = IF offset < i /\ i <= offset + n THEN new[i - offset] ELSE words[i]
  <2>1. CASE i <= offset
    BY <1>0, <1>1, <1>2, <1>4, <1>5, <2>1
  <2>2. CASE offset < i /\ i <= offset + n
    BY <1>0, <1>1, <1>4, <1>5, <2>2
  <2>3. CASE offset + n < i
    <3>1. i - (offset + n) \in 1 .. size - (offset + n) /\ (i - (offset + n)) + (offset + n) = i
      BY <1>1, <2>3
    <3>2. all[i] = b[i - (offset + n)]
      BY <1>0, <1>1, <1>5, <2>3
    <3>3. b[i - (offset + n)] = words[i]
      BY <1>3, <3>1
    <3> QED
      BY <1>1, <2>3, <3>2, <3>3
  <2> QED
    BY <1>1, <2>1, <2>2, <2>3
<1>7. all = [i \in 1 .. size |-> all[i]]
  BY <1>5
<1>9. Splice(words, offset, new) = all
  BY DEF Splice, all, ab, a, b, n, size
<1> QED
  BY <1>5, <1>6, <1>7, <1>9 DEF n, size

(* What apply does in place is a splice.                                   *)
LEMMA CopyIsSplice ==
    ASSUME NEW S, NEW words \in Seq(S), NEW offset \in Nat, NEW from \in Seq(S), NEW start \in Nat, NEW n \in Nat,
           offset + n <= Len(words), start + n <= Len(from)
    PROVE  Copy(words, offset, from, start, n) = Splice(words, offset, SubSeq(from, start + 1, start + n))
<1> DEFINE new == SubSeq(from, start + 1, start + n)
           size == Len(words)
<1>1. new \in Seq(S) /\ Len(new) = n /\ \A i \in 1 .. n : new[i] = from[start + i]
  <2>1. Len(from) \in Nat /\ (start + n) - (start + 1) + 1 = n
    OBVIOUS
  <2>2. CASE n = 0
    BY <2>1, <2>2
  <2>3. CASE n # 0
    BY <2>1, <2>3
  <2> QED
    BY <2>2, <2>3
<1> HIDE DEF new
<1>2. Splice(words, offset, new) =
        [i \in 1 .. size |-> IF offset < i /\ i <= offset + n THEN new[i - offset] ELSE words[i]]
  <2>1. offset + Len(new) <= Len(words) /\ Len(new) = n
    BY <1>1
  <2>2. new \in Seq(S)
    BY <1>1
  <2>3. Splice(words, offset, new) =
          [i \in 1 .. Len(words) |-> IF offset < i /\ i <= offset + Len(new) THEN new[i - offset] ELSE words[i]]
    BY <2>1, <2>2, SplicedAt
  <2> QED
    BY <2>1, <2>3
<1>3. DOMAIN words = 1 .. size /\ size \in Nat
  OBVIOUS
<1> HIDE DEF size
<1>4. Copy(words, offset, from, start, n) =
        [i \in 1 .. size |-> IF offset < i /\ i <= offset + n THEN from[start + i - offset] ELSE words[i]]
  BY <1>3 DEF Copy
<1>5. ASSUME NEW i \in 1 .. size, offset < i, i <= offset + n PROVE from[start + i - offset] = new[i - offset]
  <2>1. i - offset \in 1 .. n /\ start + (i - offset) = start + i - offset
    BY <1>3, <1>5
  <2> QED
    BY <1>1, <2>1
<1>6. Copy(words, offset, from, start, n) = Splice(words, offset, new)
  BY <1>2, <1>4, <1>5
<1> QED
  BY <1>6 DEF new

LEMMA ClearIsSplice ==
    ASSUME NEW words \in Seq(Words("plain")), NEW offset \in Nat, NEW n \in Nat, offset + n <= Len(words)
    PROVE  Clear0(words, offset, n) = Splice(words, offset, [i \in 1 .. n |-> Zero])
<1> DEFINE new == [i \in 1 .. n |-> Zero]
           size == Len(words)
<1>0. Zero \in Words("plain")
  BY DEF Zero, Word, Words
<1>1. new \in Seq(Words("plain")) /\ Len(new) = n
  BY <1>0, SequenceOf
<1>2. \A i \in 1 .. n : new[i] = Zero
  OBVIOUS
<1> HIDE DEF new
<1>3. Splice(words, offset, new) =
        [i \in 1 .. size |-> IF offset < i /\ i <= offset + n THEN new[i - offset] ELSE words[i]]
  BY <1>1, SplicedAt
<1>4. DOMAIN words = 1 .. size /\ size \in Nat
  OBVIOUS
<1> HIDE DEF size
<1>5. Clear0(words, offset, n) = [i \in 1 .. size |-> IF offset < i /\ i <= offset + n THEN Zero ELSE words[i]]
  BY <1>4 DEF Clear0
<1>6. ASSUME NEW i \in 1 .. size, offset < i, i <= offset + n PROVE new[i - offset] = Zero
  <2>1. i - offset \in 1 .. n
    BY <1>4, <1>6
  <2> QED
    BY <1>2, <2>1
<1>7. Clear0(words, offset, n) = Splice(words, offset, new)
  BY <1>3, <1>5, <1>6
<1> QED
  BY <1>7 DEF new

-----------------------------------------------------------------------------
(* The stages of the image.                                                *)
StagesFrom(f, first, edits, n) == f = [k \in 0 .. n |-> IF k = 0 THEN first ELSE Edited(f[k - 1], edits[k])]

LEMMA StagesExist ==
    ASSUME NEW first, NEW edits, NEW n \in Nat
    PROVE  \E f : StagesFrom(f, first, edits, n)
<1> DEFINE Walk(f, m) == [i \in 0 .. m |-> IF i = 0 THEN first ELSE Edited(f[i - 1], edits[i])]
           S == {m \in Nat : \E f : f = Walk(f, m)}
<1>1. 0 \in S
  <2> DEFINE f == [i \in 0 .. 0 |-> first]
  <2>1. f = Walk(f, 0)
    OBVIOUS
  <2> QED
    BY <2>1
<1>2. ASSUME NEW m \in S PROVE m + 1 \in S
  <2>1. PICK f : f = Walk(f, m)
    OBVIOUS
  <2> DEFINE g == [i \in 0 .. m + 1 |-> IF i = m + 1 THEN Edited(f[m], edits[m + 1]) ELSE f[i]]
  <2>2. ASSUME NEW i \in 0 .. m + 1 PROVE g[i] = IF i = 0 THEN first ELSE Edited(g[i - 1], edits[i])
    <3>1. CASE i = m + 1
      <4>1. m \in 0 .. m + 1 /\ i - 1 = m /\ m # m + 1 /\ i # 0
        BY <3>1
      <4>2. g[m] = f[m]
        BY <4>1
      <4>3. g[i] = Edited(f[m], edits[m + 1])
        BY <3>1
      <4> HIDE DEF g
      <4> QED
        BY <3>1, <4>1, <4>2, <4>3
    <3>2. CASE i # m + 1
      <4>1. i \in 0 .. m /\ (i # 0 => i - 1 \in 0 .. m + 1 /\ i - 1 # m + 1)
        BY <3>2
      <4>2. f[i] = IF i = 0 THEN first ELSE Edited(f[i - 1], edits[i])
        BY <2>1, <4>1
      <4>3. g[i] = f[i] /\ (i # 0 => g[i - 1] = f[i - 1])
        BY <3>2, <4>1
      <4> HIDE DEF g
      <4> QED
        BY <4>2, <4>3
    <3> QED
      BY <3>1, <3>2
  <2>3. g = Walk(g, m + 1)
    BY <2>2
  <2> HIDE DEF g
  <2> QED
    BY <2>3
<1> HIDE DEF S
<1>3. S = Nat
  BY <1>1, <1>2, SetInduction DEF S
<1>4. PICK f : f = Walk(f, n)
  BY <1>3 DEF S
<1> QED
  BY <1>4 DEF StagesFrom

LEMMA StagesAre ==
    ASSUME NEW p, Len(p.edits) \in Nat, NEW contents
    PROVE  /\ Stages(p, contents)[0] = Unedited(p, contents)
           /\ \A k \in 1 .. Len(p.edits) : Stages(p, contents)[k] = Edited(Stages(p, contents)[k - 1], p.edits[k])
<1> DEFINE n == Len(p.edits)
           edits == p.edits
           first == Unedited(p, contents)
           Walk(f) == [k \in 0 .. n |-> IF k = 0 THEN first ELSE Edited(f[k - 1], edits[k])]
           f == CHOOSE f : f = Walk(f)
<1>1. Stages(p, contents) = f
  BY DEF Stages
<1>2. n \in Nat
  OBVIOUS
<1>3. f = Walk(f)
  <2> HIDE DEF n, edits, first
  <2>1. PICK h : StagesFrom(h, first, edits, n)
    BY <1>2, StagesExist
  <2>2. h = Walk(h)
    BY <2>1 DEF StagesFrom
  <2> QED
    BY <2>2
<1> HIDE DEF f, n, edits, first
<1>4. f[0] = first
  <2>1. 0 \in 0 .. n
    BY <1>2
  <2> QED
    BY <1>3, <2>1
<1>5. ASSUME NEW k \in 1 .. n PROVE f[k] = Edited(f[k - 1], edits[k])
  <2>1. k \in 0 .. n /\ k # 0
    BY <1>2
  <2> QED
    BY <1>3, <2>1
<1> QED
  BY <1>1, <1>4, <1>5 DEF n, edits, first

(* Words with zeros behind them.                                           *)
Padded(words, size) == [i \in 1 .. size |-> IF i <= Len(words) THEN words[i] ELSE Zero]

LEMMA PaddedIs ==
    ASSUME NEW words \in Seq(Words("plain")), NEW size \in Nat, Len(words) <= size
    PROVE  /\ words \o [i \in 1 .. size - Len(words) |-> Zero] = Padded(words, size)
           /\ Padded(words, size) \in Seq(Words("plain")) /\ Len(Padded(words, size)) = size
<1> DEFINE n == Len(words)
           m == size - n
           zeros == [i \in 1 .. m |-> Zero]
           all == words \o zeros
           S == Words("plain")
<1>0. Zero \in S
  BY DEF Zero, Word, Words
<1>1. n \in Nat /\ m \in Nat /\ n + m = size
  OBVIOUS
<1> HIDE DEF n, m, S
<1>2. zeros \in Seq(S) /\ Len(zeros) = m
  BY <1>0, <1>1, SequenceOf
<1>3. \A i \in 1 .. m : zeros[i] = Zero
  OBVIOUS
<1> HIDE DEF zeros
<1>4. /\ all \in Seq(S) /\ Len(all) = n + m
      /\ \A i \in 1 .. n + m : all[i] = IF i <= n THEN words[i] ELSE zeros[i - n]
  <2>1. words \in Seq(S)
    BY DEF S
  <2>2. zeros \in Seq(S)
    BY <1>2
  <2>3. /\ all \in Seq(S) /\ Len(all) = Len(words) + Len(zeros)
        /\ \A i \in 1 .. Len(words) + Len(zeros) : all[i] = IF i <= Len(words) THEN words[i]
              ELSE zeros[i - Len(words)]
    BY <2>1, <2>2, ConcatProperties
  <2>4. Len(zeros) = m
    BY <1>2
  <2> QED
    BY <2>3, <2>4 DEF n
<1> HIDE DEF all
<1>5. all = [i \in 1 .. size |-> all[i]]
  <2>1. all \in Seq(S)
    BY <1>4
  <2>2. all = [i \in 1 .. Len(all) |-> all[i]]
    BY <2>1
  <2>3. Len(all) = size
    BY <1>1, <1>4
  <2> QED
    BY <2>2, <2>3
<1>6. ASSUME NEW i \in 1 .. size PROVE all[i] = IF i <= n THEN words[i] ELSE Zero
  <2>1. CASE i <= n
    BY <1>1, <1>4, <2>1
  <2>2. CASE ~ (i <= n)
    <3>1. i - n \in 1 .. m
      BY <1>1, <2>2
    <3> QED
      BY <1>1, <1>3, <1>4, <2>2, <3>1
  <2> QED
    BY <2>1, <2>2
<1>7. all = Padded(words, size)
  BY <1>5, <1>6 DEF Padded, n
<1> QED
  BY <1>1, <1>4, <1>7 DEF all, zeros, m, n, S

(* The image before the first edit.                                        *)
SizeOf(p) == DescriptorOf(p).newHeader.imageSize

LEMMA UneditedIs ==
    ASSUME NEW p, PatchIsWell(p), p.source \in Seq(Words("plain")), Len(p.source) <= SizeOf(p)
    PROVE  LET d == DescriptorOf(p)
               room == Padded(p.source, SizeOf(p))
           IN  /\ Unedited(p, p.source) =
                    IF d.imageSource = 0 THEN room ELSE Copy(room, d.imageTarget, room, d.imageSource, d.imageSize)
               /\ Unedited(p, p.source) \in Seq(Words("plain")) /\ Len(Unedited(p, p.source)) = SizeOf(p)
<1> DEFINE d == DescriptorOf(p)
           size == SizeOf(p)
           c == p.source
           room == Padded(c, size)
           S == Words("plain")
<1>1. size \in Nat
  BY DEF PatchIsWell, SizeOf
<1>2. /\ d.imageSource # 0 => /\ d.imageSource \in Nat /\ d.imageTarget \in Nat /\ d.imageSize \in Nat
                              /\ d.imageSource + d.imageSize <= size /\ d.imageTarget + d.imageSize <= size
  BY DEF PatchIsWell, EditsAreWell, SizeOf
<1>3. c \o [i \in 1 .. size - Len(c) |-> Zero] = room /\ room \in Seq(S) /\ Len(room) = size
  BY <1>1, PaddedIs
<1>4. Unedited(p, c) = IF d.imageSource = 0 THEN room
                       ELSE Splice(room, d.imageTarget, SubSeq(room, d.imageSource + 1, d.imageSource + d.imageSize))
  BY <1>3 DEF Unedited, SizeOf
<1> HIDE DEF d, size, c, room, S
<1>5. CASE d.imageSource = 0
  BY <1>3, <1>4, <1>5 DEF d, c, room, size, S
<1>6. CASE d.imageSource # 0
  <2> DEFINE from == d.imageSource
             to == d.imageTarget
             n == d.imageSize
             moved == SubSeq(room, from + 1, from + n)
  <2>1. from \in Nat /\ to \in Nat /\ n \in Nat /\ from + n <= Len(room) /\ to + n <= Len(room) /\ room \in Seq(S)
    BY <1>2, <1>3, <1>6
  <2> HIDE DEF from, to, n
  <2>2. Copy(room, to, room, from, n) = Splice(room, to, moved)
    BY <2>1, CopyIsSplice
  <2>3. moved \in Seq(S) /\ Len(moved) = n
    BY <2>1
  <2> HIDE DEF moved
  <2>4. Splice(room, to, moved) \in Seq(S) /\ Len(Splice(room, to, moved)) = Len(room)
    BY <2>1, <2>3, SplicedAt
  <2>5. Unedited(p, c) = Copy(room, to, room, from, n)
    BY <1>4, <1>6, <2>2 DEF from, to, n, moved
  <2>6. Unedited(p, c) \in Seq(S) /\ Len(Unedited(p, c)) = size
    BY <1>3, <2>2, <2>4, <2>5
  <2> QED
    BY <1>6, <2>5, <2>6 DEF from, to, n, d, c, room, size, S
<1> QED
  BY <1>5, <1>6

(* What applying the record of an edit does to the stage before it.        *)
IsEdit(p, k, words, edit) ==
    /\ k \in 1 .. Len(p.edits) /\ edit = p.edits[k]
    /\ words \in Seq(Words("plain")) /\ Len(words) = SizeOf(p) /\ words = Stages(p, p.source)[k - 1]

(* What the code does for a record is the edit it stands for.              *)
LEMMA EditIs ==
    ASSUME NEW p, PatchIsWell(p), Len(p.source) <= SizeOf(p), NEW k, NEW words, NEW edit, IsEdit(p, k, words, edit)
    PROVE  /\ edit.compressed \in Nat
           /\ edit.compressed = 0 => Clear0(words, edit.new, edit.length) = Edited(words, edit)
           /\ edit.compressed = 1 => Copy(words, edit.new, words, edit.old, edit.length) = Edited(words, edit)
           /\ edit.compressed > 1 =>
                /\ SubSeq(words, edit.old + 1, edit.old + edit.length) = edit.data.madeFor
                /\ Copy(words, edit.new, edit.data.result, 0, edit.length) = Edited(words, edit)
           /\ Edited(words, edit) \in Seq(Words("plain")) /\ Len(Edited(words, edit)) = SizeOf(p)
<1> DEFINE to == edit.new
           from == edit.old
           n == edit.length
           c == edit.compressed
           data == edit.data.result
           size == SizeOf(p)
           S == Words("plain")
<1>0. /\ k \in 1 .. Len(p.edits) /\ edit = p.edits[k]
      /\ words \in Seq(Words("plain")) /\ Len(words) = SizeOf(p) /\ words = Stages(p, p.source)[k - 1]
  BY DEF IsEdit
<1>1. to \in Nat /\ from \in Nat /\ n \in Nat /\ to + n <= size /\ from + n <= size /\ c \in Nat
  BY <1>0 DEF PatchIsWell, EditsAreWell, SizeOf
<1>2. c > 1 => /\ data \in Seq(S) /\ Len(data) = n
               /\ edit.data.madeFor = SubSeq(words, from + 1, from + n)
  BY <1>0 DEF PatchIsWell, EditsAreWell, SizeOf
<1>3. words \in Seq(S) /\ Len(words) = size
  BY <1>0
<1>4. Edited(words, edit) =
        Splice(words, to, CASE c = 0 -> [i \in 1 .. n |-> Zero]
                            [] c = 1 -> SubSeq(words, from + 1, from + n)
                            [] OTHER -> data)
  BY DEF Edited
<1> HIDE DEF to, from, n, c, data, size
<1>5. ASSUME NEW new \in Seq(S), Len(new) = n
      PROVE  Splice(words, to, new) \in Seq(S) /\ Len(Splice(words, to, new)) = size
  <2>1. to + Len(new) <= Len(words)
    BY <1>1, <1>3, <1>5
  <2> QED
    BY <1>1, <1>3, <2>1, SplicedAt
<1>6. CASE c = 0
  <2> DEFINE new == [i \in 1 .. n |-> Zero]
  <2>1. Zero \in S
    BY DEF Zero, Word, Words
  <2>0. n \in Nat /\ new = [i \in 1 .. n |-> new[i]] /\ \A i \in 1 .. n : new[i] \in S
    BY <1>1, <2>1
  <2> HIDE DEF new, S
  <2>2. new \in Seq(S) /\ Len(new) = n
    BY <2>0, SequenceOf
  <2>3. Edited(words, edit) = Splice(words, to, new)
    BY <1>4, <1>6 DEF new
  <2>4. Clear0(words, to, n) = Splice(words, to, new)
    BY <1>1, <1>3, ClearIsSplice DEF new, S
  <2>5. Edited(words, edit) \in Seq(S) /\ Len(Edited(words, edit)) = size
    BY <1>5, <2>2, <2>3
  <2> QED
    BY <1>1, <1>6, <2>3, <2>4, <2>5 DEF to, n, c, size, S
<1>7. CASE c = 1
  <2> DEFINE new == SubSeq(words, from + 1, from + n)
  <2>1. Copy(words, to, words, from, n) = Splice(words, to, new)
    <3> HIDE DEF S
    <3>1. to + n <= Len(words) /\ from + n <= Len(words)
      BY <1>1, <1>3
    <3> QED
      BY <1>1, <1>3, <3>1, CopyIsSplice
  <2>2. new \in Seq(S) /\ Len(new) = n
    BY <1>1, <1>3
  <2> HIDE DEF new, S
  <2>3. Edited(words, edit) = Splice(words, to, new)
    BY <1>4, <1>7 DEF new
  <2>4. Edited(words, edit) \in Seq(S) /\ Len(Edited(words, edit)) = size
    BY <1>5, <2>2, <2>3
  <2> QED
    BY <1>1, <1>7, <2>1, <2>3, <2>4 DEF to, from, n, c, size, S
<1>8. CASE c > 1
  <2>1. Edited(words, edit) = Splice(words, to, data)
    BY <1>1, <1>4, <1>8
  <2>3. Copy(words, to, data, 0, n) = Splice(words, to, data)
    <3> DEFINE none == 0
    <3>0. none \in Nat /\ none + n <= n /\ none + 1 = 1 /\ none + n = n
      BY <1>1
    <3>5. none = 0
      OBVIOUS
    <3> HIDE DEF S, none
    <3>1. to + n <= Len(words) /\ none + n <= Len(data) /\ data \in Seq(S)
      BY <1>1, <1>2, <1>3, <1>8, <3>0
    <3>2. to \in Nat /\ n \in Nat /\ words \in Seq(S)
      BY <1>1, <1>3
    <3>3. Copy(words, to, data, none, n) = Splice(words, to, SubSeq(data, none + 1, none + n))
      BY <3>0, <3>1, <3>2, CopyIsSplice
    <3>4. SubSeq(data, 1, n) = data
      BY <1>1, <1>2, <1>8
    <3> QED
      BY <3>0, <3>3, <3>4, <3>5
  <2>4. Edited(words, edit) \in Seq(S) /\ Len(Edited(words, edit)) = size
    BY <1>2, <1>5, <1>8, <2>1
  <2>5. SubSeq(words, from + 1, from + n) = edit.data.madeFor
    BY <1>2, <1>8
  <2>6. Copy(words, to, data, 0, n) = Edited(words, edit)
    BY <2>1, <2>3
  <2>7. c \in Nat /\ c # 0 /\ c # 1
    BY <1>1, <1>8
  <2> QED
    BY <2>4, <2>5, <2>6, <2>7 DEF to, from, n, c, data, size, S
<1>9. c = 0 \/ c = 1 \/ c > 1
  BY <1>1
<1> QED
  BY <1>6, <1>7, <1>8, <1>9

(* The image keeps its size and its words stay plain.                      *)
LEMMA StagesAreImages ==
    ASSUME NEW p, PatchIsWell(p), p.source \in Seq(Words("plain")), Len(p.source) <= SizeOf(p)
    PROVE  \A k \in 0 .. Len(p.edits) :
             Stages(p, p.source)[k] \in Seq(Words("plain")) /\ Len(Stages(p, p.source)[k]) = SizeOf(p)
<1> DEFINE n == Len(p.edits)
           stage == Stages(p, p.source)
           Good(words) == words \in Seq(Words("plain")) /\ Len(words) = SizeOf(p)
           S == {k \in Nat : k \in 0 .. n => Good(stage[k])}
<1>1. n \in Nat
  BY DEF PatchIsWell
<1>2. stage[0] = Unedited(p, p.source) /\ \A k \in 1 .. n : stage[k] = Edited(stage[k - 1], p.edits[k])
  BY <1>1, StagesAre
<1>3. 0 \in S
  BY <1>2, UneditedIs
<1>4. ASSUME NEW k \in S PROVE k + 1 \in S
  <2> SUFFICES ASSUME k + 1 \in 0 .. n PROVE Good(stage[k + 1])
    OBVIOUS
  <2> DEFINE m == k + 1
  <2>1. k \in 0 .. n /\ m \in 1 .. n /\ m - 1 = k
    BY <1>1
  <2>2. Good(stage[k])
    BY <2>1
  <2> HIDE DEF m, S, n
  <2>3. stage[m] = Edited(stage[k], p.edits[m])
    BY <1>2, <2>1
  <2>4. stage[k] = Stages(p, p.source)[m - 1]
    BY <2>1
  <2> DEFINE words == stage[k]
             edit == p.edits[m]
  <2>5. words \in Seq(Words("plain")) /\ Len(words) = SizeOf(p) /\ words = Stages(p, p.source)[m - 1]
    BY <2>2, <2>4
  <2> HIDE DEF words, edit
  <2>6. edit = p.edits[m] /\ m \in 1 .. Len(p.edits)
    BY <2>1 DEF edit, n
  <2>8. IsEdit(p, m, words, edit)
    BY <2>5, <2>6 DEF IsEdit
  <2>7. Edited(words, edit) \in Seq(Words("plain")) /\ Len(Edited(words, edit)) = SizeOf(p)
    BY <2>8, EditIs
  <2> QED
    BY <2>3, <2>7 DEF m, words, edit
<1> HIDE DEF S
<1>5. S = Nat
  BY <1>3, <1>4, SetInduction DEF S
<1> QED
  BY <1>1, <1>5 DEF S

(* Turning the blocks over from the last to the first writes what they     *)
(* mean, and a block's words are still there when its turn comes: packing  *)
(* makes nothing longer.                                                   *)
Turned(words, blocks, size, m) ==
    [image |-> [k \in 1 .. size |-> IF UnpackedSize(blocks)[m] < k /\ k <= SizeUnpacked(blocks)
                                    THEN Meaning(blocks, words)[k] ELSE words[k]],
     out |-> UnpackedSize(blocks)[m], src |-> PackedSize(blocks)[m]]

(* Copying a block up leaves the ones whose turn is to come: it ends at or *)
(* above them.                                                             *)
LEMMA BlockIsTurned ==
    ASSUME NEW blocks, AreBlocks(blocks), NEW size \in Nat, SizeUnpacked(blocks) <= size, NEW words,
           NEW m \in 1 .. Len(blocks)
    PROVE  UnpackBlock(blocks[m], Turned(words, blocks, size, m)) = Turned(words, blocks, size, m - 1)
<1> DEFINE p == PackedSize(blocks)[m - 1]
           q == PackedSize(blocks)[m]
           u == UnpackedSize(blocks)[m - 1]
           v == UnpackedSize(blocks)[m]
           top == SizeUnpacked(blocks)
           d == blocks[m].dataSize
           z == blocks[m].zeroSize
           meaning == Meaning(blocks, words)
           old == Turned(words, blocks, size, m).image
           zeros == Clear0(old, v - z, z)
           new == Copy(zeros, v - z - d, zeros, q - d, d)
<1>0. Len(blocks) \in Nat /\ m - 1 \in 0 .. Len(blocks) /\ m \in 0 .. Len(blocks) /\ Len(blocks) \in 0 .. Len(blocks)
  BY DEF AreBlocks
<1>1. p \in Nat /\ u \in Nat /\ d \in Nat /\ z \in Nat /\ v = u + d + z /\ q = p + d
  <2>1. p \in Nat /\ q = p + d
    BY <1>0, PackedSizes
  <2>2. u \in Nat /\ v = u + d + z
    BY <1>0, UnpackedSizes
  <2> QED
    BY <2>1, <2>2 DEF AreBlocks
<1>2. ASSUME NEW k \in 1 .. size, u < k, k <= v
      PROVE  meaning[k] = IF k - u <= d THEN words[p + (k - u)] ELSE Zero
  <2>1. k \in Nat
    OBVIOUS
  <2> QED
    BY <1>2, <2>1, MeaningAt
<1>3. p <= u /\ v <= top /\ top \in Nat
  <2>1. m <= Len(blocks)
    OBVIOUS
  <2>2. p <= u
    BY <1>0, SizesGrow
  <2>3. v <= top
    BY <1>0, <2>1, SizesGrow DEF SizeUnpacked
  <2>4. top \in Nat
    BY <1>0, UnpackedSizes DEF SizeUnpacked
  <2> QED
    BY <2>2, <2>3, <2>4
<1>4. UnpackBlock(blocks[m], Turned(words, blocks, size, m)) = [image |-> new, out |-> v - z - d, src |-> q - d]
  BY DEF UnpackBlock, Turned
<1>5. old = [k \in 1 .. size |-> IF v < k /\ k <= top THEN meaning[k] ELSE words[k]]
  BY DEF Turned
<1>6. top <= size
  OBVIOUS
<1> HIDE DEF p, q, u, v, d, z, meaning, old, top
<1>7. v - z - d = u /\ q - d = p /\ v - z = u + d /\ u + d + z = v
  BY <1>1
<1>8. zeros = [k \in 1 .. size |-> IF u + d < k /\ k <= v THEN Zero ELSE old[k]]
  <2>1. zeros = [k \in 1 .. size |-> IF v - z < k /\ k <= v - z + z THEN Zero ELSE old[k]]
    BY <1>5 DEF Clear0
  <2>2. v - z + z = v
    BY <1>1
  <2> HIDE DEF zeros
  <2> QED
    BY <1>7, <2>1, <2>2
<1> HIDE DEF zeros
<1>9. new = [k \in 1 .. size |-> IF u < k /\ k <= u + d THEN zeros[p + k - u] ELSE zeros[k]]
  <2>1. new = [k \in 1 .. size |-> IF v - z - d < k /\ k <= v - z - d + d
        THEN zeros[q - d + k - (v - z - d)] ELSE zeros[k]]
    BY <1>8 DEF Copy
  <2> HIDE DEF new
  <2> QED
    BY <1>7, <2>1
<1> HIDE DEF new
<1>10. ASSUME NEW k \in 1 .. size PROVE new[k] = IF u < k /\ k <= top THEN meaning[k] ELSE words[k]
  <2>1. k \in Nat /\ p + k - u = p + (k - u)
    BY <1>1
  <2>2. CASE k <= u
    <3>1. ~ (u < k) /\ ~ (u + d < k) /\ ~ (v < k)
      BY <1>1, <2>1, <2>2
    <3> QED
      BY <1>5, <1>8, <1>9, <3>1
  <2>3. CASE u < k /\ k <= u + d
    <3> DEFINE j == p + (k - u)
    <3>1. j \in 1 .. size /\ j <= u + d
      BY <1>1, <1>3, <1>6, <2>1, <2>3
    <3>2. ~ (u + d < j) /\ ~ (v < j)
      BY <1>1, <3>1
    <3>3. k <= v /\ k <= top /\ k - u <= d
      BY <1>1, <1>3, <2>1, <2>3
    <3>4. new[k] = zeros[j]
      BY <1>9, <2>1, <2>3
    <3>5. meaning[k] = words[j]
      BY <1>2, <2>3, <3>3
    <3> HIDE DEF j
    <3>6. zeros[j] = words[j]
      BY <1>5, <1>8, <3>1, <3>2
    <3> QED
      BY <2>3, <3>3, <3>4, <3>5, <3>6
  <2>4. CASE u + d < k /\ k <= v
    <3>1. u < k /\ ~ (k <= u + d) /\ ~ (k - u <= d) /\ k <= top
      BY <1>1, <1>3, <2>1, <2>4
    <3>2. new[k] = zeros[k] /\ zeros[k] = Zero
      BY <1>8, <1>9, <2>4, <3>1
    <3>3. meaning[k] = Zero
      BY <1>2, <2>4, <3>1
    <3> QED
      BY <3>1, <3>2, <3>3
  <2>5. CASE v < k
    <3>1. u < k /\ ~ (k <= u + d) /\ ~ (k <= v)
      BY <1>1, <2>1, <2>5
    <3> QED
      BY <1>5, <1>8, <1>9, <2>5, <3>1
  <2>6. k <= u \/ (u < k /\ k <= u + d) \/ (u + d < k /\ k <= v) \/ v < k
    BY <1>1, <2>1
  <2> QED
    BY <2>2, <2>3, <2>4, <2>5, <2>6
<1>11. new = [k \in 1 .. size |-> IF u < k /\ k <= top THEN meaning[k] ELSE words[k]]
  BY <1>9, <1>10
<1>12. Turned(words, blocks, size, m - 1) = [image |-> new, out |-> u, src |-> p]
  BY <1>11 DEF Turned, u, p, top, meaning
<1> QED
  BY <1>4, <1>7, <1>12

IsBuffer(words, size) == words = [k \in 1 .. size |-> words[k]]

(* So unpacking in place gives what the blocks mean.                       *)
LEMMA UnpackInPlaceIs ==
    ASSUME NEW blocks, AreBlocks(blocks), NEW size \in Nat, SizeUnpacked(blocks) <= size,
           NEW words, IsBuffer(words, size)
    PROVE  UnpackInPlace(words, blocks) =
             [k \in 1 .. size |-> IF k <= SizeUnpacked(blocks) THEN Meaning(blocks, words)[k] ELSE words[k]]
<1> DEFINE n == Len(blocks)
           T(m) == Turned(words, blocks, size, m)
           first == [image |-> words, out |-> SizeUnpacked(blocks), src |-> PackedSize(blocks)[n]]
           Walk(f) == [i \in 0 .. n |-> IF i = 0 THEN first ELSE UnpackBlock(blocks[n + 1 - i], f[i - 1])]
           g == [i \in 0 .. n |-> T(n - i)]
           f == CHOOSE f : f = Walk(f)
<1>1. UnpackInPlace(words, blocks) = f[n].image
  BY DEF UnpackInPlace
<1>2. n \in Nat
  BY DEF AreBlocks
<1>3. /\ UnpackedSize(blocks)[0] = 0 /\ SizeUnpacked(blocks) = UnpackedSize(blocks)[n]
      /\ SizeUnpacked(blocks) \in Nat
  BY <1>2, UnpackedSizes DEF SizeUnpacked
<1>4. \A m \in 1 .. n : UnpackBlock(blocks[m], T(m)) = T(m - 1)
  BY BlockIsTurned
<1>5. T(n) = first
  <2>1. \A k \in 1 .. size : ~ (UnpackedSize(blocks)[n] < k /\ k <= SizeUnpacked(blocks))
    BY <1>3
  <2> QED
    BY <1>3, <2>1 DEF Turned, IsBuffer
<1>6. T(0).image = [k \in 1 .. size |-> IF k <= SizeUnpacked(blocks) THEN Meaning(blocks, words)[k] ELSE words[k]]
  <2>1. \A k \in 1 .. size : UnpackedSize(blocks)[0] < k
    BY <1>3
  <2> QED
    BY <2>1 DEF Turned
<1> HIDE DEF n, T, first
<1>7. ASSUME NEW i \in 0 .. n PROVE g[i] = IF i = 0 THEN first ELSE UnpackBlock(blocks[n + 1 - i], g[i - 1])
  <2>1. CASE i = 0
    <3>1. n - i = n
      BY <1>2, <2>1
    <3> QED
      BY <1>5, <2>1, <3>1
  <2>2. CASE i # 0
    <3> DEFINE m == n + 1 - i
    <3>1. m \in 1 .. n /\ m - 1 = n - i /\ n - (i - 1) = m /\ i - 1 \in 0 .. n
      BY <1>2, <2>2
    <3>2. g[i] = T(m - 1) /\ g[i - 1] = T(m)
      BY <3>1
    <3> HIDE DEF m, g
    <3>3. UnpackBlock(blocks[m], T(m)) = T(m - 1)
      BY <1>4, <3>1
    <3> QED
      BY <2>2, <3>2, <3>3 DEF m
  <2> QED
    BY <2>1, <2>2
<1>8. g = Walk(g)
  BY <1>7
<1>9. f = Walk(f)
  BY <1>8
<1> HIDE DEF f
<1>10. ASSUME NEW i \in 0 .. n PROVE f[i] = IF i = 0 THEN first ELSE UnpackBlock(blocks[n + 1 - i], f[i - 1])
  BY <1>9
<1>11. g[n] = T(0)
  <2>1. n - n = 0 /\ n \in 0 .. n
    BY <1>2
  <2> QED
    BY <2>1
<1> HIDE DEF g
<1>12. f[0] = g[0]
  <2>1. 0 \in 0 .. n
    BY <1>2
  <2> QED
    BY <1>7, <1>10, <2>1
<1>13. ASSUME NEW i \in 1 .. n, f[i - 1] = g[i - 1] PROVE f[i] = g[i]
  <2>1. i \in 0 .. n /\ i # 0
    BY <1>2
  <2> QED
    BY <1>7, <1>10, <1>13, <2>1
<1>14. \A i \in 0 .. n : f[i] = g[i]
  BY <1>2, <1>12, <1>13, Agree
<1>15. f[n] = T(0)
  BY <1>2, <1>11, <1>14
<1> QED
  BY <1>1, <1>6, <1>15

(* In a buffer with room for the image, what apply makes of a plain body   *)
(* with zeros behind it is the contents with zeros behind them.            *)
LEMMA UnpackInPlaceGivesContents ==
    ASSUME NEW xex, BodyIsWell(xex), FormatOf(xex).compression = "BASIC", NEW size \in Nat, ImageSize(xex) <= size
    PROVE  UnpackInPlace(Padded(Plain(xex), size), FormatOf(xex).blocks) = Padded(ContentsOf(xex), size)
<1> DEFINE blocks == FormatOf(xex).blocks
           words == Padded(Plain(xex), size)
           packed == PackedSize(blocks)[Len(blocks)]
           unpacked == SizeUnpacked(blocks)
<1>1. AreBlocks(blocks) /\ Len(blocks) \in Nat
  BY BlocksOfBody DEF AreBlocks
<1>2. ContentsOf(xex) = Meaning(blocks, Plain(xex)) /\ ImageSize(xex) = unpacked /\ unpacked \in Nat
  BY ContentsAreWords DEF ImageSize
<1>3. Len(xex.body) = packed /\ packed \in Nat /\ packed <= unpacked
  <2>1. Len(blocks) \in 0 .. Len(blocks)
    BY <1>1
  <2>2. Len(xex.body) = packed
    BY DEF BodyIsWell
  <2> QED
    BY <1>1, <2>1, <2>2, SizesGrow, BodyIsPlain DEF SizeUnpacked
<1>4. Len(Plain(xex)) = packed
  <2>1. DOMAIN Plain(xex) = 1 .. Len(xex.body)
    BY BodyIsPlain
  <2>2. Plain(xex) = [i \in 1 .. packed |-> Plain(xex)[i]]
    BY <1>3, <2>1 DEF Plain
  <2>3. \A i \in 1 .. packed : Plain(xex)[i] \in Words("plain")
    BY <1>3, BodyIsPlain
  <2> HIDE DEF packed
  <2> QED
    BY <1>3, <2>2, <2>3, SequenceOf
<1>5. words = [k \in 1 .. size |-> IF k <= packed THEN Plain(xex)[k] ELSE Zero]
  BY <1>4 DEF Padded
<1>6. words = [k \in 1 .. size |-> words[k]]
  BY <1>5
<1>7. \A j \in 1 .. packed : j \in 1 .. size /\ words[j] = Plain(xex)[j]
  <2>1. \A j \in 1 .. packed : j \in 1 .. size /\ j <= packed
    BY <1>2, <1>3
  <2> QED
    BY <1>5, <2>1
<1>8. UnpackInPlace(words, blocks) = [k \in 1 .. size |-> IF k <= unpacked THEN Meaning(blocks, words)[k]
      ELSE words[k]]
  <2>1. SizeUnpacked(blocks) <= size /\ AreBlocks(blocks)
    BY <1>1, <1>2
  <2>2. IsBuffer(words, size)
    BY <1>6 DEF IsBuffer
  <2> HIDE DEF words, blocks, unpacked
  <2>3. UnpackInPlace(words, blocks) =
          [k \in 1 .. size |-> IF k <= SizeUnpacked(blocks) THEN Meaning(blocks, words)[k] ELSE words[k]]
    BY <2>1, <2>2, UnpackInPlaceIs
  <2> QED
    BY <2>3 DEF unpacked
<1>9. ASSUME NEW k \in 1 .. unpacked PROVE Meaning(blocks, words)[k] = ContentsOf(xex)[k]
  <2>1. \/ \A body : Meaning(blocks, body)[k] = Zero
        \/ \E j \in 1 .. packed : \A body : Meaning(blocks, body)[k] = body[j]
    BY <1>1, WordOfMeaning
  <2> HIDE DEF words, packed, unpacked, blocks
  <2> QED
    BY <1>2, <1>7, <2>1
<1>10. Len(ContentsOf(xex)) = unpacked
  <2>1. ContentsOf(xex) = [k \in 1 .. unpacked |-> ContentsOf(xex)[k]]
        /\ \A k \in 1 .. unpacked : ContentsOf(xex)[k] \in Words("plain")
    BY <1>2, ContentsAreWords
  <2> HIDE DEF unpacked
  <2> QED
    BY <1>2, <2>1, SequenceOf
<1> HIDE DEF words, packed, unpacked, blocks
<1>11. ASSUME NEW k \in 1 .. size
       PROVE  (IF k <= unpacked THEN Meaning(blocks, words)[k] ELSE words[k]) = IF k <= unpacked
             THEN ContentsOf(xex)[k] ELSE Zero
  <2>1. CASE k <= unpacked
    <3>1. k \in 1 .. unpacked
      BY <1>2, <2>1
    <3> QED
      BY <1>9, <2>1, <3>1
  <2>2. CASE ~ (k <= unpacked)
    <3>1. ~ (k <= packed)
      BY <1>2, <1>3, <2>2
    <3> QED
      BY <1>5, <2>2, <3>1
  <2> QED
    BY <2>1, <2>2
<1> QED
  BY <1>8, <1>10, <1>11 DEF Padded, words, blocks

-----------------------------------------------------------------------------
(* The chain of blocks: a place is a block and an offset in it, and the    *)
(* place behind the last block's end is the end of the chain.              *)
Info(p, i) == IF i = 1 THEN FormatOf(p).first ELSE p.made[i - 1].next
OnChain(p, place) == place = <<Len(p.made) + 1, 0>> \/ place \in DOMAIN p.before
Passed(p, place) == IF place = <<Len(p.made) + 1, 0>> THEN Len(p.edits) ELSE p.before[place]

(* The first block is the one that the header announces.                   *)
LEMMA ChainStarts ==
    ASSUME NEW p, BlocksAreWell(p)
    PROVE  OnChain(p, <<1, 0>>) /\ Passed(p, <<1, 0>>) = 0
<1> DEFINE n == Len(p.made)
<1>1. n \in Nat
  BY DEF BlocksAreWell
<1>2. CASE n = 0
  <2>1. Len(p.edits) = 0
    BY <1>2 DEF BlocksAreWell
  <2>2. n + 1 = 1
    BY <1>2
  <2> QED
    BY <2>1, <2>2 DEF OnChain, Passed
<1>3. CASE n # 0
  <2>1. <<1, 0>> \in DOMAIN p.before /\ p.before[<<1, 0>>] = 0
    BY <1>3 DEF BlocksAreWell
  <2>2. n + 1 # 1
    BY <1>1, <1>3
  <2>3. <<1, 0>> # <<n + 1, 0>>
    BY <2>2
  <2> QED
    BY <2>1, <2>3 DEF OnChain, Passed
<1> QED
  BY <1>2, <1>3

LEMMA BlocksFollow ==
    ASSUME NEW p, BlocksAreWell(p)
    PROVE  /\ Len(p.made) \in Nat
           /\ \A i \in 1 .. Len(p.made) : Info(p, i).size > 0 /\ Info(p, i).hash = p.made[i]
                 /\ Info(p, i + 1) = p.made[i].next
           /\ Info(p, Len(p.made) + 1).size = 0
           /\ Info(p, 1) = FormatOf(p).first
<1> DEFINE n == Len(p.made)
<1>1. n \in Nat
  BY DEF BlocksAreWell
<1>2. \A i \in 1 .. n : Info(p, i).size > 0 /\ Info(p, i).hash = p.made[i]
  BY DEF BlocksAreWell, Info
<1>3. Info(p, n + 1).size = 0
  BY DEF BlocksAreWell, Info
<1>4. ASSUME NEW i \in 1 .. n PROVE Info(p, i + 1) = p.made[i].next
  <2>1. i + 1 # 1 /\ (i + 1) - 1 = i
    BY <1>1
  <2> QED
    BY <2>1 DEF Info
<1>5. Info(p, 1) = FormatOf(p).first
  BY DEF Info
<1> QED
  BY <1>1, <1>2, <1>3, <1>4, <1>5

IsAt(p, i, offset, b, k) == <<i, offset>> \in DOMAIN p.before /\ b = p.made[i] /\ k = p.before[<<i, offset>>]

Follows(p, i, offset, b, k) ==
    /\ i \in 1 .. Len(p.made) /\ k \in 0 .. Len(p.edits)
    /\ <<i, offset>> # <<Len(p.made) + 1, 0>>
    /\ IsOver(b, offset) => OnChain(p, <<i + 1, 0>>) /\ Passed(p, <<i + 1, 0>>) = k
    /\ ~IsOver(b, offset) =>
         /\ k + 1 \in 1 .. Len(p.edits) /\ RecordIn(b, offset) = p.edits[k + 1]
         /\ <<i, Behind(offset, RecordIn(b, offset))>> \in DOMAIN p.before
         /\ p.before[<<i, Behind(offset, RecordIn(b, offset))>>] = k + 1

(* From each place the chain leads on to the next edit or ends with the    *)
(* last.                                                                   *)
LEMMA ChainGoesOn ==
    ASSUME NEW p, BlocksAreWell(p), Len(p.edits) \in Nat, NEW i, NEW offset, NEW b, NEW k, IsAt(p, i, offset, b, k)
    PROVE  Follows(p, i, offset, b, k)
<1> DEFINE n == Len(p.made)
           place == <<i, offset>>
           record == RecordIn(b, offset)
           over == IsOver(b, offset)
           next == IF over THEN <<i + 1, 0>> ELSE <<i, Behind(offset, record)>>
           passed == k + IF over THEN 0 ELSE 1
<1>1. place \in DOMAIN p.before /\ place[1] = i /\ place[2] = offset /\ b = p.made[i] /\ k = p.before[place]
  BY DEF IsAt
<1>2. /\ i \in 1 .. n /\ k \in 0 .. Len(p.edits)
      /\ ~over => passed <= Len(p.edits) /\ record = p.edits[passed]
      /\ IF next = <<n + 1, 0>> THEN passed = Len(p.edits)
         ELSE next \in DOMAIN p.before /\ p.before[next] = passed
  BY <1>1 DEF BlocksAreWell
<1>3. n \in Nat
  BY DEF BlocksAreWell
<1>4. i # n + 1
  BY <1>2, <1>3
<1> HIDE DEF n, record, over
<1>5. CASE over
  <2>1. passed = k /\ next = <<i + 1, 0>>
    BY <1>2, <1>5
  <2> HIDE DEF passed, next
  <2>2. OnChain(p, next) /\ Passed(p, next) = k
    BY <1>2, <2>1 DEF OnChain, Passed, n
  <2> QED
    BY <1>2, <1>4, <1>5, <2>1, <2>2 DEF n, over, Follows
<1>6. CASE ~over
  <2>1. passed = k + 1 /\ next = <<i, Behind(offset, record)>>
    BY <1>2, <1>6
  <2>2. next # <<n + 1, 0>>
    BY <1>4, <2>1
  <2> HIDE DEF passed, next
  <2>3. k + 1 \in 1 .. Len(p.edits)
    BY <1>2, <1>6, <2>1
  <2>4. next \in DOMAIN p.before /\ p.before[next] = k + 1 /\ record = p.edits[k + 1]
    BY <1>2, <1>6, <2>1, <2>2
  <2> QED
    BY <1>2, <1>4, <1>6, <2>1, <2>3, <2>4 DEF n, over, record, Follows
<1> QED
  BY <1>5, <1>6

-----------------------------------------------------------------------------
(* The buffer of apply, from the base's body to its contents.              *)
LEMMA PlainIsSequence ==
    ASSUME NEW xex, BodyIsWell(xex)
    PROVE  Plain(xex) \in Seq(Words("plain")) /\ Len(Plain(xex)) = Len(xex.body) /\ Len(xex.body) \in Nat
<1> DEFINE n == Len(xex.body)
<1>1. DOMAIN Plain(xex) = 1 .. n /\ n \in Nat /\ \A i \in 1 .. n : Plain(xex)[i] \in Words("plain")
  BY BodyIsPlain
<1>2. Plain(xex) = [i \in 1 .. n |-> Plain(xex)[i]]
  BY <1>1 DEF Plain
<1> HIDE DEF n
<1>3. Plain(xex) \in Seq(Words("plain")) /\ Len(Plain(xex)) = n
  BY <1>1, <1>2, SequenceOf
<1> QED
  BY <1>1, <1>3 DEF n

LEMMA ContentsAreSequence ==
    ASSUME NEW xex, BodyIsWell(xex)
    PROVE  ContentsOf(xex) \in Seq(Words("plain")) /\ Len(ContentsOf(xex)) = ImageSize(xex) /\ ImageSize(xex) \in Nat
<1> DEFINE n == ImageSize(xex)
           c == ContentsOf(xex)
<1>1. c = [k \in 1 .. n |-> c[k]] /\ n \in Nat /\ \A i \in 1 .. n : c[i] \in Words("plain")
  BY ContentsAreWords
<1> HIDE DEF n, c
<1>2. c \in Seq(Words("plain")) /\ Len(c) = n
  BY <1>1, SequenceOf
<1> QED
  BY <1>1, <1>2 DEF n, c

(* Decrypting the body leaves the room behind it.                          *)
LEMMA DecryptedInPlace ==
    ASSUME NEW xex, BodyIsWell(xex), NEW size \in Nat, Len(xex.body) <= size, FormatOf(xex).encryption = "NORMAL",
           NEW words, words = Padded(xex.body, size)
    PROVE  Decrypt(Unwrap("retail", xex.aesKey), SubSeq(words, 1, Len(xex.body)))
             \o SubSeq(words, Len(xex.body) + 1, Len(words)) = Padded(Plain(xex), size)
<1> DEFINE body == xex.body
           n == Len(body)
           S == Words(BodyKey(xex)) \cup {Zero}
           m == size - n
           front == SubSeq(words, 1, n)
           back == SubSeq(words, n + 1, Len(words))
           zeros == [i \in 1 .. m |-> Zero]
<1>1. body \in Seq(Words(BodyKey(xex)))
  BY DEF BodyIsWell
<1>2. n \in Nat /\ body = [i \in 1 .. n |-> body[i]] /\ \A i \in 1 .. n : body[i] \in S
  BY <1>1
<1>3. words = [i \in 1 .. size |-> IF i <= n THEN body[i] ELSE Zero] /\ n <= size
  BY DEF Padded
<1> HIDE DEF body, n, S
<1>4. m \in Nat /\ n + m = size
  BY <1>2, <1>3
<1>5. words \in Seq(S) /\ Len(words) = size
  <2>1. words = [i \in 1 .. size |-> words[i]]
    BY <1>3
  <2>2. \A i \in 1 .. size : words[i] \in S
    <3>1. Zero \in S
      BY DEF S
    <3>2. \A i \in 1 .. size : i <= n => i \in 1 .. n
      BY <1>2
    <3> QED
      BY <1>2, <1>3, <3>1, <3>2
  <2> QED
    BY <2>1, <2>2, SequenceOf
<1> HIDE DEF m
<1>6. front = body
  <2>1. front = [i \in 1 .. n |-> words[i]]
    BY <1>2, <1>3, <1>5
  <2>2. \A i \in 1 .. n : words[i] = body[i]
    BY <1>2, <1>3
  <2> QED
    BY <1>2, <2>1, <2>2
<1>7. back = zeros
  <2>1. back \in Seq(S) /\ Len(back) = m /\ \A i \in 1 .. m : back[i] = words[i + n]
    <3>1. n \in Nat /\ size \in Nat /\ n <= size /\ m = size - n
      BY <1>2, <1>3 DEF m
    <3>2. back = SubSeq(words, n + 1, size) /\ words \in Seq(S) /\ Len(words) = size
      BY <1>5
    <3> HIDE DEF back
    <3>3. back \in Seq(S) /\ Len(back) = size - n /\ \A i \in 1 .. size - n : back[i] = words[i + n]
      BY <3>1, <3>2
    <3> QED
      BY <3>1, <3>3
  <2>2. \A i \in 1 .. m : words[i + n] = Zero
    BY <1>2, <1>3, <1>4
  <2> HIDE DEF back
  <2>3. back = [i \in 1 .. m |-> back[i]]
    BY <2>1
  <2> QED
    BY <2>1, <2>2, <2>3
<1>8. Decrypt(Unwrap("retail", xex.aesKey), body) = Plain(xex)
  BY BodyIsPlain DEF body
<1>9. Plain(xex) \in Seq(Words("plain")) /\ Len(Plain(xex)) = n
  BY PlainIsSequence DEF n, body
<1>10. Plain(xex) \o [i \in 1 .. size - Len(Plain(xex)) |-> Zero] = Padded(Plain(xex), size)
  BY <1>3, <1>9, PaddedIs
<1>11. size - Len(Plain(xex)) = m
  BY <1>9 DEF m
<1> QED
  BY <1>6, <1>7, <1>8, <1>10, <1>11 DEF body, n

-----------------------------------------------------------------------------
(* The invariant: what apply has established at each place.                *)
Checked == {"header", "keys", "decrypt", "unpack", "format", "block", "records", "write"}
Agreeing == {"decrypt", "unpack", "format", "block", "records", "write"}

Agreed == BaseKey = patch.sourceKey
MadeFor == base.header = Descriptor.madeFor /\ MovesAreApart(patch)
Fits == BodyIsWell(base) /\ (MadeFor => Len(ContentsOf(base)) <= SizeOf(patch))
HasBody == MadeFor => out = Padded(base.body, SizeOf(patch)) /\ ~ (Len(base.body) > SizeOf(patch))
HasContents == MadeFor => out = Padded(ContentsOf(base), SizeOf(patch))
ImageIs(k) == MadeFor /\ ContentsOf(base) = patch.source => out = Stages(patch, patch.source)[k]

OutputIsWell ==
    /\ at \notin {"write", "over"} => output \in {"none", "old"}
    /\ at # "over" => ~closeFailed
    /\ result \notin {Pending, "Success"} =>
         output \in IF result = "FileWriteFailed" THEN {"none"} ELSE {"none", "old"}
    /\ result = "Success" /\ ~skipData /\ ~closeFailed => output = "whole"

AfterDecryption ==
    /\ BaseFormat # Missing /\ BaseFormat.encryption \in {"NONE", "NORMAL"}
    /\ BodyIsWell(base) /\ MadeFor =>
         out = Padded(Plain(base), SizeOf(patch)) /\ Len(base.body) <= SizeOf(patch)

BeforeBlock ==
    /\ DOMAIN block = {"number", "offset", "size", "hash"}
    /\ block.offset = 0 /\ block.number \in 1 .. Len(patch.made) + 1
    /\ block.size = Info(patch, block.number).size /\ block.hash = Info(patch, block.number).hash
    /\ OnChain(patch, <<block.number, 0>>)
    /\ ImageIs(Passed(patch, <<block.number, 0>>))

InBlock ==
    /\ DOMAIN block = {"number", "offset", "size", "hash"}
    /\ <<block.number, block.offset>> \in DOMAIN patch.before
    /\ PatchWords(block.number) = patch.made[block.number]
    /\ ImageIs(patch.before[<<block.number, block.offset>>])

PatchInv ==
    /\ base \in Bases /\ patch \in Patches /\ skipData \in BOOLEAN
    /\ at = "over" <=> result # Pending
    /\ at = "over" => mapped = {}
    /\ OutputIsWell
    /\ at \in Checked \/ result = "Success" => Flaw = Pending
    /\ at \in Agreeing \/ result = "Success" => Agreed
    /\ at \in Agreeing => ~skipData
    /\ at \in {"keys", "decrypt"} => HasBody
    /\ at = "unpack" => AfterDecryption
    /\ at = "format" => HasContents
    /\ at \in {"format", "block", "records", "write"} => Fits
    /\ at = "block" => BeforeBlock
    /\ at = "records" => InBlock
    /\ at = "write" \/ (result = "Success" /\ ~skipData) => ImageIs(Len(patch.edits))

LEMMA PatchInvStarts == PatchInit => PatchInv
  BY DEF PatchInit, PatchInv, OutputIsWell, Pending, Checked, Agreeing

LEMMA PatchInvSuffices == PatchInv => PatchesAreVerified
<1> SUFFICES ASSUME PatchInv PROVE PatchesAreVerified
  OBVIOUS
<1>1. ASSUME result = "Success" PROVE BaseKey = patch.sourceKey
  BY <1>1 DEF PatchInv, Agreed
<1>2. ASSUME result = "Success", ~skipData, IsMadeFor(base, patch) PROVE out = Target
  BY <1>2 DEF PatchInv, ImageIs, Target, IsMadeFor, MadeFor, Descriptor
<1>3. /\ result = "Success" /\ ~skipData /\ ~closeFailed => output = "whole"
      /\ result \notin {Pending, "Success"} =>
           output \in IF result = "FileWriteFailed" THEN {"none"} ELSE {"none", "old"}
  BY DEF PatchInv, OutputIsWell
<1>4. result # Pending => mapped = {}
  BY DEF PatchInv
<1> QED
  BY <1>1, <1>2, <1>3, <1>4 DEF PatchesAreVerified

(* What the validation, and what was said of the files, give.              *)
LEMMA FilesAreWell ==
    ASSUME base \in Bases, patch \in Patches, Flaw = Pending
    PROVE  /\ PatchIsWell(patch)
           /\ base.aesKey.under = "retail" /\ BaseKey = base.aesKey.key /\ BaseKey # "garbled"
           /\ BaseFormat # Missing /\ BaseFormat.compression \in {"NONE", "BASIC"}
                /\ BaseFormat.encryption \in {"NONE", "NORMAL"} => BodyIsWell(base)
<1>1. base.magic = "XEX2" /\ Descriptor # Missing /\ PatchFormat # Missing /\ PatchFormat.compression = "DELTA"
  BY DEF Flaw, Pending
<1>2. PatchIsWell(patch)
  BY <1>1, PatchesAssumption DEF PatchFormat, Descriptor
<1>3. /\ base.aesKey.under = "retail" /\ base.aesKey.key # "garbled"
      /\ BaseFormat # Missing /\ BaseFormat.compression \in {"NONE", "BASIC"}
           /\ BaseFormat.encryption \in {"NONE", "NORMAL"} => BodyIsWell(base)
  BY <1>1, PatchesAssumption DEF BaseFormat
<1>4. BaseKey = base.aesKey.key
  BY <1>3 DEF BaseKey, Unwrap
<1> QED
  BY <1>2, <1>3, <1>4

(* A return that is not a success, before there is an output.              *)
Errors == {"FileOpenFailed", "XexFileInvalid", "PatchFileInvalid", "PatchIncompatible", "PatchFailed",
           "XexFileUnsupported"}

(* A return with an error leaves all as it should be.                      *)
LEMMA ErrorIsWell ==
    ASSUME PatchInv, at \notin {"write", "over"}, NEW r \in Errors, EndWith(r), UNCHANGED <<output, closeFailed>>
    PROVE  PatchInv'
<1>1. result' = r /\ at' = "over" /\ mapped' = {} /\ base' = base /\ patch' = patch /\ skipData' = skipData
  BY DEF EndWith, Inputs
<1>2. r # Pending /\ r # "Success" /\ r # "FileWriteFailed"
  BY DEF Errors, Pending
<1>3. OutputIsWell'
  BY <1>1, <1>2 DEF PatchInv, OutputIsWell
<1>4. at' \notin Checked \cup Agreeing \cup {"keys", "decrypt", "unpack", "format", "block", "records", "write"}
  BY <1>1 DEF Checked, Agreeing
<1>5. base \in Bases /\ patch \in Patches /\ skipData \in BOOLEAN
  BY DEF PatchInv
<1> QED
  BY <1>1, <1>2, <1>3, <1>4, <1>5 DEF PatchInv

(* What depends on the files alone stays.                                  *)
LEMMA InputsStay ==
    ASSUME UNCHANGED Inputs
    PROVE  /\ base' = base /\ patch' = patch /\ skipData' = skipData
           /\ Flaw' = Flaw /\ Agreed' = Agreed /\ Fits' = Fits /\ MadeFor' = MadeFor
           /\ Descriptor' = Descriptor /\ BaseFormat' = BaseFormat /\ PatchFormat' = PatchFormat
<1>1. base' = base /\ patch' = patch /\ skipData' = skipData
  BY DEF Inputs
<1>2. Descriptor' = Descriptor /\ BaseFormat' = BaseFormat /\ PatchFormat' = PatchFormat
  BY <1>1 DEF Descriptor, BaseFormat, PatchFormat
<1>3. Flaw' = Flaw
  BY <1>1, <1>2 DEF Flaw
<1>4. BaseKey' = BaseKey
  BY <1>1 DEF BaseKey
<1>5. Agreed' = Agreed
  BY <1>1, <1>4 DEF Agreed
<1>6. MadeFor' = MadeFor
  BY <1>1, <1>2 DEF MadeFor
<1>7. Fits' = Fits
  BY <1>1, <1>6 DEF Fits
<1> QED
  BY <1>1, <1>2, <1>3, <1>5, <1>6, <1>7

(* A step that goes on with what its next place asks for.                  *)
LEMMA StepIsWell ==
    ASSUME PatchInv, at \notin {"write", "over"}, NEW place, place # "over", Continue(place),
           closeFailed' = closeFailed, place = "write" \/ output' = output,
           place \in Checked => Flaw = Pending,
           place \in Agreeing => Agreed /\ ~skipData,
           place \in {"keys", "decrypt"} => HasBody',
           place = "unpack" => AfterDecryption',
           place = "format" => HasContents',
           place \in {"format", "block", "records", "write"} => Fits,
           place = "block" => BeforeBlock',
           place = "records" => InBlock',
           place = "write" => ImageIs(Len(patch.edits))'
    PROVE  PatchInv'
<1>1. /\ base' = base /\ patch' = patch /\ skipData' = skipData
      /\ Flaw' = Flaw /\ Agreed' = Agreed /\ Fits' = Fits
  BY InputsStay DEF Continue
<1>2. at' = place /\ mapped' = mapped /\ result' = result
  BY DEF Continue
<1>3. result = Pending /\ result' # "Success"
  BY <1>2 DEF PatchInv, Pending
<1>4. OutputIsWell'
  BY <1>2, <1>3 DEF PatchInv, OutputIsWell, Pending
<1>5. base \in Bases /\ patch \in Patches /\ skipData \in BOOLEAN
  BY DEF PatchInv
<1>6. (at' = "over") = (result' # Pending) /\ at' # "over"
  BY <1>2, <1>3
<1> QED
  BY <1>1, <1>2, <1>3, <1>4, <1>5, <1>6 DEF PatchInv

-----------------------------------------------------------------------------
(* Before the image.                                                       *)
LEMMA BeginningIsWell ==
    ASSUME PatchInv, OpenBase \/ OpenPatch \/ TestOpen \/ Validate
    PROVE  PatchInv'
<1>1. ASSUME at' \in {"open patch", "test"}, at \in {"open", "open patch"},
             UNCHANGED <<Inputs, result, output, closeFailed>>
      PROVE  PatchInv'
  <2>1. base' = base /\ patch' = patch /\ skipData' = skipData
    BY <1>1 DEF Inputs
  <2> QED
    BY <1>1, <2>1 DEF PatchInv, OutputIsWell, Checked, Agreeing, Pending
<1>2. CASE OpenBase
  BY <1>1, <1>2 DEF OpenBase
<1>3. CASE OpenPatch
  BY <1>1, <1>3 DEF OpenPatch
<1>4. CASE TestOpen
  <2>1. CASE Continue("validate")
    BY <1>4, <2>1, StepIsWell DEF TestOpen, Checked, Agreeing
  <2>2. CASE EndWith("FileOpenFailed")
    BY <1>4, <2>2, ErrorIsWell DEF TestOpen, Errors
  <2> QED
    BY <1>4, <2>1, <2>2 DEF TestOpen
<1>5. CASE Validate
  <2>1. CASE Flaw = Pending
    BY <1>5, <2>1, StepIsWell DEF Validate, Agreeing
  <2>2. CASE Flaw # Pending
    <3>1. Flaw \in Errors
      BY <2>2 DEF Flaw, Errors
    <3> QED
      BY <1>5, <2>2, <3>1, ErrorIsWell DEF Validate
  <2> QED
    BY <2>1, <2>2
<1> QED
  BY <1>2, <1>3, <1>4, <1>5

LEMMA HeaderIsWell ==
    ASSUME PatchInv, PatchHeader
    PROVE  PatchInv'
<1>1. /\ at = "header" /\ output' = output /\ closeFailed' = closeFailed
      /\ Flaw = Pending /\ base \in Bases /\ patch \in Patches
  BY DEF PatchInv, PatchHeader, Checked
<1>3. CASE EndWith("PatchFailed")
  BY <1>1, <1>3, ErrorIsWell DEF Errors
<1>4. CASE Continue("overrun")
  BY <1>1, <1>4, StepIsWell DEF Checked, Agreeing
<1>5. CASE /\ header' \in IF HeaderIsMeant THEN {Descriptor.newHeader} ELSE WrongHeaders
           /\ out' = [i \in 1 .. header'.imageSize |-> IF i <= Len(base.body) THEN base.body[i] ELSE Zero]
           /\ ~ (Len(base.body) > header'.imageSize)
           /\ Continue("keys")
  <2>1. base' = base /\ patch' = patch /\ MadeFor' = MadeFor
    BY <1>5, InputsStay DEF Continue
  <2>2. ASSUME MadeFor
        PROVE  out' = Padded(base.body, SizeOf(patch)) /\ ~ (Len(base.body) > SizeOf(patch))
    <3>1. HeaderIsMeant
      BY <2>2 DEF MadeFor, MovesAreApart, HeaderIsMeant, Descriptor
    <3>2. header'.imageSize = SizeOf(patch)
      BY <1>5, <3>1 DEF SizeOf, Descriptor
    <3> QED
      BY <1>5, <3>2 DEF Padded
  <2>3. HasBody'
    BY <2>1, <2>2 DEF HasBody
  <2> QED
    BY <1>1, <1>5, <2>3, StepIsWell DEF Agreeing
<1> QED
  BY <1>3, <1>4, <1>5 DEF PatchHeader

LEMMA KeysAreWell ==
    ASSUME PatchInv, CheckKeys
    PROVE  PatchInv'
<1>1. /\ at = "keys" /\ UNCHANGED <<header, out, block, output, closeFailed>>
      /\ Flaw = Pending /\ base \in Bases /\ patch \in Patches /\ HasBody
  BY DEF PatchInv, CheckKeys, Checked
<1>2. PatchIsWell(patch) /\ BaseKey # "garbled"
  BY <1>1, FilesAreWell
<1>3. CASE EndWith("PatchIncompatible")
  BY <1>1, <1>3, ErrorIsWell DEF Errors
<1>4. CASE Unwrap(NewKey, Descriptor.imageKeySource) = BaseKey
  <2>1. Descriptor.imageKeySource.key = patch.sourceKey
    BY <1>2 DEF PatchIsWell, Descriptor
  <2>2. Descriptor.imageKeySource.under = NewKey
    BY <1>2, <1>4 DEF Unwrap
  <2>3. Agreed
    BY <1>4, <2>1, <2>2 DEF Agreed, Unwrap
  <2>4. CASE skipData
    <3>1. EndWith("Success")
      BY <1>4, <2>4 DEF CheckKeys
    <3>2. /\ base' = base /\ patch' = patch /\ skipData' = skipData
          /\ Flaw' = Flaw /\ Agreed' = Agreed /\ result' = "Success" /\ at' = "over" /\ mapped' = {}
      BY <3>1, InputsStay DEF EndWith
    <3>3. OutputIsWell'
      BY <2>4, <3>2 DEF OutputIsWell, Pending
    <3> QED
      BY <1>1, <2>3, <2>4, <3>2, <3>3 DEF PatchInv, Checked, Agreeing, Pending
  <2>5. CASE ~skipData
    <3>1. Continue("decrypt")
      BY <1>4, <2>5 DEF CheckKeys
    <3>2. HasBody'
      BY <1>1, <3>1, InputsStay DEF Continue, HasBody
    <3> QED
      BY <1>1, <2>3, <2>5, <3>1, <3>2, StepIsWell DEF Agreeing
  <2> QED
    BY <2>4, <2>5
<1> QED
  BY <1>3, <1>4 DEF CheckKeys

LEMMA DecryptionIsWell ==
    ASSUME PatchInv, DecryptBase
    PROVE  PatchInv'
<1>1. /\ at = "decrypt" /\ UNCHANGED <<header, block, output, closeFailed>>
      /\ Flaw = Pending /\ base \in Bases /\ patch \in Patches /\ HasBody /\ Agreed /\ ~skipData
  BY DEF PatchInv, DecryptBase, Checked, Agreeing
<1>2. PatchIsWell(patch)
  BY <1>1, FilesAreWell
<1>3. CASE EndWith("XexFileInvalid")
  BY <1>1, <1>3, ErrorIsWell DEF Errors
<1>4. CASE /\ ~ (BaseFormat = Missing \/ BaseFormat.encryption \notin {"NONE", "NORMAL"})
           /\ Continue("unpack")
           /\ out' = IF BaseFormat.encryption = "NONE" THEN out
                     ELSE Decrypt(BaseKey, SubSeq(out, 1, Len(base.body)))
                           \o SubSeq(out, Len(base.body) + 1, Len(out))
  <2>1. base' = base /\ patch' = patch /\ BaseFormat' = BaseFormat /\ MadeFor' = MadeFor
    BY <1>4, InputsStay DEF Continue
  <2>2. ASSUME BodyIsWell(base), MadeFor
        PROVE  out' = Padded(Plain(base), SizeOf(patch)) /\ Len(base.body) <= SizeOf(patch)
    <3> DEFINE size == SizeOf(patch)
    <3>1. size \in Nat /\ Len(base.body) \in Nat
      BY <1>2, <2>2, PlainIsSequence DEF PatchIsWell, SizeOf
    <3>2. Len(base.body) <= size /\ out = Padded(base.body, size)
      BY <1>1, <2>2, <3>1 DEF HasBody
    <3>3. CASE BaseFormat.encryption = "NONE"
      <4>1. base.body = Plain(base)
        BY <2>2, <3>3, BodyIsPlain DEF BaseFormat
      <4> QED
        BY <1>4, <3>2, <3>3, <4>1
    <3>4. CASE BaseFormat.encryption = "NORMAL"
      <4>1. FormatOf(base).encryption = "NORMAL"
        BY <3>4 DEF BaseFormat
      <4>2. out' = Decrypt(BaseKey, SubSeq(out, 1, Len(base.body))) \o SubSeq(out, Len(base.body) + 1, Len(out))
        BY <1>4, <3>4
      <4> HIDE DEF size
      <4>3. Decrypt(Unwrap("retail", base.aesKey), SubSeq(out, 1, Len(base.body)))
              \o SubSeq(out, Len(base.body) + 1, Len(out)) = Padded(Plain(base), size)
        BY <2>2, <3>1, <3>2, <4>1, DecryptedInPlace
      <4> QED
        BY <3>2, <4>2, <4>3 DEF BaseKey, size
    <3> QED
      BY <1>4, <3>3, <3>4
  <2>3. AfterDecryption'
    BY <1>4, <2>1, <2>2 DEF AfterDecryption
  <2> QED
    BY <1>1, <1>4, <2>3, StepIsWell
<1> QED
  BY <1>3, <1>4 DEF DecryptBase

LEMMA UnpackingIsWell ==
    ASSUME PatchInv, UnpackBase
    PROVE  PatchInv'
<1> DEFINE size == SizeOf(patch)
<1>1. /\ at = "unpack" /\ UNCHANGED <<header, block, output, closeFailed>>
      /\ Flaw = Pending /\ base \in Bases /\ patch \in Patches /\ AfterDecryption /\ Agreed /\ ~skipData
  BY DEF PatchInv, UnpackBase, Checked, Agreeing
<1>2. /\ size \in Nat
      /\ BaseFormat.compression \in {"NONE", "BASIC"} => BodyIsWell(base)
  BY <1>1, FilesAreWell DEF PatchIsWell, SizeOf, AfterDecryption
<1>3. CASE EndWith("XexFileInvalid") \/ EndWith("XexFileUnsupported")
  BY <1>1, <1>3, ErrorIsWell DEF Errors
<1>4. ASSUME Continue("format"), BodyIsWell(base),
             MadeFor => out' = Padded(ContentsOf(base), size) /\ Len(ContentsOf(base)) <= size
      PROVE  PatchInv'
  <2>1. base' = base /\ patch' = patch /\ MadeFor' = MadeFor
    BY <1>4, InputsStay DEF Continue
  <2>2. HasContents' /\ Fits
    BY <1>4, <2>1 DEF HasContents, Fits
  <2> QED
    BY <1>1, <1>4, <2>2, StepIsWell
<1>5. CASE BaseFormat.compression = "BASIC" /\ ~ (Len(out) < SizeUnpacked(BaseFormat.blocks))
           /\ Continue("format") /\ out' = UnpackInPlace(out, BaseFormat.blocks)
  <2>1. BodyIsWell(base) /\ FormatOf(base).compression = "BASIC"
    BY <1>2, <1>5 DEF BaseFormat
  <2>2. ASSUME MadeFor
        PROVE  out' = Padded(ContentsOf(base), size) /\ Len(ContentsOf(base)) <= size
    <3>1. out = Padded(Plain(base), size) /\ Len(base.body) <= size
      BY <1>1, <2>1, <2>2 DEF AfterDecryption
    <3>2. ImageSize(base) = SizeUnpacked(BaseFormat.blocks) /\ ImageSize(base) \in Nat
          /\ Len(ContentsOf(base)) = ImageSize(base)
      BY <2>1, ContentsAreSequence DEF ImageSize, BaseFormat
    <3> HIDE DEF size
    <3>3. Len(out) = size
      BY <1>2, <2>1, <3>1, PlainIsSequence, PaddedIs
    <3>4. ImageSize(base) <= size
      BY <1>2, <1>5, <3>2, <3>3
    <3>5. out' = Padded(ContentsOf(base), size)
      BY <1>2, <1>5, <2>1, <3>1, <3>4, UnpackInPlaceGivesContents DEF BaseFormat
    <3> QED
      BY <3>2, <3>4, <3>5
  <2> QED
    BY <1>4, <1>5, <2>1, <2>2
<1>6. CASE BaseFormat.compression = "NONE" /\ Continue("format") /\ out' = out
  <2>1. BodyIsWell(base) /\ FormatOf(base).compression = "NONE"
    BY <1>2, <1>6 DEF BaseFormat
  <2>2. ContentsOf(base) = Plain(base) /\ Len(Plain(base)) = Len(base.body)
    BY <2>1, ContentsAreWords, PlainIsSequence
  <2>3. ASSUME MadeFor
        PROVE  out' = Padded(ContentsOf(base), size) /\ Len(ContentsOf(base)) <= size
    BY <1>1, <1>6, <2>1, <2>2, <2>3 DEF AfterDecryption
  <2> QED
    BY <1>4, <1>6, <2>1, <2>3
<1> QED
  BY <1>3, <1>5, <1>6 DEF UnpackBase

LEMMA FormatIsWell ==
    ASSUME PatchInv, UpdateFormat
    PROVE  PatchInv'
<1> DEFINE size == SizeOf(patch)
           room == Padded(ContentsOf(base), size)
           new == IF Descriptor.imageSource = 0 THEN out
                  ELSE Copy(out, Descriptor.imageTarget, out, Descriptor.imageSource, Descriptor.imageSize)
<1>1. /\ at = "format" /\ UNCHANGED <<output, closeFailed>>
      /\ Flaw = Pending /\ base \in Bases /\ patch \in Patches /\ Fits /\ Agreed /\ ~skipData
      /\ HasContents
  BY DEF PatchInv, UpdateFormat, Checked, Agreeing
<1>2. PatchIsWell(patch) /\ BlocksAreWell(patch) /\ size \in Nat
  BY <1>1, FilesAreWell DEF PatchIsWell, SizeOf
<1>3. CASE EndWith("PatchFailed") \/ EndWith("PatchFileInvalid")
  BY <1>1, <1>3, ErrorIsWell DEF Errors
<1>4. CASE Continue("overrun")
  BY <1>1, <1>4, StepIsWell DEF Checked, Agreeing
<1>5. ASSUME MadeFor => out' = new, block' = BlockAt(1, PatchFormat.first), Continue("block")
      PROVE  PatchInv'
  <2>1. base' = base /\ patch' = patch /\ MadeFor' = MadeFor
    BY <1>5, InputsStay DEF Continue
  <2>2. ASSUME MadeFor, ContentsOf(base) = patch.source PROVE new = Stages(patch, patch.source)[0]
    <3>1. patch.source \in Seq(Words("plain")) /\ Len(patch.source) <= SizeOf(patch)
      BY <1>1, <2>2, ContentsAreSequence DEF Fits
    <3>2. Unedited(patch, patch.source) =
            IF DescriptorOf(patch).imageSource = 0 THEN Padded(patch.source, SizeOf(patch))
            ELSE Copy(Padded(patch.source, SizeOf(patch)), DescriptorOf(patch).imageTarget,
                      Padded(patch.source, SizeOf(patch)), DescriptorOf(patch).imageSource, DescriptorOf(patch).imageSize)
      BY <1>2, <3>1, UneditedIs
    <3>3. Stages(patch, patch.source)[0] = Unedited(patch, patch.source)
      BY <1>2, StagesAre DEF PatchIsWell
    <3>4. out = Padded(patch.source, SizeOf(patch))
      BY <1>1, <2>2 DEF HasContents
    <3> QED
      BY <3>2, <3>3, <3>4 DEF Descriptor
  <2> HIDE DEF new
  <2>3. /\ block'.number = 1 /\ block'.offset = 0 /\ block'.size = PatchFormat.first.size
        /\ block'.hash = PatchFormat.first.hash
        /\ DOMAIN block' = {"number", "offset", "size", "hash"}
    BY <1>5 DEF BlockAt
  <2>4. OnChain(patch, <<1, 0>>) /\ Passed(patch, <<1, 0>>) = 0
    BY <1>2, ChainStarts
  <2>5. Info(patch, 1) = PatchFormat.first /\ 1 \in 1 .. Len(patch.made) + 1
    BY <1>2, BlocksFollow DEF PatchFormat
  <2>6. ImageIs(0)'
    BY <1>5, <2>1, <2>2 DEF ImageIs
  <2>7. BeforeBlock'
    BY <2>1, <2>3, <2>4, <2>5, <2>6 DEF BeforeBlock, ImageIs
  <2> QED
    BY <1>1, <1>5, <2>7, StepIsWell
<1>6. CASE Descriptor.imageSource = 0 /\ UNCHANGED out
           /\ block' = BlockAt(1, PatchFormat.first) /\ Continue("block")
  BY <1>5, <1>6
<1>7. CASE /\ Descriptor.imageSource # 0 /\ block' = BlockAt(1, PatchFormat.first)
           /\ Move(Descriptor.imageTarget, Descriptor.imageSource, Descriptor.imageSize, "block")
  <2>1. MadeFor => Apart(Descriptor.imageTarget, Descriptor.imageSource, Descriptor.imageSize)
    BY <1>7 DEF MadeFor, MovesAreApart, Descriptor
  <2>2. Continue("overrun") \/ (Continue("block") /\ (MadeFor => out' = new))
    BY <1>7, <2>1 DEF Move
  <2> QED
    BY <1>4, <1>5, <1>7, <2>2
<1> QED
  BY <1>3, <1>6, <1>7 DEF UpdateFormat

-----------------------------------------------------------------------------
(* The edits, block by block and record by record.                         *)
LEMMA BlockIsWell ==
    ASSUME PatchInv, CheckBlock
    PROVE  PatchInv'
<1> DEFINE i == block.number
           n == Len(patch.made)
<1>1. /\ at = "block" /\ UNCHANGED <<header, out, block, output, closeFailed>> /\ block.size > 0
      /\ Flaw = Pending /\ base \in Bases /\ patch \in Patches /\ Fits /\ Agreed /\ ~skipData /\ BeforeBlock
  BY DEF PatchInv, CheckBlock, Checked, Agreeing
<1>2. BlocksAreWell(patch)
  BY <1>1, FilesAreWell DEF PatchIsWell
<1>3. CASE EndWith("PatchFailed")
  BY <1>1, <1>3, ErrorIsWell DEF Errors
<1>4. CASE PatchWords(i) = block.hash /\ Continue("records")
  <2>1. base' = base /\ patch' = patch /\ MadeFor' = MadeFor
    BY <1>4, InputsStay DEF Continue
  <2>2. i # n + 1
    BY <1>1, <1>2, BlocksFollow DEF BeforeBlock
  <2>3. i \in 1 .. n
    BY <1>1, <1>2, <2>2, BlocksFollow DEF BeforeBlock
  <2>4. <<i, 0>> # <<n + 1, 0>>
    BY <2>2
  <2>5. <<i, 0>> \in DOMAIN patch.before /\ Passed(patch, <<i, 0>>) = patch.before[<<i, 0>>]
    BY <1>1, <2>4 DEF BeforeBlock, OnChain, Passed
  <2>6. PatchWords(i) = patch.made[i]
    BY <1>1, <1>2, <1>4, <2>3, BlocksFollow DEF BeforeBlock
  <2>7. PatchWords(i)' = PatchWords(i)
    BY <1>1, <2>1 DEF PatchWords, PatchFormat, PatchKey, NewKey
  <2>8. ImageIs(patch.before[<<i, 0>>])'
    BY <1>1, <2>1, <2>5 DEF BeforeBlock, ImageIs
  <2>9. InBlock'
    BY <1>1, <2>1, <2>5, <2>6, <2>7, <2>8 DEF BeforeBlock, InBlock, ImageIs
  <2> QED
    BY <1>1, <1>4, <2>9, StepIsWell DEF Checked, Agreeing
<1> QED
  BY <1>3, <1>4 DEF CheckBlock

LEMMA NextIsWell ==
    ASSUME PatchInv, NextBlock
    PROVE  PatchInv'
<1>0. PICK i, offset, k : i = block.number /\ offset = block.offset /\ k = patch.before[<<i, offset>>]
  OBVIOUS
<1> DEFINE b == PatchWords(i)
<1>1. /\ at = "records" /\ UNCHANGED <<header, out, output, closeFailed>> /\ IsOver(b, offset)
      /\ block' = BlockAt(i + 1, b.next) /\ Continue("block")
      /\ Flaw = Pending /\ base \in Bases /\ patch \in Patches /\ Fits /\ Agreed /\ ~skipData /\ InBlock
  BY <1>0 DEF PatchInv, NextBlock, Checked, Agreeing
<1>2. BlocksAreWell(patch) /\ Len(patch.edits) \in Nat
  BY <1>1, FilesAreWell DEF PatchIsWell
<1>3. base' = base /\ patch' = patch /\ MadeFor' = MadeFor
  BY <1>1, InputsStay DEF Continue
<1>4. <<i, offset>> \in DOMAIN patch.before /\ b = patch.made[i] /\ ImageIs(k)
  BY <1>0, <1>1 DEF InBlock
<1>5. i \in 1 .. Len(patch.made) /\ OnChain(patch, <<i + 1, 0>>) /\ Passed(patch, <<i + 1, 0>>) = k
  <2> HIDE DEF b
  <2>1. k = patch.before[<<i, offset>>]
    BY <1>0
  <2>2. IsAt(patch, i, offset, b, k)
    BY <1>4, <2>1 DEF IsAt
  <2>4. Follows(patch, i, offset, b, k)
    BY <1>2, <2>2, ChainGoesOn
  <2>3. IsOver(b, offset) => i \in 1 .. Len(patch.made) /\ OnChain(patch, <<i + 1, 0>>)
        /\ Passed(patch, <<i + 1, 0>>) = k
    BY <2>4 DEF Follows
  <2> QED
    BY <1>1, <2>3
<1>6. Info(patch, i + 1) = b.next /\ i + 1 \in 1 .. Len(patch.made) + 1
  BY <1>2, <1>4, <1>5, BlocksFollow
<1>7. /\ block'.number = i + 1 /\ block'.offset = 0 /\ block'.size = b.next.size /\ block'.hash = b.next.hash
      /\ DOMAIN block' = {"number", "offset", "size", "hash"}
  BY <1>1 DEF BlockAt
<1>8. ImageIs(k)'
  BY <1>1, <1>3, <1>4 DEF ImageIs
<1> HIDE DEF b
<1>9. BeforeBlock'
  BY <1>3, <1>5, <1>6, <1>7, <1>8 DEF BeforeBlock, ImageIs
<1> QED
  BY <1>1, <1>9, StepIsWell DEF Checked, Agreeing

LEMMA RecordIsWell ==
    ASSUME PatchInv, lzxDeltaApplyPatch
    PROVE  PatchInv'
<1>0. PICK i, offset, k : i = block.number /\ offset = block.offset /\ k = patch.before[<<i, offset>>]
  OBVIOUS
<1> DEFINE m == k + 1
           b == PatchWords(i)
           record == RecordIn(b, offset)
           next == Behind(offset, record)
           stage == Stages(patch, patch.source)
<1>1. /\ at = "records" /\ UNCHANGED <<header, output, closeFailed>> /\ ~IsOver(b, offset)
      /\ block' = [block EXCEPT !.offset = next]
      /\ Flaw = Pending /\ base \in Bases /\ patch \in Patches /\ Fits /\ Agreed /\ ~skipData /\ InBlock
  <2>1. at = "records"
    BY DEF lzxDeltaApplyPatch
  <2>2. /\ UNCHANGED <<header, output, closeFailed>> /\ ~IsOver(b, offset)
        /\ block' = [block EXCEPT !.offset = next]
    BY <1>0 DEF lzxDeltaApplyPatch, Current
  <2>3. Flaw = Pending /\ base \in Bases /\ patch \in Patches /\ Fits /\ Agreed /\ ~skipData /\ InBlock
    BY <2>1 DEF PatchInv, Checked, Agreeing
  <2> QED
    BY <2>1, <2>2, <2>3
<1>2. PatchIsWell(patch) /\ BlocksAreWell(patch) /\ Len(patch.edits) \in Nat
  BY <1>1, FilesAreWell DEF PatchIsWell
<1>3. <<i, offset>> \in DOMAIN patch.before /\ b = patch.made[i] /\ ImageIs(k)
  BY <1>0, <1>1 DEF InBlock
<1>4. /\ k \in 0 .. Len(patch.edits) /\ m \in 1 .. Len(patch.edits) /\ record = patch.edits[m]
      /\ <<i, next>> \in DOMAIN patch.before /\ patch.before[<<i, next>>] = m
  <2> HIDE DEF b
  <2>1. k = patch.before[<<i, offset>>]
    BY <1>0
  <2>2. IsAt(patch, i, offset, b, k)
    BY <1>3, <2>1 DEF IsAt
  <2> HIDE DEF record, next, m
  <2>4. Follows(patch, i, offset, b, k)
    BY <1>2, <2>2, ChainGoesOn
  <2>3. ~IsOver(b, offset) =>
                /\ k \in 0 .. Len(patch.edits) /\ k + 1 \in 1 .. Len(patch.edits)
                      /\ RecordIn(b, offset) = patch.edits[k + 1]
                /\ <<i, Behind(offset, RecordIn(b, offset))>> \in DOMAIN patch.before
                /\ patch.before[<<i, Behind(offset, RecordIn(b, offset))>>] = k + 1
    BY <2>4 DEF Follows
  <2> QED
    BY <1>1, <2>3 DEF record, next, m
<1>5. CASE EndWith("PatchFailed")
  BY <1>1, <1>5, ErrorIsWell DEF Errors
<1>6. ASSUME Continue("records"), MadeFor /\ ContentsOf(base) = patch.source => out' = Edited(out, record)
      PROVE  PatchInv'
  <2>1. base' = base /\ patch' = patch /\ MadeFor' = MadeFor
    BY <1>6, InputsStay DEF Continue
  <2>2. MadeFor /\ ContentsOf(base) = patch.source => out' = stage[m]
    <3>1. stage[m] = Edited(stage[m - 1], patch.edits[m])
      BY <1>2, <1>4, StagesAre
    <3>2. m - 1 = k
      BY <1>4
    <3>3. MadeFor /\ ContentsOf(base) = patch.source => out = stage[k]
      BY <1>3 DEF ImageIs
    <3> HIDE DEF stage, m, record
    <3> QED
      BY <1>4, <1>6, <3>1, <3>2, <3>3
  <2>3. block'.number = i /\ block'.offset = next /\ DOMAIN block' = {"number", "offset", "size", "hash"}
    <3> HIDE DEF next
    <3>1. DOMAIN block = {"number", "offset", "size", "hash"}
      BY <1>1 DEF InBlock
    <3> QED
      BY <1>0, <1>1, <3>1
  <2>4. PatchWords(i)' = b
    BY <1>1, <2>1 DEF PatchWords, PatchFormat, PatchKey, NewKey
  <2>5. ImageIs(m)'
    BY <2>1, <2>2 DEF ImageIs
  <2> HIDE DEF next, m, b
  <2>6. PatchWords(block.number)' = patch'.made[block'.number]
    BY <1>3, <2>1, <2>3, <2>4 DEF PatchWords, PatchFormat, PatchKey, NewKey
  <2>7. InBlock'
    BY <1>4, <2>1, <2>3, <2>5, <2>6 DEF InBlock, ImageIs
  <2> QED
    BY <1>1, <1>6, <2>7, StepIsWell DEF Checked, Agreeing
<1>7. ASSUME MadeFor, ContentsOf(base) = patch.source
      PROVE  /\ record.compressed = 0 => Clear0(out, record.new, record.length) = Edited(out, record)
             /\ record.compressed = 1 => Copy(out, record.new, out, record.old, record.length) = Edited(out, record)
             /\ record.compressed > 1 =>
                  /\ SubSeq(out, record.old + 1, record.old + record.length) = record.data.madeFor
                  /\ Copy(out, record.new, record.data.result, 0, record.length) = Edited(out, record)
  <2>1. patch.source \in Seq(Words("plain")) /\ Len(patch.source) <= SizeOf(patch)
    BY <1>1, <1>7, ContentsAreSequence DEF Fits
  <2>2. out = stage[k]
    BY <1>3, <1>7 DEF ImageIs
  <2>3. stage[k] \in Seq(Words("plain")) /\ Len(stage[k]) = SizeOf(patch)
    BY <1>2, <1>4, <2>1, StagesAreImages
  <2>4. m - 1 = k
    BY <1>4
  <2> HIDE DEF record, m
  <2>5. out = Stages(patch, patch.source)[m - 1]
    BY <2>2, <2>4
  <2>6. out \in Seq(Words("plain")) /\ Len(out) = SizeOf(patch)
    BY <2>2, <2>3
  <2>7. m \in 1 .. Len(patch.edits) /\ record = patch.edits[m]
    BY <1>4
  <2> HIDE DEF stage
  <2>8. IsEdit(patch, m, out, record)
    BY <2>5, <2>6, <2>7 DEF IsEdit
  <2> QED
    BY <1>2, <2>1, <2>8, EditIs
<1>8. CASE Continue("overrun")
  BY <1>1, <1>8, StepIsWell DEF Checked, Agreeing
<1>9. CASE record.compressed = 0 /\ out' = Clear0(out, record.new, record.length) /\ Continue("records")
  BY <1>6, <1>7, <1>9
<1>10. CASE record.compressed = 1 /\ Move(record.new, record.old, record.length, "records")
  <2>1. MadeFor => Apart(record.new, record.old, record.length)
    BY <1>4, <1>10 DEF MadeFor, MovesAreApart
  <2>2. \/ Continue("overrun")
        \/ /\ Continue("records")
           /\ MadeFor => out' = Copy(out, record.new, out, record.old, record.length)
    BY <1>10, <2>1 DEF Move
  <2> QED
    BY <1>6, <1>7, <1>8, <1>10, <2>2
<1>11. CASE /\ record.compressed > 1 /\ Continue("records")
            /\ out' = Copy(out, record.new, record.data.result, 0, record.length)
  BY <1>6, <1>7, <1>11
<1>12. CASE /\ record.compressed > 1 /\ Continue("records")
            /\ SubSeq(out, record.old + 1, record.old + record.length) # record.data.madeFor
  BY <1>6, <1>7, <1>12
<1>13. Current = record
  BY <1>0 DEF Current
<1> HIDE DEF record
<1>14. \/ EndWith("PatchFailed") \/ Continue("overrun")
       \/ record.compressed = 0 /\ out' = Clear0(out, record.new, record.length) /\ Continue("records")
       \/ record.compressed = 1 /\ Move(record.new, record.old, record.length, "records")
       \/ /\ record.compressed > 1 /\ Continue("records")
          /\ out' = Copy(out, record.new, record.data.result, 0, record.length)
       \/ /\ record.compressed > 1 /\ Continue("records")
          /\ SubSeq(out, record.old + 1, record.old + record.length) # record.data.madeFor
  BY <1>13 DEF lzxDeltaApplyPatch
<1> QED
  BY <1>5, <1>8, <1>9, <1>10, <1>11, <1>12, <1>14

LEMMA OpeningIsWell ==
    ASSUME PatchInv, OpenOutput
    PROVE  PatchInv'
<1> DEFINE n == Len(patch.made)
           i == block.number
<1>1. /\ at = "block" /\ UNCHANGED <<header, out, block, closeFailed>> /\ block.size = 0
      /\ Flaw = Pending /\ base \in Bases /\ patch \in Patches /\ Fits /\ Agreed /\ ~skipData /\ BeforeBlock
  BY DEF PatchInv, OpenOutput, Checked, Agreeing
<1>2. BlocksAreWell(patch)
  BY <1>1, FilesAreWell DEF PatchIsWell
<1>3. CASE EndWith("FileOpenFailed") /\ output' = output
  BY <1>1, <1>3, ErrorIsWell DEF Errors
<1>4. CASE Continue("write")
  <2>1. base' = base /\ patch' = patch /\ MadeFor' = MadeFor
    BY <1>4, InputsStay DEF Continue
  <2>2. i \notin 1 .. n
    <3> SUFFICES ASSUME i \in 1 .. n PROVE FALSE
      OBVIOUS
    <3>1. Info(patch, i).size > 0
      BY <1>2, BlocksFollow
    <3>2. Info(patch, i).size = 0
      BY <1>1 DEF BeforeBlock
    <3> QED
      BY <3>1, <3>2
  <2>3. i = n + 1
    BY <1>1, <1>2, <2>2, BlocksFollow DEF BeforeBlock
  <2>4. Passed(patch, <<i, 0>>) = Len(patch.edits)
    BY <2>3 DEF Passed
  <2>5. ImageIs(Len(patch.edits))'
    BY <1>1, <2>1, <2>4 DEF BeforeBlock, ImageIs
  <2> QED
    BY <1>1, <1>4, <2>5, StepIsWell DEF Checked, Agreeing
<1> QED
  BY <1>3, <1>4 DEF OpenOutput

LEMMA WritingIsWell ==
    ASSUME PatchInv, WriteOutput
    PROVE  PatchInv'
<1>1. /\ at = "write" /\ UNCHANGED <<header, out, block>>
      /\ Flaw = Pending /\ base \in Bases /\ patch \in Patches /\ skipData \in BOOLEAN
      /\ Fits /\ Agreed /\ ~skipData /\ ImageIs(Len(patch.edits)) /\ ~closeFailed
  BY DEF PatchInv, WriteOutput, Checked, Agreeing, OutputIsWell
<1>2. /\ base' = base /\ patch' = patch /\ skipData' = skipData
      /\ Flaw' = Flaw /\ Agreed' = Agreed /\ MadeFor' = MadeFor /\ mapped' = {} /\ at' = "over"
      /\ \/ result' = "Success" /\ output' = "whole"
         \/ result' = "FileWriteFailed" /\ output' = "none"
         \/ result' = "Success" /\ closeFailed' = TRUE
  BY InputsStay DEF WriteOutput, EndWith
<1>3. OutputIsWell' /\ result' # Pending
  BY <1>2 DEF OutputIsWell, Pending
<1>4. ImageIs(Len(patch.edits))'
  BY <1>1, <1>2 DEF ImageIs
<1>5. at' \notin Checked \cup Agreeing \cup {"keys", "decrypt", "unpack", "format", "block", "records", "write"}
  BY <1>2 DEF Checked, Agreeing
<1> QED
  BY <1>1, <1>2, <1>3, <1>4, <1>5 DEF PatchInv

LEMMA PatchInvStays ==
    ASSUME PatchInv, [PatchNext]_patchVars
    PROVE  PatchInv'
<1>1. CASE UNCHANGED patchVars
  <2>1. /\ base' = base /\ patch' = patch /\ skipData' = skipData /\ mapped' = mapped /\ at' = at /\ header' = header
        /\ out' = out /\ block' = block /\ result' = result /\ output' = output /\ closeFailed' = closeFailed
    BY <1>1 DEF patchVars
  <2>2. Flaw' = Flaw /\ Agreed' = Agreed /\ Fits' = Fits /\ MadeFor' = MadeFor
    BY <2>1, InputsStay DEF Inputs
  <2>3. OutputIsWell' = OutputIsWell /\ HasBody' = HasBody /\ HasContents' = HasContents
        /\ AfterDecryption' = AfterDecryption
    BY <2>1, <2>2 DEF OutputIsWell, HasBody, HasContents, AfterDecryption, BaseFormat
  <2>4. BeforeBlock' = BeforeBlock
    BY <2>1, <2>2 DEF BeforeBlock, ImageIs
  <2>5. InBlock' = InBlock
    BY <2>1, <2>2 DEF InBlock, ImageIs, PatchWords, PatchFormat, PatchKey, NewKey
  <2>6. ImageIs(Len(patch.edits))' = ImageIs(Len(patch.edits))
    BY <2>1, <2>2 DEF ImageIs
  <2> QED
    BY <2>1, <2>2, <2>3, <2>4, <2>5, <2>6 DEF PatchInv
<1>2. CASE PatchNext
  BY <1>2, BeginningIsWell, HeaderIsWell, KeysAreWell, DecryptionIsWell, UnpackingIsWell, FormatIsWell,
     BlockIsWell, NextIsWell, RecordIsWell, OpeningIsWell, WritingIsWell DEF PatchNext
<1> QED
  BY <1>1, <1>2

(* Whatever the bases and the patches, a success of apply is of a base with *)
(* the patch's key, and of the one that the patch was made for it makes     *)
(* what the edits mean, from verified blocks only, if no move overlaps      *)
(* itself; and the output and the files are left as the result says.        *)
THEOREM PatchesAreAlwaysVerified == PatchSpec => []PatchesAreVerified
<1>1. PatchInit => PatchInv
  BY PatchInvStarts
<1>2. PatchInv /\ [PatchNext]_patchVars => PatchInv'
  BY PatchInvStays
<1>3. PatchInv => PatchesAreVerified
  BY PatchInvSuffices
<1> QED
  BY <1>1, <1>2, <1>3, PTL DEF PatchSpec

=============================================================================
