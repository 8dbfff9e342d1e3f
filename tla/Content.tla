------------------------------- MODULE Content --------------------------------
(***************************************************************************)
(* The content packages of runtime/kernel/xam.cpp: gContentRegistry, the   *)
(* roots that packages are opened under (gRootMap), the enumerators, and   *)
(* the packages that guest_startup of runtime/main.cpp registers and opens *)
(* before any guest code runs.                                             *)
(*                                                                         *)
(* Nothing is locked.  A call marks what it uses when it begins and has    *)
(* its effect when it ends; two calls that overlap on one container, one   *)
(* of them changing it, are a data race, after which `raced` holds and the *)
(* model stops.  A view of a root's text is shorter lived: `view` is what   *)
(* XamGetRootPath has returned to a thread that has not copied it yet.     *)
(* Names are looked up by a hash of their lower case: a name               *)
(* here stands for all its spellings, and no two hashes collide.  So does  *)
(* a host directory: "Save" is also "./save", and "." is "./" and "".      *)
(***************************************************************************)
EXTENDS Integers, Sequences, SequencesExt, FiniteSets

CONSTANTS Callers,        \* guest threads
          QuietThreads,   \* those whose flag at 0x150 asks for no errors
          Roots,          \* names of roots that the guest opens packages under
          NewFiles,       \* names of the save packages that the guest creates
          Enumerators,    \* handles of enumerators
          Fetches         \* numbers of items that enumerators are made for

ASSUME ContentAssumption ==
    /\ Fetches \subseteq Nat
    /\ "end" \notin NewFiles     \* an enumerator's position behind the last item
    /\ Roots \cap {"no view", "empty", "dangling"} = {}

VARIABLES registry,       \* gContentRegistry: each type's entries in their order
          rootMap,        \* gRootMap: the host directory of each open root
          directories,    \* the host directories that exist
          enumerator,     \* the enumerators
          lastError,      \* the last error of each thread
          use,            \* the content call that each thread is in
          view,           \* the text of a root that each thread has in sight: the
                          \* name of the root, or one of the next three
          raced,          \* a data race happened
          crashed         \* a null pointer or an iterator past the end was used

contentVars == <<registry, rootMap, directories, enumerator, lastError, use, view, raced,
                 crashed>>

NoView == "no view"
EmptyView == "empty"       \* the empty text, of no root
Dangling == "dangling"     \* the text of a node that has been erased

NoRoot == "none"          \* no such root: the empty string
SaveData == "SAVEDATA"    \* XCONTENTTYPE_SAVEDATA
Reserved == "RESERVED"    \* XCONTENTTYPE_RESERVED
ContentTypes == {SaveData, Reserved}
Free == [at |-> "free"]

(* guest_startup: XamMakeContent, XamRegisterContent and, for the game,    *)
(* XamContentCreateEx under two names.                                     *)
GameContent == [type |-> Reserved, file |-> "Game"]
StartupRoots == {"game", "D"}
AllRoots == StartupRoots \cup Roots

ContentInit ==
    /\ registry = [type \in ContentTypes |->
                     IF type = Reserved THEN <<[file |-> "Game", root |-> "Data"]>>
                     ELSE <<[file |-> "Save", root |-> "Save"]>>]
    /\ rootMap = [root \in AllRoots |-> IF root \in StartupRoots THEN "Data" ELSE NoRoot]
    /\ directories = {"Data", "Save", "."}
    /\ enumerator = [e \in Enumerators |-> Free]
    /\ lastError = [t \in Callers |-> "none"]
    /\ use = [t \in Callers |-> Free]
    /\ view = [t \in Callers |-> NoView]
    /\ raced = FALSE
    /\ crashed = FALSE

-----------------------------------------------------------------------------
(* GuestThread::SetLastError.                                              *)
SetLastError(t, error) ==
    lastError' = IF t \in QuietThreads THEN lastError
                 ELSE [lastError EXCEPT ![t] = error]

Containers == ContentTypes \cup {"roots"}

(* Thread t begins a call that reads and changes these containers.         *)
Begin(t, record) ==
    /\ use' = [use EXCEPT ![t] = record]
    /\ raced' = (raced \/ \E u \in Callers \ {t} :
                    /\ use[u] # Free
                    /\ \/ (record.reads \cup record.changes) \cap use[u].changes # {}
                       \/ record.changes \cap use[u].reads # {})

Finish(t) == use' = [use EXCEPT ![t] = Free]

Contents == {GameContent, [type |-> SaveData, file |-> "Save"]}
            \cup [type : {SaveData}, file : NewFiles]

EntryOf(content) ==
    {entry \in Range(registry[content.type]) : entry.file = content.file}
Exists(content) == EntryOf(content) # {}
RootOf(content) == (CHOOSE entry \in EntryOf(content) : TRUE).root

(* emplace changes nothing when the root is there already.                 *)
XamRootCreate(root, path) ==
    rootMap' = [rootMap EXCEPT ![root] = IF @ = NoRoot THEN path ELSE @]

(* The text stays in the map, and the caller has a view of it.             *)
XamGetRootPath(t) ==
    /\ use[t].at = "resolve"
    /\ view' = [view EXCEPT ![t] = IF rootMap[use[t].root] = NoRoot THEN EmptyView
                                   ELSE use[t].root]
    /\ Finish(t)
    /\ UNCHANGED <<registry, rootMap, directories, enumerator, lastError, raced, crashed>>

(* Which entries of a list come before which.                              *)
InOrder(list) ==
    {pair \in Range(list) \X Range(list) :
       \E i, j \in DOMAIN list : i < j /\ pair = <<list[i], list[j]>>}

(* XamRegisterContent: the new node goes wherever its bucket is, and the   *)
(* nodes may change places when the table grows.  Enumerators keep in mind *)
(* whether those that were there did (`shuffled`, a history).              *)
XamRegisterContent(content, path) ==
    LET old == registry[content.type]
        node == [file |-> content.file, root |-> path]
    IN  \E order \in SetToSeqs(Range(old) \cup {node}) :
          /\ registry' = [registry EXCEPT ![content.type] = order]
          /\ enumerator' = [e \in Enumerators |->
                IF enumerator[e].at = "open" /\ enumerator[e].type = content.type
                THEN [enumerator[e] EXCEPT !.shuffled =
                        @ \/ ~(InOrder(old) \subseteq InOrder(order))]
                ELSE enumerator[e]]

BeginContentCreate(t, root, content, mode) ==
    /\ use[t] = Free
    /\ Begin(t, [at |-> "create", root |-> root, content |-> content, mode |-> mode,
                 reads |-> {content.type},
                 changes |-> {"roots"} \cup
                    IF mode = "CREATE_ALWAYS" /\ ~Exists(content) THEN {content.type} ELSE {}])
    /\ UNCHANGED <<registry, rootMap, directories, enumerator, lastError, view, crashed>>

(* XamContentCreateEx.  Any other mode finds no path, as does an existing  *)
(* package that does not exist.                                            *)
XamContentCreateEx(t) ==
    /\ use[t].at = "create"
    /\ LET root == use[t].root
           content == use[t].content
           path == IF content.type = SaveData THEN "Save" ELSE "."
       IN  \/ /\ use[t].mode = "CREATE_ALWAYS"
              /\ ~Exists(content)
              /\ XamRegisterContent(content, path)
              /\ directories' = directories \cup {path}
              /\ XamRootCreate(root, path)
           \/ /\ use[t].mode \in {"CREATE_ALWAYS", "OPEN_EXISTING"}
              /\ Exists(content)
              /\ XamRootCreate(root, RootOf(content))
              /\ UNCHANGED <<registry, directories, enumerator>>
           \/ /\ use[t].mode = "OPEN_EXISTING"
              /\ ~Exists(content)
              /\ UNCHANGED <<registry, directories, enumerator, rootMap>>
    /\ Finish(t)
    /\ UNCHANGED <<lastError, view, raced, crashed>>

BeginContentClose(t, root) ==
    /\ use[t] = Free
    /\ Begin(t, [at |-> "close", root |-> root, reads |-> {}, changes |-> {"roots"}])
    /\ UNCHANGED <<registry, rootMap, directories, enumerator, lastError, view, crashed>>

(* The node is gone, and so is the text that a thread may be about to copy.*)
XamContentClose(t) ==
    /\ use[t].at = "close"
    /\ rootMap' = [rootMap EXCEPT ![use[t].root] = NoRoot]
    /\ view' = [u \in Callers |-> IF view[u] = use[t].root THEN Dangling ELSE view[u]]
    /\ Finish(t)
    /\ UNCHANGED <<registry, directories, enumerator, lastError, raced, crashed>>

-----------------------------------------------------------------------------
(* An enumerator points to a node of its registry, or to its end.          *)
Position(e, i) ==
    LET entries == registry[enumerator[e].type]
    IN  IF i > Len(entries) THEN "end" ELSE entries[i].file

IndexOf(type, file) ==
    LET entries == registry[type]
    IN  IF file = "end" THEN Len(entries) + 1
        ELSE CHOOSE i \in 1 .. Len(entries) : entries[i].file = file

(* XamContentCreateEnumerator, for user 0; another user is an error.       *)
XamContentCreateEnumerator(t, e, type, fetch, user) ==
    /\ use[t] = Free
    /\ enumerator[e] = Free
    /\ IF user # 0
       THEN SetLastError(t, "ERROR_NO_SUCH_USER") /\ UNCHANGED <<enumerator, raced>>
       ELSE /\ enumerator' = [enumerator EXCEPT ![e] =
                 [at |-> "open", type |-> type, fetch |-> fetch,
                  position |-> IF registry[type] = <<>> THEN "end" ELSE registry[type][1].file,
                  returned |-> <<>>, over |-> FALSE, skipped |-> FALSE,
                  shuffled |-> FALSE, made |-> registry[type]]]
            /\ raced' = (raced \/ \E u \in Callers : use[u] # Free /\ type \in use[u].changes)
            /\ UNCHANGED lastError
    /\ UNCHANGED <<registry, rootMap, directories, use, view, crashed>>

(* XamEnumerate with a buffer: up to `fetch` items, then -1.               *)
XamEnumerate(t, e) ==
    /\ use[t] = Free
    /\ enumerator[e].at = "open"
    /\ LET entries == registry[enumerator[e].type]
           first == IndexOf(enumerator[e].type, enumerator[e].position)
           left == Len(entries) - first + 1
           count == IF left < enumerator[e].fetch THEN left ELSE enumerator[e].fetch
       IN  enumerator' = [enumerator EXCEPT
             ![e].over = (left = 0),
             ![e].position = IF left = 0 THEN "end" ELSE Position(e, first + count),
             ![e].returned = @ \o SubSeq(entries, first, first + count - 1)]
    /\ raced' = (raced \/ \E u \in Callers :
                            use[u] # Free /\ enumerator[e].type \in use[u].changes)
    /\ UNCHANGED <<registry, rootMap, directories, lastError, use, view, crashed>>

(* Without a buffer it skips `fetch` items and goes on to copy the next    *)
(* ones to the null pointer, if there are any.                             *)
XamEnumerateWithoutBuffer(t, e) ==
    /\ use[t] = Free
    /\ enumerator[e].at = "open"
    /\ LET entries == registry[enumerator[e].type]
           first == IndexOf(enumerator[e].type, enumerator[e].position)
           left == Len(entries) - first + 1
       IN  /\ crashed' = (left > enumerator[e].fetch)
           /\ enumerator' = [enumerator EXCEPT ![e].position = "end",
                                               ![e].over = (left \in {0, enumerator[e].fetch}),
                                               ![e].skipped = TRUE]
    /\ raced' = (raced \/ \E u \in Callers :
                            use[u] # Free /\ enumerator[e].type \in use[u].changes)
    /\ UNCHANGED <<registry, rootMap, directories, lastError, use, view>>

CloseEnumerator(t, e) ==
    /\ use[t] = Free
    /\ enumerator[e].at = "open"
    /\ enumerator' = [enumerator EXCEPT ![e] = Free]
    /\ UNCHANGED <<registry, rootMap, directories, lastError, use, view, raced, crashed>>

ContentStep(t) ==
    \/ \E root \in Roots :
         \/ BeginContentClose(t, root)
         \/ \E content \in Contents, mode \in {"CREATE_ALWAYS", "OPEN_EXISTING"} :
              BeginContentCreate(t, root, content, mode)
    \/ XamContentCreateEx(t) \/ XamContentClose(t)
    \/ \E e \in Enumerators :
         \/ \E type \in ContentTypes, fetch \in Fetches, user \in {0, 1} :
              XamContentCreateEnumerator(t, e, type, fetch, user)
         \/ XamEnumerate(t, e) \/ XamEnumerateWithoutBuffer(t, e) \/ CloseEnumerator(t, e)

-----------------------------------------------------------------------------
(* An enumerator returns no package twice, and when it says that there are *)
(* no more it has returned each one that was there when it was made, also  *)
(* when packages are registered in the meantime: unless the table changed  *)
(* the order of its nodes as it grew (`shuffled`), or a call without a     *)
(* buffer skipped some.                                                    *)
EnumerationsAreComplete ==
    \A e \in Enumerators :
       enumerator[e].at = "open" /\ ~raced /\ ~enumerator[e].skipped /\ ~enumerator[e].shuffled
       => /\ IsInjective(enumerator[e].returned)
          /\ Range(enumerator[e].returned) \subseteq Range(registry[enumerator[e].type])
          /\ enumerator[e].over
             => Range(enumerator[e].made) \subseteq Range(enumerator[e].returned)

=============================================================================
