------------------------------- MODULE MCStorage -------------------------------
(***************************************************************************)
(* The instance that TLC checks of FileSystem and Content.  In its four    *)
(* parts packages are opened and closed while files are opened through     *)
(* them; packages are registered while they are enumerated; the files of   *)
(* the game are read and written; and searches begin while roots are       *)
(* closed.                                                                 *)
(***************************************************************************)
EXTENDS FileSystem

VARIABLE part

MCHostFiles ==
    [path \in {"Data", "Save", "."} \X {"f", "g"} |->
       CASE path = <<"Data", "f">> -> <<0, 0>>
         [] path = <<"Data", "g">> -> <<0>>
         [] path = <<".", "f">> -> <<>>
         [] OTHER -> NoFile]

vars == <<part, contentVars, fileVars>>

Init == FileInit /\ part \in {"packages", "enumerations", "files", "searches"}

(* Packages are created and opened, and files are opened to be written.    *)
Packages(t) ==
    \/ /\ io[t] = Free
       /\ \/ \E root \in Roots, mode \in {"CREATE_ALWAYS", "OPEN_EXISTING"},
                content \in {c \in Contents : c.file # "b"} :
               BeginContentCreate(t, root, content, mode)
          \/ \E root \in Roots : BeginContentClose(t, root)
          \/ XamContentCreateEx(t) \/ XamContentClose(t)
       /\ UNCHANGED fileVars
    \/ \E root \in Roots \cup {"D"} :
         BeginResolve(t, root, [at |-> "create", file |-> "f", mode |-> "write",
                                asked |-> Unasked])
    \/ \E h \in Files : XCreateFileA(t, h) \/ CloseFile(t, h)

Enumerations(t) ==
    /\ \/ \E root \in Roots, content \in Contents :
            BeginContentCreate(t, root, content, "CREATE_ALWAYS")
       \/ XamContentCreateEx(t)
       \/ \E e \in Enumerators :
            \/ \E type \in ContentTypes, fetch \in Fetches, user \in {0, 1} :
                 XamContentCreateEnumerator(t, e, type, fetch, user)
            \/ XamEnumerate(t, e) \/ XamEnumerateWithoutBuffer(t, e) \/ CloseEnumerator(t, e)
    /\ UNCHANGED fileVars

SearchesAndCloses(t) ==
    \/ \E root \in AllRoots : SearchStep(t, root)
    \/ Return(t)
    \/ io[t] = Free /\ UNCHANGED fileVars
       /\ (XamContentClose(t) \/ \E root \in AllRoots : BeginContentClose(t, root))

Next ==
    /\ ~raced /\ ~crashed
    /\ UNCHANGED part
    /\ \E t \in Callers :
         \/ part \in {"packages", "files", "searches"} /\ ResolveStep(t)
         \/ part = "packages" /\ Packages(t)
         \/ part = "enumerations" /\ Enumerations(t)
         \/ part = "files" /\ (OpenStep(t, "D") \/ StreamStep(t))
         \/ part = "searches" /\ SearchesAndCloses(t)

Spec == Init /\ [][Next]_vars

=============================================================================
