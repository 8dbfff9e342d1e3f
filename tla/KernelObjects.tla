----------------------------- MODULE KernelObjects -----------------------------
(***************************************************************************)
(* The objects of the kernel: those behind the guest's dispatcher headers, *)
(* which QueryKernelObject of runtime/kernel/xdm.hpp makes at first use,   *)
(* and those the guest knows by handle, from NtCreateEvent and             *)
(* NtCreateMutant to NtClose.                                              *)
(*                                                                         *)
(* A header's WaitListHead carries a signature and the address of its      *)
(* object, in guest memory: KeInitializeEvent, which the game has inlined, *)
(* overwrites them, and KeInitializeSemaphore does not.  Nobody destroys   *)
(* the object of a header.                                                 *)
(*                                                                         *)
(* pc[t]: guest   runs guest code                                          *)
(*        enter   in QueryKernelObject, about to take GLOBAL_KERNEL_LOCK   *)
(*        test    holds it, about to look at the signature                 *)
(*        create  has written the signature, about to make the object      *)
(*        link    about to write the object's address                      *)
(*        leave   about to give up the lock                                *)
(*        use     calls a method of the object                             *)
(***************************************************************************)
EXTENDS FiniteSets

CONSTANTS Threads,
          Headers,      \* dispatcher headers in guest memory
          Blocks,       \* of the physical heap, one object each
          None          \* no thread, no block, no header

ASSUME NoneAssumption == None \notin Threads \cup Headers \cup Blocks

VARIABLES pc,
          subject,      \* the header of the query a thread is in
          class,        \* the class T it asks for
          object,       \* the object it was given
          lock,         \* who holds GLOBAL_KERNEL_LOCK
          signed,       \* WaitListHead.Flink = OBJECT_SIGNATURE
          blink,        \* WaitListHead.Blink
          type,         \* the class the guest last initialised the header for
          heap,         \* the class of the object in each block, or free
          handles,      \* blocks the guest has open handles to
          stale,        \* history: headers initialised over a signature
          pulled        \* history: threads whose object was closed under them

guestMemory == <<signed, blink, type>>
vars == <<pc, subject, class, object, lock, guestMemory, heap, handles, stale, pulled>>

Classes == {"Event", "Semaphore", "Mutant"}
InQuery == {"enter", "test", "create", "link", "leave"}
InLock == {"test", "create", "link", "leave"}
Locations == {"guest", "use"} \cup InQuery

Init ==
    /\ pc = [t \in Threads |-> "guest"]
    /\ subject = [t \in Threads |-> None]
    /\ class = [t \in Threads |-> "Event"]
    /\ object = [t \in Threads |-> None]
    /\ lock = None
    /\ signed = [h \in Headers |-> FALSE]
    /\ blink = [h \in Headers |-> None]
    /\ type = [h \in Headers |-> "none"]
    /\ heap = [b \in Blocks |-> "free"]
    /\ handles = {}
    /\ stale = {}
    /\ pulled = {}

Goto(t, location) == pc' = [pc EXCEPT ![t] = location]

Queried(h) == \E t \in Threads : pc[t] # "guest" /\ subject[t] = h

-----------------------------------------------------------------------------
(* The guest's own initialisation of an event, in memory it may have used  *)
(* for another header before.                                              *)
InitializeEvent(h) ==
    /\ ~Queried(h)
    /\ signed' = [signed EXCEPT ![h] = FALSE]
    /\ type' = [type EXCEPT ![h] = "Event"]
    /\ stale' = stale \ {h}
    /\ UNCHANGED <<pc, subject, class, object, lock, blink, heap, handles, pulled>>

Query(t, h, T) ==
    /\ subject' = [subject EXCEPT ![t] = h]
    /\ class' = [class EXCEPT ![t] = T]
    /\ Goto(t, "enter")

(* KeInitializeSemaphore rewrites the header, but not its WaitListHead.    *)
InitializeSemaphore(t, h) ==
    /\ pc[t] = "guest" /\ ~Queried(h)
    /\ type' = [type EXCEPT ![h] = "Semaphore"]
    /\ stale' = IF signed[h] THEN stale \cup {h} ELSE stale
    /\ Query(t, h, "Semaphore")
    /\ UNCHANGED <<object, lock, signed, blink, heap, handles, pulled>>

(* KeSetEvent, KeResetEvent, KeReleaseSemaphore, KeWaitForSingleObject     *)
CallOnHeader(t, h) ==
    /\ pc[t] = "guest" /\ type[h] # "none"
    /\ Query(t, h, type[h])
    /\ UNCHANGED <<object, lock, guestMemory, heap, handles, stale, pulled>>

-----------------------------------------------------------------------------
(* QueryKernelObject                                                       *)

(* A bug the code could have: no lock, as in TryQueryKernelObject.         *)
EnterUnlocked(t) ==
    /\ pc[t] = "enter"
    /\ Goto(t, "test")
    /\ UNCHANGED <<subject, class, object, lock, guestMemory, heap, handles, stale, pulled>>

Enter(t) ==
    /\ pc[t] = "enter"
    /\ lock = None
    /\ lock' = t
    /\ Goto(t, "test")
    /\ UNCHANGED <<subject, class, object, guestMemory, heap, handles, stale, pulled>>

FindSigned(t) ==
    /\ pc[t] = "test"
    /\ signed[subject[t]]
    /\ object' = [object EXCEPT ![t] = blink[subject[t]]]
    /\ Goto(t, "leave")
    /\ UNCHANGED <<subject, class, lock, guestMemory, heap, handles, stale, pulled>>

Sign(t) ==
    /\ pc[t] = "test"
    /\ ~signed[subject[t]]
    /\ signed' = [signed EXCEPT ![subject[t]] = TRUE]
    /\ Goto(t, "create")
    /\ UNCHANGED <<subject, class, object, lock, blink, type, heap, handles, stale, pulled>>

(* A bug the code could have: an object of the class of the call before.   *)
CreateEvent(t) ==
    /\ pc[t] = "create"
    /\ \E b \in Blocks :
         /\ heap[b] = "free"
         /\ heap' = [heap EXCEPT ![b] = "Event"]
         /\ object' = [object EXCEPT ![t] = b]
    /\ Goto(t, "link")
    /\ UNCHANGED <<subject, class, lock, guestMemory, handles, stale, pulled>>

Create(t) ==
    /\ pc[t] = "create"
    /\ \E b \in Blocks :
         /\ heap[b] = "free"
         /\ heap' = [heap EXCEPT ![b] = class[t]]
         /\ object' = [object EXCEPT ![t] = b]
    /\ Goto(t, "link")
    /\ UNCHANGED <<subject, class, lock, guestMemory, handles, stale, pulled>>

(* A bug the code could have: the address never written.                   *)
LinkNothing(t) ==
    /\ pc[t] = "link"
    /\ Goto(t, "leave")
    /\ UNCHANGED <<subject, class, object, lock, guestMemory, heap, handles, stale, pulled>>

Link(t) ==
    /\ pc[t] = "link"
    /\ blink' = [blink EXCEPT ![subject[t]] = object[t]]
    /\ Goto(t, "leave")
    /\ UNCHANGED <<subject, class, object, lock, signed, type, heap, handles, stale, pulled>>

Leave(t) ==
    /\ pc[t] = "leave"
    /\ lock' = None
    /\ Goto(t, "use")
    /\ UNCHANGED <<subject, class, object, guestMemory, heap, handles, stale, pulled>>

WaitReturns(t) ==
    /\ pc[t] = "use"
    /\ Goto(t, "guest")
    /\ subject' = [subject EXCEPT ![t] = None]
    /\ object' = [object EXCEPT ![t] = None]
    /\ pulled' = pulled \ {t}
    /\ UNCHANGED <<class, lock, guestMemory, heap, handles, stale>>

-----------------------------------------------------------------------------
(* NtCreateEvent, NtCreateMutant                                           *)
CreateHandle(t, T) ==
    /\ pc[t] = "guest" /\ T \in {"Event", "Mutant"}
    /\ \E b \in Blocks :
         /\ heap[b] = "free"
         /\ heap' = [heap EXCEPT ![b] = T]
         /\ handles' = handles \cup {b}
    /\ UNCHANGED <<pc, subject, class, object, lock, guestMemory, stale, pulled>>

(* NtSetEvent, NtReleaseMutant, NtWaitForSingleObjectEx                    *)
CallOnHandle(t, b) ==
    /\ pc[t] = "guest" /\ b \in handles
    /\ object' = [object EXCEPT ![t] = b]
    /\ class' = [class EXCEPT ![t] = heap[b]]
    /\ Goto(t, "use")
    /\ UNCHANGED <<subject, lock, guestMemory, heap, handles, stale, pulled>>

(* NtClose, DestroyKernelObject: whether or not anybody uses the object.   *)
Close(t, b) ==
    /\ pc[t] = "guest" /\ b \in handles
    /\ heap' = [heap EXCEPT ![b] = "free"]
    /\ handles' = handles \ {b}
    /\ pulled' = pulled \cup {u \in Threads : pc[u] = "use" /\ object[u] = b}
    /\ UNCHANGED <<pc, subject, class, object, lock, guestMemory, stale>>

-----------------------------------------------------------------------------
Next ==
    \/ \E h \in Headers : InitializeEvent(h)
    \/ \E t \in Threads :
         \/ Enter(t) \/ FindSigned(t) \/ Sign(t) \/ Create(t) \/ Link(t) \/ Leave(t)
         \/ WaitReturns(t)
         \/ \E h \in Headers : InitializeSemaphore(t, h) \/ CallOnHeader(t, h)
         \/ \E T \in Classes : CreateHandle(t, T)
         \/ \E b \in Blocks : CallOnHandle(t, b) \/ Close(t, b)

Spec == Init /\ [][Next]_vars

-----------------------------------------------------------------------------
TypeOK ==
    /\ pc \in [Threads -> Locations]
    /\ subject \in [Threads -> Headers \cup {None}]
    /\ class \in [Threads -> Classes]
    /\ object \in [Threads -> Blocks \cup {None}]
    /\ lock \in Threads \cup {None}
    /\ \A t \in Threads : pc[t] \in InLock <=> lock = t
    /\ signed \in [Headers -> BOOLEAN]
    /\ blink \in [Headers -> Blocks \cup {None}]
    /\ type \in [Headers -> {"none", "Event", "Semaphore"}]
    /\ heap \in [Blocks -> Classes \cup {"free"}]
    /\ handles \subseteq Blocks
    /\ stale \subseteq Headers
    /\ pulled \subseteq Threads

(* Threads that are inside calls on one header work on one object, however *)
(* many of them met the header first.                                      *)
OneObjectPerHeader ==
    \A t, u \in Threads :
        pc[t] = "use" /\ pc[u] = "use" /\ subject[t] = subject[u] /\ subject[t] # None
            => object[t] = object[u]

(* A header that has an object has a live one to itself: no handle reaches *)
(* it, so no NtClose destroys it, and no other header shares it.           *)
HeadersOwnTheirObjects ==
    \A h \in Headers : signed[h] /\ (lock # None => subject[lock] # h) =>
        /\ blink[h] \in Blocks
        /\ heap[blink[h]] # "free"
        /\ blink[h] \notin handles
        /\ \A g \in Headers : signed[g] /\ blink[g] = blink[h] => g = h

(* A method is called on an object of its class, unless the guest has      *)
(* closed the handle under the call, or KeInitializeSemaphore has met the  *)
(* signature of a former object in the header's memory.                    *)
CallsFitTheirObjects ==
    \A t \in Threads :
        pc[t] = "use" /\ t \notin pulled /\ subject[t] \notin stale
            => heap[object[t]] = class[t]

=============================================================================
