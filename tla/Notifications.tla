----------------------------- MODULE Notifications ----------------------------
(***************************************************************************)
(* The notifications of runtime/kernel/xam.cpp: struct XamListener, the    *)
(* set gListeners, XamNotifyCreateListener, XamNotifyEnqueueEvent,         *)
(* XNotifyGetNext, and the two calls that raise events,                    *)
(* XamShowDeviceSelectorUI and XamShowMessageBoxUI.                        *)
(*                                                                         *)
(* Nothing is locked.  Every use of gListeners or of a listener's vector   *)
(* has a beginning, where it marks what it uses, and an end, where it has  *)
(* its effect.  Two uses of the same container that overlap, one of them a *)
(* change, are a data race: then `raced` holds, the process may be in any  *)
(* state, and the model stops.                                             *)
(***************************************************************************)
EXTENDS Integers, Sequences, SequencesExt, FiniteSets

CONSTANTS Callers,       \* guest threads
          Listeners,     \* handles of listeners: blocks of the heap
          MaxEvents      \* bound on the events raised

VARIABLES live,          \* gListeners
          areas,         \* areas of each listener: a set of bits
          notifications, \* the vector of each listener
          call,          \* the call each thread is in
          raced,         \* two uses of one container overlapped
          raised,        \* history: the events raised, in the order they began
          expected,      \* history: the events raised for each listener
          received       \* history: the events the guest read from each listener

notifyVars == <<live, areas, notifications, call, raced, raised, expected, received>>

(* The only events the code raises: number 9 of area 0 (xam.cpp:262,523,525). *)
EventId == 9
EventArea == 0
AreaMasks == {{EventArea}, {EventArea + 1}}
Filters == {0, EventId, EventId + 1}

Idle == [op |-> "none"]
Registry == "gListeners"

NotifyInit ==
    /\ live = {}
    /\ areas = [l \in Listeners |-> {}]
    /\ notifications = [l \in Listeners |-> <<>>]
    /\ call = [t \in Callers |-> Idle]
    /\ raced = FALSE
    /\ raised = <<>>
    /\ expected = [l \in Listeners |-> {}]
    /\ received = [l \in Listeners |-> <<>>]

(* What a thread reads and changes between a beginning and its end.        *)
Reads(t) == IF call[t].op \in {"event", "append"} THEN {Registry} ELSE {}
Changes(t) ==
    CASE call[t].op \in {"append", "get"} -> {call[t].listener}
      [] call[t].op \in {"insert", "erase"} -> {Registry}
      [] OTHER -> {}

(* A use of these containers begins by thread t.                           *)
Uses(t, read, changed) ==
    raced' = \E u \in Callers \ {t} :
                \/ (read \cup changed) \cap Changes(u) # {}
                \/ changed \cap Reads(u) # {}

Become(t, record) == call' = [call EXCEPT ![t] = record]

-----------------------------------------------------------------------------
(* XamNotifyCreateListener: the constructor inserts the listener, its      *)
(* areas follow.  An event raised in between finds no area.                *)
BeginCreate(t, mask) ==
    /\ call[t] = Idle
    /\ \E l \in Listeners \ live :
         /\ \A u \in Callers : call[u].op = "insert" => call[u].listener # l
         /\ Become(t, [op |-> "insert", listener |-> l, mask |-> mask])
    /\ Uses(t, {}, {Registry})
    /\ UNCHANGED <<live, areas, notifications, raised, expected, received>>

InsertListener(t) ==
    /\ call[t].op = "insert"
    /\ LET l == call[t].listener IN
         /\ live' = live \cup {l}
         /\ Become(t, [op |-> "areas", listener |-> l, mask |-> call[t].mask])
    /\ UNCHANGED <<areas, notifications, raced, raised, expected, received>>

SetAreas(t) ==
    /\ call[t].op = "areas"
    /\ areas' = [areas EXCEPT ![call[t].listener] = call[t].mask]
    /\ Become(t, Idle)
    /\ UNCHANGED <<live, notifications, raced, raised, expected, received>>

(* NtClose of a listener's handle: the destructor erases it and its vector *)
(* goes.  The guest closes no listener that it is creating or reading.     *)
BeginClose(t, l) ==
    /\ call[t] = Idle
    /\ l \in live
    /\ \A u \in Callers : call[u].op \in {"areas", "get", "erase"} => call[u].listener # l
    /\ Become(t, [op |-> "erase", listener |-> l])
    /\ Uses(t, {}, {Registry})
    /\ UNCHANGED <<live, areas, notifications, raised, expected, received>>

EraseListener(t) ==
    /\ call[t].op = "erase"
    /\ LET l == call[t].listener IN
         /\ live' = live \ {l}
         /\ areas' = [areas EXCEPT ![l] = {}]
         /\ notifications' = [notifications EXCEPT ![l] = <<>>]
         /\ expected' = [expected EXCEPT ![l] = {}]
         /\ received' = [received EXCEPT ![l] = <<>>]
    /\ Become(t, Idle)
    /\ UNCHANGED <<raced, raised>>

-----------------------------------------------------------------------------
(* The loop of XamNotifyEnqueueEvent begins for the next parameter.        *)
BeginEvent(t, params) ==
    /\ Len(raised) < MaxEvents
    /\ Become(t, [op |-> "event", serial |-> Len(raised) + 1, left |-> live,
                  params |-> params])
    /\ raised' = Append(raised, [caller |-> t, param |-> Head(params)])
    /\ expected' = [l \in Listeners |->
                      IF l \in live /\ EventArea \in areas[l]
                      THEN expected[l] \cup {Len(raised) + 1} ELSE expected[l]]
    /\ Uses(t, {Registry}, {})
    /\ UNCHANGED <<live, areas, notifications, received>>

(* XamShowDeviceSelectorUI raises the event with 1, then with 0, and       *)
(* XamShowMessageBoxUI with 0 alone, its dialogue being over when it       *)
(* returns.                                                                *)
XamShowDeviceSelectorUI(t) == call[t] = Idle /\ BeginEvent(t, <<1, 0>>)
XamShowMessageBoxUI(t) == call[t] = Idle /\ BeginEvent(t, <<0>>)

(* The loop starts to append to a listener's vector.                       *)
StartAppend(t, l) ==
    /\ Become(t, [op |-> "append", serial |-> call[t].serial, listener |-> l,
                  left |-> call[t].left \ {l}, params |-> call[t].params])
    /\ Uses(t, {Registry}, {l})

(* The loop meets a listener, in the order of the set's buckets, and       *)
(* starts to append to its vector or leaves it for its areas.              *)
Visit(t, l) ==
    /\ call[t].op = "event"
    /\ l \in call[t].left
    /\ IF EventArea \in areas[l]
       THEN StartAppend(t, l)
       ELSE /\ Become(t, [call[t] EXCEPT !.left = @ \ {l}])
            /\ UNCHANGED raced
    /\ UNCHANGED <<live, areas, notifications, raised, expected, received>>

AppendNotification(t) ==
    /\ call[t].op = "append"
    /\ notifications' = [notifications EXCEPT ![call[t].listener] =
                           Append(@, [id |-> EventId, serial |-> call[t].serial])]
    /\ Become(t, [op |-> "event", serial |-> call[t].serial, left |-> call[t].left,
                  params |-> call[t].params])
    /\ UNCHANGED <<live, areas, raced, raised, expected, received>>

(* The loop is over: the call's next event, or its return.                 *)
NextEvent(t) ==
    /\ call[t].op = "event"
    /\ call[t].left = {}
    /\ Len(call[t].params) > 1
    /\ BeginEvent(t, Tail(call[t].params))

ReturnFromEvent(t) ==
    /\ call[t].op = "event"
    /\ call[t].left = {}
    /\ Len(call[t].params) = 1
    /\ Become(t, Idle)
    /\ UNCHANGED <<live, areas, notifications, raced, raised, expected, received>>

-----------------------------------------------------------------------------
(* The position of the notification that a call with this filter returns:  *)
(* the first, or the first of the filter's id; 0 if there is none.         *)
LastWith(queue, filter) ==
    LET found == {i \in 1 .. Len(queue) : filter \in {0, queue[i].id}}
    IN  IF found = {} THEN 0 ELSE CHOOSE i \in found : \A j \in found : j <= i

FirstWith(queue, filter) ==
    LET found == {i \in 1 .. Len(queue) : filter \in {0, queue[i].id}}
    IN  IF found = {} THEN 0 ELSE CHOOSE i \in found : \A j \in found : i <= j

BeginGetNext(t, l, filter) ==
    /\ call[t] = Idle
    /\ l \in live
    /\ \A u \in Callers : call[u].op \in {"areas", "erase"} => call[u].listener # l
    /\ Become(t, [op |-> "get", listener |-> l, filter |-> filter])
    /\ Uses(t, {}, {l})
    /\ UNCHANGED <<live, areas, notifications, raised, expected, received>>

(* XNotifyGetNext returns false, or one notification, which it erases.     *)
XNotifyGetNext(t) ==
    /\ call[t].op = "get"
    /\ LET l == call[t].listener
           i == FirstWith(notifications[l], call[t].filter)
       IN  IF i = 0 THEN UNCHANGED <<notifications, received>>
           ELSE /\ notifications' = [notifications EXCEPT ![l] = RemoveAt(@, i)]
                /\ received' = [received EXCEPT ![l] =
                                  Append(@, notifications[l][i].serial)]
    /\ Become(t, Idle)
    /\ UNCHANGED <<live, areas, raced, raised, expected>>

-----------------------------------------------------------------------------
NotifyStep(t) ==
    \/ InsertListener(t) \/ SetAreas(t) \/ EraseListener(t)
    \/ \E l \in Listeners : Visit(t, l)
    \/ AppendNotification(t) \/ NextEvent(t) \/ ReturnFromEvent(t) \/ XNotifyGetNext(t)

NotifyNext ==
    /\ ~raced
    /\ \E t \in Callers :
         \/ NotifyStep(t)
         \/ \E mask \in AreaMasks : BeginCreate(t, mask)
         \/ XamShowDeviceSelectorUI(t) \/ XamShowMessageBoxUI(t)
         \/ \E l \in Listeners :
              \/ BeginClose(t, l)
              \/ \E filter \in Filters : BeginGetNext(t, l, filter)

NotifySpec == NotifyInit /\ [][NotifyNext]_notifyVars

-----------------------------------------------------------------------------
(* The events that a loop in progress has yet to bring to a listener.      *)
OnTheWay(l) ==
    {call[t].serial : t \in {u \in Callers : call[u].op \in {"event", "append"} /\
                               (l \in call[u].left \/ (call[u].op = "append" /\ call[u].listener = l))}}

(* Without a race, every listener gets every event of its areas that is    *)
(* raised after it was made, once, and no other event; and the guest reads *)
(* the events of one dialogue in the order in which they were raised,      *)
(* whatever filters it reads with.                                         *)
EventsArriveOnceInOrder ==
    ~raced =>
      \A l \in live :
         LET arrived == received[l] \o [i \in 1 .. Len(notifications[l]) |->
                                          notifications[l][i].serial]
         IN  /\ IsInjective(arrived)
             /\ expected[l] \ OnTheWay(l) \subseteq Range(arrived)
             /\ EventArea \notin areas[l] => arrived = <<>>
             /\ \A i, j \in 1 .. Len(arrived) :
                  i < j /\ raised[arrived[i]].caller = raised[arrived[j]].caller
                    => arrived[i] < arrived[j]

=============================================================================
