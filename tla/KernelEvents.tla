----------------------------- MODULE KernelEvents -----------------------------
(***************************************************************************)
(* Events of runtime/kernel/imports.cpp: struct Event (Wait, Set, Reset)   *)
(* and the calls the guest reaches it by: KeSetEvent, KeResetEvent,        *)
(* KeWaitForSingleObject and KeWaitForMultipleObjects on events that the   *)
(* guest keeps as dispatcher headers, NtSetEvent and                       *)
(* NtWaitForSingleObjectEx on events made by NtCreateEvent.                *)
(*                                                                         *)
(* Event::signaled and GLOBAL_KE_SET_EVENT_GENERATION are atomics used     *)
(* with wait and notify: a.wait(old) compares and parks as one step with   *)
(* respect to notify, may wake for no reason, and returns only when it     *)
(* reads a value other than old.  On x86-64, the only target, a weak       *)
(* compare-exchange fails only when the value differs, so an auto-reset    *)
(* waiter always waits for FALSE to change.                                *)
(*                                                                         *)
(* pc[t] inside a call:                                                    *)
(*   store, notify         Event::Set                                      *)
(*   bump, broadcast       KeSetEvent after Set                            *)
(*   reset                 Event::Reset                                    *)
(*   poll                  Event::Wait(0)                                  *)
(*   look                  head of an auto-reset loop of Event::Wait       *)
(*   compare, asleep       inside signaled.wait(false)                     *)
(*   load, scan            wait-any: read the generation, poll event at[t] *)
(*   match, dormant        wait-any: inside GENERATION.wait(seen[t])       *)
(***************************************************************************)
EXTENDS Integers, Sequences

CONSTANTS Threads,
          Events,
          Manual,      \* events with manual_reset
          Handles,     \* events made by NtCreateEvent; the others are headers
          Initial,     \* events created signaled
          CallsOf,     \* CallsOf[t]: the calls t's guest code may make
          MaxSets      \* bound: KeSetEvent and NtSetEvent calls in a run

(* GuestTimeoutToMilliseconds yields 0, INFINITE (no timeout given) or a   *)
(* number of milliseconds; Event::Wait tells only these three apart.       *)
Timeouts == {"zero", "infinite", "finite"}

NtOps == {"NtSetEvent", "NtWaitForSingleObjectEx"}
SetOps == {"KeSetEvent", "NtSetEvent"}
WaitOps == {"KeWaitForSingleObject", "NtWaitForSingleObjectEx", "WaitAny", "WaitAll"}
Ops == SetOps \cup WaitOps \cup {"KeResetEvent"}

ASSUME EventsAssumption ==
    /\ Manual \cup Handles \cup Initial \subseteq Events
    /\ MaxSets \in Nat

(* The guest passes handles to the Nt calls and headers to the Ke calls.   *)
ASSUME CallsAssumption ==
    \A t \in Threads : \A c \in CallsOf[t] :
        /\ c.op \in Ops /\ c.timeout \in Timeouts
        /\ c.on \in Seq(Events) /\ Len(c.on) > 0
        /\ \A i \in DOMAIN c.on :
             c.on[i] \in IF c.op \in NtOps THEN Handles ELSE Events \ Handles

VARIABLES signaled,    \* Event::signaled
          generation,  \* GLOBAL_KE_SET_EVENT_GENERATION
          pc,          \* where each thread is
          call,        \* the call it is in, or was in last
          at,          \* position in that call's list of objects
          seen,        \* the generation its wait-any has loaded
          status,      \* what its last call returned
          passed,      \* history: positions whose event let the call through
          surplus,     \* history: sets of an event less the waits it let through
          picked,      \* history: woken by notify_one and not yet acted on it
          dropped,     \* history: such a wake-up ended in a time-out
          budget       \* bound: set calls still allowed

history == <<passed, surplus, picked, dropped>>
vars == <<signaled, generation, pc, call, at, seen, status, history, budget>>

Locations == {"guest", "store", "notify", "bump", "broadcast", "reset", "poll",
              "look", "compare", "asleep", "load", "scan", "match", "dormant"}

Calls == UNION {CallsOf[t] : t \in Threads}
NoCall == [op |-> "none", on |-> <<>>, timeout |-> "zero"]
SUCCESS == 0
TIMEOUT == -1

Init ==
    /\ signaled = [e \in Events |-> e \in Initial]
    /\ generation = 0
    /\ pc = [t \in Threads |-> "guest"]
    /\ call = [t \in Threads |-> NoCall]
    /\ at = [t \in Threads |-> 1]
    /\ seen = [t \in Threads |-> 0]
    /\ status = [t \in Threads |-> SUCCESS]
    /\ passed = [t \in Threads |-> {}]
    /\ surplus = [e \in Events |-> IF e \in Initial THEN 1 ELSE 0]
    /\ picked = [t \in Threads |-> FALSE]
    /\ dropped = [e \in Events |-> FALSE]
    /\ budget = MaxSets

-----------------------------------------------------------------------------
Current(t) == call[t].on[at[t]]

SleepersOn(e) == {t \in Threads : pc[t] = "asleep" /\ Current(t) = e}

Dormant == {t \in Threads : pc[t] = "dormant"}

Goto(t, location) == pc' = [pc EXCEPT ![t] = location]

Wake(t, sleepers, there, next) ==
    pc' = [u \in Threads |-> IF u = t THEN next
                             ELSE IF u \in sleepers THEN there ELSE pc[u]]

(* Where Event::Wait(timeout) of event e begins: a time-out of 0 polls, a  *)
(* manual event is waited for without a limit, finite time-outs included.  *)
WaitStart(e, timeout) ==
    IF timeout = "zero" THEN "poll" ELSE IF e \in Manual THEN "compare" ELSE "look"

CallStart(c) ==
    IF c.op \in SetOps THEN "store"
    ELSE IF c.op = "KeResetEvent" THEN "reset"
    ELSE IF c.op = "WaitAny" THEN "load"
    ELSE WaitStart(c.on[1], c.timeout)

(* The guest makes a call.                                                 *)
Call(t) ==
    /\ pc[t] = "guest"
    /\ \E c \in CallsOf[t] :
         /\ c.op \in SetOps => budget > 0
         /\ budget' = IF c.op \in SetOps THEN budget - 1 ELSE budget
         /\ call' = [call EXCEPT ![t] = c]
         /\ Goto(t, CallStart(c))
    /\ at' = [at EXCEPT ![t] = 1]
    /\ seen' = [seen EXCEPT ![t] = 0]
    /\ status' = [status EXCEPT ![t] = SUCCESS]
    /\ passed' = [passed EXCEPT ![t] = {}]
    /\ UNCHANGED <<signaled, generation, surplus, picked, dropped>>

(* Event::Wait returns r to its caller.  KeWaitForSingleObject and the     *)
(* wait-all loop ignore r; wait-all goes on to its next object.            *)
Return(t, r) ==
    /\ passed' = IF r = SUCCESS THEN [passed EXCEPT ![t] = @ \cup {at[t]}] ELSE passed
    /\ picked' = [picked EXCEPT ![t] = FALSE]
    /\ IF call[t].op = "WaitAll" /\ at[t] < Len(call[t].on)
       THEN /\ at' = [at EXCEPT ![t] = @ + 1]
            /\ Goto(t, WaitStart(call[t].on[at[t] + 1], call[t].timeout))
            /\ UNCHANGED status
       ELSE /\ status' = [status EXCEPT ![t] =
                 IF call[t].op = "NtWaitForSingleObjectEx" THEN r ELSE SUCCESS]
            /\ Goto(t, "guest")
            /\ UNCHANGED at
    /\ UNCHANGED <<generation, call, seen, budget>>

(* A bug the code could have: testing the flag without exchanging it.      *)
PassKeepsSignal(e) ==
    /\ signaled[e]
    /\ surplus' = [surplus EXCEPT ![e] = IF e \in Manual THEN @ ELSE @ - 1]
    /\ UNCHANGED <<signaled, dropped>>

(* A wait sees e signaled; an auto-reset event is exchanged back to FALSE. *)
Pass(e) ==
    /\ signaled[e]
    /\ signaled' = [signaled EXCEPT ![e] = e \in Manual]
    /\ surplus' = [surplus EXCEPT ![e] = IF e \in Manual THEN @ ELSE @ - 1]
    /\ UNCHANGED dropped

NoPass(e) ==
    /\ ~signaled[e]
    /\ UNCHANGED <<signaled, surplus, dropped>>

-----------------------------------------------------------------------------
(* Event::Set                                                              *)

Store(t) ==
    /\ pc[t] = "store"
    /\ signaled' = [signaled EXCEPT ![Current(t)] = TRUE]
    /\ surplus' = [surplus EXCEPT ![Current(t)] = @ + 1]
    /\ dropped' = [dropped EXCEPT ![Current(t)] = FALSE]
    /\ Goto(t, "notify")
    /\ UNCHANGED <<generation, call, at, seen, status, passed, picked, budget>>

(* A bug the code could have: KeSetEvent written like NtSetEvent.          *)
AfterSetForgetsGeneration(t) == "guest"

AfterSet(t) == IF call[t].op = "KeSetEvent" THEN "bump" ELSE "guest"

NotifyAll(t) ==
    /\ Current(t) \in Manual
    /\ Wake(t, SleepersOn(Current(t)), "compare", AfterSet(t))
    /\ UNCHANGED picked

NotifyOne(t) ==
    /\ Current(t) \notin Manual
    /\ \/ /\ SleepersOn(Current(t)) = {}
          /\ Goto(t, AfterSet(t))
          /\ UNCHANGED picked
       \/ \E u \in SleepersOn(Current(t)) :
            /\ Wake(t, {u}, "compare", AfterSet(t))
            /\ picked' = [picked EXCEPT ![u] = TRUE]

Notify(t) ==
    /\ pc[t] = "notify"
    /\ NotifyAll(t) \/ NotifyOne(t)
    /\ UNCHANGED <<signaled, generation, call, at, seen, status, passed,
                   surplus, dropped, budget>>

(* KeSetEvent goes on with ++GLOBAL_KE_SET_EVENT_GENERATION, notify_all.   *)
Bump(t) ==
    /\ pc[t] = "bump"
    /\ generation' = generation + 1
    /\ Goto(t, "broadcast")
    /\ UNCHANGED <<signaled, call, at, seen, status, history, budget>>

Broadcast(t) ==
    /\ pc[t] = "broadcast"
    /\ Wake(t, Dormant, "match", "guest")
    /\ UNCHANGED <<signaled, generation, call, at, seen, status, history, budget>>

(* Event::Reset                                                            *)
Reset(t) ==
    /\ pc[t] = "reset"
    /\ signaled' = [signaled EXCEPT ![Current(t)] = FALSE]
    /\ Goto(t, "guest")
    /\ UNCHANGED <<generation, call, at, seen, status, history, budget>>

-----------------------------------------------------------------------------
(* Event::Wait                                                             *)

Poll(t) ==
    /\ pc[t] = "poll"
    /\ \/ Pass(Current(t)) /\ Return(t, SUCCESS)
       \/ NoPass(Current(t)) /\ Return(t, TIMEOUT)

(* The auto-reset loops: the compare-exchange takes the signal, or fails.  *)
Take(t) ==
    /\ pc[t] = "look"
    /\ Pass(Current(t))
    /\ Return(t, SUCCESS)

Miss(t) ==
    /\ pc[t] = "look"
    /\ NoPass(Current(t))
    /\ Goto(t, "compare")
    /\ UNCHANGED <<generation, call, at, seen, status, passed, picked, budget>>

(* The timed loop finds its time elapsed, which only its head looks at.    *)
Expire(t) ==
    /\ pc[t] = "look"
    /\ call[t].timeout = "finite"
    /\ dropped' = [dropped EXCEPT ![Current(t)] = @ \/ (picked[t] /\ signaled[Current(t)])]
    /\ Return(t, TIMEOUT)
    /\ UNCHANGED <<signaled, surplus>>

(* A bug the code could have: signaled.wait(signaled), for any change.     *)
ParkOnAnyValue(t) ==
    /\ pc[t] = "compare"
    /\ Goto(t, "asleep")
    /\ picked' = [picked EXCEPT ![t] = FALSE]
    /\ UNCHANGED <<signaled, generation, call, at, seen, status, passed,
                   surplus, dropped, budget>>

(* signaled.wait(false)                                                    *)
Park(t) ==
    /\ pc[t] = "compare"
    /\ ~signaled[Current(t)]
    /\ Goto(t, "asleep")
    /\ picked' = [picked EXCEPT ![t] = FALSE]
    /\ UNCHANGED <<signaled, generation, call, at, seen, status, passed,
                   surplus, dropped, budget>>

ReturnToLoop(t) ==
    /\ pc[t] = "compare"
    /\ signaled[Current(t)]
    /\ Current(t) \notin Manual
    /\ Goto(t, "look")
    /\ UNCHANGED <<signaled, generation, call, at, seen, status, history, budget>>

SeeManual(t) ==
    /\ pc[t] = "compare"
    /\ Current(t) \in Manual
    /\ Pass(Current(t))
    /\ Return(t, SUCCESS)

-----------------------------------------------------------------------------
(* The wait-any loop of KeWaitForMultipleObjects, which has no time-out.   *)

Load(t) ==
    /\ pc[t] = "load"
    /\ seen' = [seen EXCEPT ![t] = generation]
    /\ at' = [at EXCEPT ![t] = 1]
    /\ Goto(t, "scan")
    /\ UNCHANGED <<signaled, generation, call, status, history, budget>>

(* A bug the code could have: scanning on after the first signaled event.  *)
ScanHitGoesOn(t) ==
    /\ pc[t] = "scan"
    /\ Pass(Current(t))
    /\ status' = [status EXCEPT ![t] = at[t] - 1]
    /\ passed' = [passed EXCEPT ![t] = @ \cup {at[t]}]
    /\ IF at[t] < Len(call[t].on)
       THEN at' = [at EXCEPT ![t] = @ + 1] /\ UNCHANGED pc
       ELSE Goto(t, "guest") /\ UNCHANGED at
    /\ UNCHANGED <<generation, call, seen, picked, budget>>

ScanHit(t) ==
    /\ pc[t] = "scan"
    /\ Pass(Current(t))
    /\ status' = [status EXCEPT ![t] = at[t] - 1]
    /\ passed' = [passed EXCEPT ![t] = @ \cup {at[t]}]
    /\ Goto(t, "guest")
    /\ UNCHANGED <<generation, call, at, seen, picked, budget>>

ScanMiss(t) ==
    /\ pc[t] = "scan"
    /\ NoPass(Current(t))
    /\ IF at[t] < Len(call[t].on)
       THEN at' = [at EXCEPT ![t] = @ + 1] /\ UNCHANGED pc
       ELSE Goto(t, "match") /\ UNCHANGED at
    /\ UNCHANGED <<generation, call, seen, status, passed, picked, budget>>

(* A bug the code could have: waiting on a generation loaded after the     *)
(* scan instead of the one loaded before it.                               *)
MatchLoadsLate(t) ==
    /\ pc[t] = "match"
    /\ seen' = [seen EXCEPT ![t] = generation]
    /\ Goto(t, "dormant")
    /\ UNCHANGED <<signaled, generation, call, at, status, history, budget>>

Match(t) ==
    /\ pc[t] = "match"
    /\ Goto(t, IF generation = seen[t] THEN "dormant" ELSE "load")
    /\ UNCHANGED <<signaled, generation, call, at, seen, status, history, budget>>

(* The system wakes a parked thread that nobody notified.                  *)
SpuriousWake(t) ==
    /\ pc[t] \in {"asleep", "dormant"}
    /\ Goto(t, IF pc[t] = "asleep" THEN "compare" ELSE "match")
    /\ UNCHANGED <<signaled, generation, call, at, seen, status, history, budget>>

-----------------------------------------------------------------------------
(* What a thread inside a call does without the guest's choice.            *)
Step(t) ==
    \/ Store(t) \/ Notify(t) \/ Bump(t) \/ Broadcast(t) \/ Reset(t)
    \/ Poll(t) \/ Take(t) \/ Miss(t) \/ Park(t) \/ ReturnToLoop(t) \/ SeeManual(t)
    \/ Load(t) \/ ScanHit(t) \/ ScanMiss(t) \/ Match(t)

Next == \E t \in Threads : Call(t) \/ Expire(t) \/ SpuriousWake(t) \/ Step(t)

Spec == Init /\ [][Next]_vars

(* The host's scheduler runs every thread that can run; guest calls, the   *)
(* clock and spurious wakes come as they please.                           *)
FairSpec == Spec /\ \A t \in Threads : WF_vars(Step(t))

-----------------------------------------------------------------------------
TypeOK ==
    /\ signaled \in [Events -> BOOLEAN]
    /\ generation \in Nat
    /\ budget \in 0 .. MaxSets
    /\ pc \in [Threads -> Locations]
    /\ call \in [Threads -> Calls \cup {NoCall}]
    /\ at \in [Threads -> Nat]
    /\ seen \in [Threads -> Nat]
    /\ status \in [Threads -> Int]
    /\ passed \in [Threads -> SUBSET Nat]
    /\ \A t \in Threads :
         /\ call[t] \in CallsOf[t] \cup {NoCall}
         /\ call[t] # NoCall => at[t] \in DOMAIN call[t].on
         /\ passed[t] \subseteq DOMAIN call[t].on
    /\ surplus \in [Events -> Int]
    /\ picked \in [Threads -> BOOLEAN]
    /\ dropped \in [Events -> BOOLEAN]

(* A signal of an auto-reset event lets at most one wait through, whatever *)
(* mix of polls, loops and wait-any scans races for it.                    *)
OneWaitPerSet ==
    \A e \in Events \ Manual : surplus[e] >= IF signaled[e] THEN 1 ELSE 0

(* What a wait reports is what it consumed: NtWaitForSingleObjectEx        *)
(* returns STATUS_SUCCESS just when the event let it through, wait-any     *)
(* returns the index of the one event it took, and an untimed wait-all     *)
(* has passed every event.                                                 *)
ResultsAreTrue ==
    \A t \in Threads : pc[t] = "guest" =>
        /\ call[t].op = "NtWaitForSingleObjectEx" =>
             (status[t] = SUCCESS) = (passed[t] = {1})
        /\ call[t].op = "WaitAny" => passed[t] = {status[t] + 1}
        /\ call[t].op = "WaitAll" /\ call[t].timeout = "infinite" =>
             passed[t] = DOMAIN call[t].on

(* While a thread lies dormant in a wait-any one of whose events is        *)
(* signaled, the KeSetEvent that signaled it is still running and has the  *)
(* generation or the notification before it.                               *)
WaitAnyMissesNothing ==
    \A t \in Dormant : \A i \in DOMAIN call[t].on :
        signaled[call[t].on[i]] =>
            \E s \in Threads :
                /\ pc[s] \in {"notify", "bump", "broadcast"}
                /\ Current(s) = call[t].on[i]

(* Somebody acts on behalf of the threads asleep on a signaled event: the  *)
(* Set that is about to notify, or the thread that notify_one has woken.   *)
Attends(t, e) ==
    /\ pc[t] = "notify" \/ (pc[t] \in {"compare", "look"} /\ picked[t])
    /\ Current(t) = e

Attended(e) ==
    signaled[e] /\ SleepersOn(e) # {} => \E t \in Threads : Attends(t, e)

(* No wake-up is lost, except when the thread that notify_one has woken    *)
(* finds its own finite time-out elapsed and leaves the signal behind.     *)
NoLostWakeup == \A e \in Events : dropped[e] \/ Attended(e)

(* A manual event that stays signaled lets every waiter through, wherever  *)
(* in its call the thread was when the event was set.                      *)
WaitsFor(t, e) ==
    /\ pc[t] \notin {"guest", "store", "notify", "bump", "broadcast", "reset"}
    /\ IF call[t].op = "WaitAny" THEN \E i \in DOMAIN call[t].on : call[t].on[i] = e
                                 ELSE Current(t) = e

SignalReachesWaiters ==
    \A t \in Threads : \A e \in Manual :
        (WaitsFor(t, e) /\ signaled[e]) ~> (~WaitsFor(t, e) \/ ~signaled[e])

=============================================================================
