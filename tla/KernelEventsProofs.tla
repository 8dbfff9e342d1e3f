-------------------------- MODULE KernelEventsProofs --------------------------
(***************************************************************************)
(* Safety of KernelEvents for every number of threads, events and calls.   *)
(*                                                                         *)
(* The inductive invariant IInv has four parts: the types, with what each  *)
(* place in a call says about the call (TypeInv); what a wait-any knows of *)
(* the events it has polled, by the generation it loaded (GenerationInv);  *)
(* the balance of sets and waits (OneWaitPerSet); and who is responsible   *)
(* for the threads asleep on a signaled event (WakeupInv).  ResultInv adds *)
(* what a wait in progress has passed so far.                              *)
(***************************************************************************)
EXTENDS KernelEvents, TLAPS

CallInv ==
    \A t \in Threads :
        /\ pc[t] # "guest" => call[t] \in CallsOf[t] /\ at[t] \in DOMAIN call[t].on
        /\ pc[t] \in {"store", "notify"} => call[t].op \in SetOps
        /\ pc[t] \in {"bump", "broadcast"} => call[t].op = "KeSetEvent"
        /\ pc[t] \in {"load", "scan", "match", "dormant"} => call[t].op = "WaitAny"
        /\ pc[t] = "reset" => call[t].op = "KeResetEvent"
        /\ pc[t] \in {"poll", "look", "compare", "asleep"} =>
             call[t].op \in WaitOps \ {"WaitAny"}

TypeInv == TypeOK /\ CallInv

LEMMA InitType == Init => TypeInv
  BY EventsAssumption DEF Init, TypeInv, TypeOK, CallInv, Locations, NoCall, SUCCESS

LEMMA CallFacts ==
    ASSUME NEW t \in Threads, NEW c \in CallsOf[t]
    PROVE  /\ c.op \in Ops
           /\ c.timeout \in Timeouts
           /\ c.on \in Seq(Events)
           /\ Len(c.on) \in Nat /\ Len(c.on) > 0
           /\ DOMAIN c.on = 1 .. Len(c.on)
           /\ \A i \in DOMAIN c.on :
                 /\ c.on[i] \in Events
                 /\ c.op \in NtOps => c.on[i] \in Handles
                 /\ c.op \notin NtOps => c.on[i] \notin Handles
  BY CallsAssumption

LEMMA ReturnType ==
    ASSUME TypeInv, NEW t \in Threads, NEW r \in Int, Return(t, r),
           pc[t] \in {"poll", "look", "compare"},
           signaled' \in [Events -> BOOLEAN], surplus' \in [Events -> Int],
           dropped' \in [Events -> BOOLEAN]
    PROVE  TypeInv'
<1>1. /\ call[t] \in CallsOf[t]
      /\ at[t] \in DOMAIN call[t].on
      /\ call[t].op \in WaitOps \ {"WaitAny"}
  BY DEF TypeInv, CallInv
<1>2. \E l \in {"poll", "compare", "look"} :
        \/ pc' = [pc EXCEPT ![t] = "guest"] /\ at' = at
        \/ /\ pc' = [pc EXCEPT ![t] = l]
           /\ at' = [at EXCEPT ![t] = @ + 1]
           /\ at[t] + 1 \in DOMAIN call[t].on
  <2>1. CASE call[t].op = "WaitAll" /\ at[t] < Len(call[t].on)
    <3>1. at[t] + 1 \in DOMAIN call[t].on
      BY <1>1, <2>1, CallFacts
    <3>2. WaitStart(call[t].on[at[t] + 1], call[t].timeout) \in {"poll", "compare", "look"}
      BY DEF WaitStart
    <3> QED
      BY <2>1, <3>1, <3>2 DEF Return, Goto
  <2>2. CASE ~(call[t].op = "WaitAll" /\ at[t] < Len(call[t].on))
    BY <2>2 DEF Return, Goto
  <2> QED
    BY <2>1, <2>2
<1>3. /\ status' \in [Threads -> Int]
      /\ picked' \in [Threads -> BOOLEAN]
      /\ UNCHANGED <<generation, call, seen, budget>>
  BY DEF Return, TypeInv, TypeOK, SUCCESS
<1>4. /\ passed' \in [Threads -> SUBSET Nat]
      /\ \A u \in Threads : passed'[u] \subseteq DOMAIN call'[u].on
  BY <1>1 DEF Return, TypeInv, TypeOK
<1>5. /\ at' \in [Threads -> Nat]
      /\ \A u \in Threads : call'[u] # NoCall => at'[u] \in DOMAIN call'[u].on
  BY <1>1, <1>2, <1>3 DEF TypeInv, TypeOK
<1>7. pc' \in [Threads -> Locations]
  BY <1>2 DEF TypeInv, TypeOK, Locations
<1>6. TypeOK'
  BY <1>3, <1>4, <1>5, <1>7 DEF TypeInv, TypeOK
<1>8. CallInv'
  BY <1>1, <1>2, <1>3 DEF TypeInv, TypeOK, CallInv
<1> QED
  BY <1>6, <1>8 DEF TypeInv

(* The object of a call in progress exists; Nt calls have handles.         *)
LEMMA CurrentType ==
    ASSUME TypeInv, NEW t \in Threads, pc[t] # "guest"
    PROVE  /\ Current(t) \in Events
           /\ (Current(t) \in Handles) = (call[t].op \in NtOps)
  BY CallFacts DEF TypeInv, CallInv, Current

LEMMA PassType ==
    ASSUME TypeInv, NEW e \in Events, Pass(e) \/ NoPass(e)
    PROVE  /\ signaled' \in [Events -> BOOLEAN]
           /\ surplus' \in [Events -> Int]
           /\ dropped' \in [Events -> BOOLEAN]
<1>1. CASE Pass(e)
  <2>1. (e \in Manual) \in BOOLEAN
    OBVIOUS
  <2>2. signaled' \in [Events -> BOOLEAN]
    BY <1>1, <2>1, Zenon DEF TypeInv, TypeOK, Pass
  <2> QED
    BY <1>1, <2>2 DEF TypeInv, TypeOK, Pass
<1>2. CASE NoPass(e)
  BY <1>2 DEF TypeInv, TypeOK, NoPass
<1> QED
  BY <1>1, <1>2

LEMMA WakeType ==
    ASSUME TypeInv, NEW t \in Threads, NEW S, NEW l1 \in Locations, NEW l2 \in Locations,
           Wake(t, S, l1, l2)
    PROVE  /\ pc' \in [Threads -> Locations]
           /\ pc'[t] = l2
           /\ \A u \in Threads \ {t} : pc'[u] = IF u \in S THEN l1 ELSE pc[u]
  BY DEF TypeInv, TypeOK, Wake

LEMMA NextType == TypeInv /\ [Next]_vars => TypeInv'
<1> SUFFICES ASSUME TypeInv, [Next]_vars PROVE TypeInv'
  OBVIOUS
<1>1. ASSUME NEW t \in Threads, Call(t) PROVE TypeInv'
  <2>1. PICK c \in CallsOf[t] :
          /\ c.op \in SetOps => budget > 0
          /\ budget' = IF c.op \in SetOps THEN budget - 1 ELSE budget
          /\ call' = [call EXCEPT ![t] = c]
          /\ pc' = [pc EXCEPT ![t] = CallStart(c)]
    BY <1>1 DEF Call, Goto
  <2>2. /\ c.op \in Ops /\ 1 \in DOMAIN c.on
        /\ c \in Calls
    BY CallFacts DEF Calls
  <2>3. /\ CallStart(c) \in Locations \ {"guest", "notify", "bump", "broadcast"}
        /\ CallStart(c) = "store" => c.op \in SetOps
        /\ CallStart(c) = "reset" => c.op = "KeResetEvent"
        /\ CallStart(c) \in {"load", "scan", "match", "dormant"} => c.op = "WaitAny"
        /\ CallStart(c) \in {"poll", "look", "compare", "asleep"} =>
             c.op \in WaitOps \ {"WaitAny"}
    BY <2>2 DEF CallStart, WaitStart, Locations, Ops, SetOps, WaitOps
  <2>4. TypeOK'
    BY <1>1, <2>1, <2>2, <2>3, EventsAssumption DEF Call, TypeInv, TypeOK, SUCCESS
  <2>5. CallInv'
    BY <1>1, <2>1, <2>2, <2>3 DEF Call, TypeInv, TypeOK, CallInv
  <2> QED
    BY <2>4, <2>5 DEF TypeInv
<1>2. ASSUME NEW t \in Threads, Store(t) PROVE TypeInv'
  BY <1>2, CurrentType DEF Store, Goto, TypeInv, TypeOK, CallInv, Locations
<1>3. ASSUME NEW t \in Threads, Notify(t) PROVE TypeInv'
  <2>1. /\ AfterSet(t) \in {"guest", "bump"} \cap Locations
        /\ AfterSet(t) = "bump" => call[t].op = "KeSetEvent"
    BY DEF AfterSet, Locations
  <2>2. /\ picked' \in [Threads -> BOOLEAN]
        /\ \E S \in SUBSET SleepersOn(Current(t)) : Wake(t, S, "compare", AfterSet(t))
    <3>1. CASE NotifyAll(t)
      BY <3>1 DEF NotifyAll, TypeInv, TypeOK
    <3>2. ASSUME Goto(t, AfterSet(t)), UNCHANGED picked
          PROVE  /\ picked' \in [Threads -> BOOLEAN]
                 /\ Wake(t, {}, "compare", AfterSet(t))
      BY <3>2 DEF Goto, Wake, TypeInv, TypeOK
    <3>3. ASSUME NEW u \in SleepersOn(Current(t)),
                 picked' = [picked EXCEPT ![u] = TRUE]
          PROVE  picked' \in [Threads -> BOOLEAN] /\ {u} \in SUBSET SleepersOn(Current(t))
      BY <3>3 DEF TypeInv, TypeOK
    <3> QED
      BY <1>3, <3>1, <3>2, <3>3 DEF Notify, NotifyOne
  <2> QED
    BY <1>3, <2>1, <2>2
       DEF Notify, SleepersOn, Wake, TypeInv, TypeOK, CallInv, Locations
<1>4. ASSUME NEW t \in Threads, Bump(t) PROVE TypeInv'
  BY <1>4 DEF Bump, Goto, history, TypeInv, TypeOK, CallInv, Locations
<1>5. ASSUME NEW t \in Threads, Broadcast(t) PROVE TypeInv'
  BY <1>5 DEF Broadcast, Dormant, Wake, history, TypeInv, TypeOK, CallInv, Locations
<1>6. ASSUME NEW t \in Threads, Reset(t) PROVE TypeInv'
  BY <1>6, CurrentType DEF Reset, Goto, history, TypeInv, TypeOK, CallInv, Locations
<1>7. ASSUME NEW t \in Threads, Poll(t) \/ Take(t) \/ SeeManual(t) \/ Expire(t)
      PROVE TypeInv'
  <2>1. pc[t] \in {"poll", "look", "compare"}
    BY <1>7 DEF Poll, Take, SeeManual, Expire
  <2>2. /\ signaled' \in [Events -> BOOLEAN]
        /\ surplus' \in [Events -> Int]
        /\ dropped' \in [Events -> BOOLEAN]
    BY <1>7, <2>1, CurrentType, PassType
       DEF Poll, Take, SeeManual, Expire, TypeInv, TypeOK
  <2> QED
    BY <1>7, <2>1, <2>2, ReturnType DEF Poll, Take, SeeManual, Expire, SUCCESS, TIMEOUT
<1>8. ASSUME NEW t \in Threads, Miss(t) \/ Park(t) \/ ReturnToLoop(t) PROVE TypeInv'
  <2>1. /\ pc[t] \in {"look", "compare"}
        /\ pc' \in {[pc EXCEPT ![t] = l] : l \in {"look", "compare", "asleep"}}
        /\ picked' \in {picked, [picked EXCEPT ![t] = FALSE]}
        /\ UNCHANGED <<signaled, generation, call, at, seen, status, passed,
                       surplus, dropped, budget>>
    BY <1>8 DEF Miss, Park, ReturnToLoop, NoPass, Goto, history
  <2>2. TypeOK'
    BY <2>1 DEF TypeInv, TypeOK, Locations
  <2>3. CallInv'
    BY <2>1 DEF TypeInv, TypeOK, CallInv
  <2> QED
    BY <2>2, <2>3 DEF TypeInv
<1>9. ASSUME NEW t \in Threads, Load(t) PROVE TypeInv'
  <2>1. 1 \in DOMAIN call[t].on
    BY <1>9, CallFacts DEF Load, TypeInv, CallInv
  <2> QED
    BY <1>9, <2>1 DEF Load, Goto, history, TypeInv, TypeOK, CallInv, Locations
<1>10. ASSUME NEW t \in Threads, ScanHit(t) PROVE TypeInv'
  <2>1. at[t] \in DOMAIN call[t].on
    BY <1>10 DEF ScanHit, TypeInv, CallInv
  <2>2. /\ signaled' \in [Events -> BOOLEAN]
        /\ surplus' \in [Events -> Int]
        /\ dropped' \in [Events -> BOOLEAN]
    BY <1>10, CurrentType, PassType DEF ScanHit
  <2> QED
    BY <1>10, <2>1, <2>2 DEF ScanHit, Goto, TypeInv, TypeOK, CallInv, Locations
<1>11. ASSUME NEW t \in Threads, ScanMiss(t) PROVE TypeInv'
  <2>1. at[t] < Len(call[t].on) => at[t] + 1 \in DOMAIN call[t].on
    BY <1>11, CallFacts DEF ScanMiss, TypeInv, CallInv
  <2>2. /\ pc[t] = "scan"
        /\ \/ /\ pc' = pc /\ at' = [at EXCEPT ![t] = @ + 1]
              /\ at[t] + 1 \in DOMAIN call[t].on
           \/ pc' = [pc EXCEPT ![t] = "match"] /\ at' = at
        /\ UNCHANGED <<signaled, generation, call, seen, status, passed, picked,
                       surplus, dropped, budget>>
    BY <1>11, <2>1 DEF ScanMiss, NoPass, Goto
  <2>3. /\ at' \in [Threads -> Nat]
        /\ \A u \in Threads : call'[u] # NoCall => at'[u] \in DOMAIN call'[u].on
    <3>1. CASE at' = [at EXCEPT ![t] = @ + 1] /\ at[t] + 1 \in DOMAIN call[t].on
      <4>1. at[t] \in Nat /\ at[t] + 1 \in Nat
        BY DEF TypeInv, TypeOK
      <4>2. at' \in [Threads -> Nat]
        BY <3>1, <4>1 DEF TypeInv, TypeOK
      <4>3. \A u \in Threads : at'[u] = IF u = t THEN at[t] + 1 ELSE at[u]
        BY <3>1 DEF TypeInv, TypeOK
      <4>4. call' = call
        BY <2>2
      <4> QED
        BY <3>1, <4>2, <4>3, <4>4 DEF TypeInv, TypeOK
    <3>2. CASE at' = at
      BY <2>2, <3>2 DEF TypeInv, TypeOK
    <3> QED
      BY <2>2, <3>1, <3>2
  <2>4. TypeOK'
    BY <2>2, <2>3 DEF TypeInv, TypeOK, Locations
  <2>5. CallInv'
    BY <2>1, <2>2 DEF TypeInv, TypeOK, CallInv
  <2> QED
    BY <2>4, <2>5 DEF TypeInv
<1>12. ASSUME NEW t \in Threads, Match(t) \/ SpuriousWake(t) PROVE TypeInv'
  BY <1>12 DEF Match, SpuriousWake, Goto, history, TypeInv, TypeOK, CallInv, Locations
<1>13. CASE UNCHANGED vars
  BY <1>13 DEF vars, history, TypeInv, TypeOK, CallInv
<1> QED
  BY <1>1, <1>2, <1>3, <1>4, <1>5, <1>6, <1>7, <1>8, <1>9, <1>10, <1>11, <1>12,
     <1>13 DEF Next, Step

-----------------------------------------------------------------------------
(* The set that signaled e has not reached its generation yet.             *)
Setting(e) == \E s \in Threads : pc[s] \in {"notify", "bump"} /\ Current(s) = e

SeenInv == \A t \in Threads : seen[t] <= generation

(* What a wait-any has polled since it loaded the generation is still      *)
(* clear, or will be found out by comparing generations.                   *)
Polled(t, i) ==
    pc[t] \in {"match", "dormant"} \/ (pc[t] = "scan" /\ i < at[t])

ScanInv ==
    \A t \in Threads : \A i \in DOMAIN call[t].on :
        Polled(t, i) /\ signaled[call[t].on[i]] =>
            seen[t] # generation \/ Setting(call[t].on[i])

GenerationInv == SeenInv /\ ScanInv /\ WaitAnyMissesNothing

(* Only headers are waited for by wait-any, so their setter always bumps.  *)
LEMMA HeaderFacts ==
    ASSUME TypeInv, NEW t \in Threads, NEW i \in DOMAIN call[t].on,
           pc[t] \in {"scan", "match", "dormant"}
    PROVE  call[t].on[i] \in Events \ Handles
  BY CallFacts DEF TypeInv, CallInv, NtOps

(* A step that sets no event, moves no setter but from notify to bump or   *)
(* from broadcast, and polls nothing new.                                  *)
LEMMA QuietStep ==
    ASSUME TypeInv, GenerationInv, signaled' \in [Events -> BOOLEAN],
           \A e \in Events : signaled'[e] => signaled[e],
           UNCHANGED <<generation, seen, call>>,
           \A t \in Threads : \A i \in DOMAIN call[t].on :
              Polled(t, i)' /\ signaled'[call[t].on[i]] => Polled(t, i),
           \A t \in Threads : pc[t] \in {"notify", "bump"} =>
              at'[t] = at[t] /\ pc'[t] = pc[t],
           \A t \in Threads : pc[t] = "broadcast" =>
              at'[t] = at[t] /\ pc'[t] = pc[t],
           Dormant' \subseteq Dormant,
           \A t \in Threads : pc'[t] \in {"scan", "match", "dormant"} =>
              pc[t] \in {"scan", "match", "dormant"}
    PROVE  GenerationInv'
<1>1. SeenInv'
  BY DEF GenerationInv, SeenInv
<1>2. \A e \in Events : Setting(e) => Setting(e)'
  BY DEF Setting, Current
<1>3. ScanInv'
  <2> SUFFICES ASSUME NEW t \in Threads, NEW i \in DOMAIN call[t].on,
                      Polled(t, i)', signaled'[call[t].on[i]], seen[t] = generation
               PROVE  Setting(call[t].on[i])'
    BY DEF ScanInv
  <2>1. Polled(t, i) /\ pc[t] \in {"scan", "match", "dormant"}
    BY DEF Polled
  <2>2. call[t].on[i] \in Events
    BY <2>1, HeaderFacts
  <2> QED
    BY <1>2, <2>1, <2>2 DEF GenerationInv, ScanInv
<1>4. WaitAnyMissesNothing'
  <2> SUFFICES ASSUME NEW t \in Dormant', NEW i \in DOMAIN call[t].on,
                      signaled'[call[t].on[i]]
               PROVE  \E s \in Threads : /\ pc'[s] \in {"notify", "bump", "broadcast"}
                                         /\ Current(s)' = call[t].on[i]
    BY DEF WaitAnyMissesNothing
  <2>1. t \in Dormant /\ call[t].on[i] \in Events
    BY HeaderFacts DEF Dormant
  <2>2. PICK s \in Threads : /\ pc[s] \in {"notify", "bump", "broadcast"}
                             /\ Current(s) = call[t].on[i]
    BY <2>1 DEF GenerationInv, WaitAnyMissesNothing
  <2> QED
    BY <2>2 DEF Current
<1> QED
  BY <1>1, <1>3, <1>4 DEF GenerationInv

LEMMA NextGeneration == TypeInv /\ GenerationInv /\ [Next]_vars => GenerationInv'
<1> SUFFICES ASSUME TypeInv, GenerationInv, [Next]_vars PROVE GenerationInv'
  OBVIOUS
<1> DEFINE Scanning == {"scan", "match", "dormant"}
<1>a. \A t \in Threads : \A i \in DOMAIN call[t].on :
        pc[t] \in Scanning => call[t].on[i] \in Events \ Handles
  BY HeaderFacts
<1>b. /\ generation \in Nat
      /\ \A t \in Threads : seen[t] \in Nat /\ seen[t] <= generation
  BY DEF TypeInv, TypeOK, GenerationInv, SeenInv
<1>1. ASSUME NEW t \in Threads, Call(t) PROVE GenerationInv'
  <2>1. PICK c \in CallsOf[t] : pc' = [pc EXCEPT ![t] = CallStart(c)]
                                /\ call' = [call EXCEPT ![t] = c]
    BY <1>1 DEF Call, Goto
  <2>2. /\ pc[t] = "guest"
        /\ CallStart(c) \notin Scanning
        /\ \A u \in Threads \ {t} : /\ pc'[u] = pc[u] /\ call'[u] = call[u]
                                    /\ at'[u] = at[u] /\ seen'[u] = seen[u]
        /\ pc'[t] = CallStart(c) /\ seen'[t] = 0
        /\ UNCHANGED <<signaled, generation>>
    BY <1>1, <2>1 DEF Call, CallStart, WaitStart, TypeInv, TypeOK
  <2>3. \A e \in Events : Setting(e) => Setting(e)'
    BY <2>2 DEF Setting, Current
  <2>4. SeenInv'
    BY <1>b, <2>2 DEF SeenInv
  <2>5. ScanInv'
    BY <1>a, <2>2, <2>3 DEF GenerationInv, ScanInv, Polled
  <2>6. WaitAnyMissesNothing'
    BY <1>a, <2>2 DEF GenerationInv, WaitAnyMissesNothing, Dormant, Current
  <2> QED
    BY <2>4, <2>5, <2>6 DEF GenerationInv
<1>2. ASSUME NEW t \in Threads, Store(t) PROVE GenerationInv'
  <2>1. /\ pc[t] = "store" /\ pc' = [pc EXCEPT ![t] = "notify"]
        /\ signaled' = [signaled EXCEPT ![Current(t)] = TRUE]
        /\ UNCHANGED <<generation, call, at, seen>>
    BY <1>2 DEF Store, Goto
  <2>2. /\ \A e \in Events : Setting(e) => Setting(e)'
        /\ \A e \in Events : signaled'[e] => signaled[e] \/ Setting(e)'
    BY <2>1 DEF Setting, Current, TypeInv, TypeOK
  <2>3. SeenInv'
    BY <1>b, <2>1 DEF SeenInv
  <2>4. ScanInv'
    BY <1>a, <2>1, <2>2 DEF GenerationInv, ScanInv, Polled, TypeInv, TypeOK
  <2>5. WaitAnyMissesNothing'
    <3> SUFFICES ASSUME NEW u \in Dormant', NEW i \in DOMAIN call[u].on,
                        signaled'[call[u].on[i]]
                 PROVE  \E s \in Threads : /\ pc'[s] \in {"notify", "bump", "broadcast"}
                                           /\ Current(s)' = call[u].on[i]
      BY <2>1 DEF WaitAnyMissesNothing
    <3>1. u \in Dormant /\ call[u].on[i] \in Events
      BY <1>a, <2>1 DEF Dormant, TypeInv, TypeOK
    <3>2. CASE signaled[call[u].on[i]]
      <4>1. PICK s \in Threads : /\ pc[s] \in {"notify", "bump", "broadcast"}
                                 /\ Current(s) = call[u].on[i]
        BY <3>1, <3>2 DEF GenerationInv, WaitAnyMissesNothing
      <4> QED
        BY <2>1, <4>1 DEF Current, TypeInv, TypeOK
    <3>3. CASE Setting(call[u].on[i])'
      BY <2>1, <3>3 DEF Setting
    <3> QED
      BY <2>1, <2>2, <3>1, <3>2, <3>3
  <2> QED
    BY <2>3, <2>4, <2>5 DEF GenerationInv
<1>3. ASSUME NEW t \in Threads, Notify(t) PROVE GenerationInv'
  <2>1. /\ pc[t] = "notify" /\ pc'[t] = AfterSet(t)
        /\ \A u \in Threads \ {t} :
             \/ pc'[u] = pc[u]
             \/ pc[u] = "asleep" /\ pc'[u] = "compare"
        /\ UNCHANGED <<signaled, generation, call, at, seen>>
    BY <1>3 DEF Notify, NotifyAll, NotifyOne, Wake, Goto, SleepersOn, TypeInv, TypeOK
  <2>2. Current(t) \notin Handles => AfterSet(t) = "bump"
    BY <2>1, CurrentType DEF AfterSet, TypeInv, CallInv, SetOps, NtOps
  <2>3. \A e \in Events \ Handles : Setting(e) => Setting(e)'
    BY <2>1, <2>2 DEF Setting, Current
  <2>4. SeenInv'
    BY <1>b, <2>1 DEF SeenInv
  <2>5. \A u \in Threads : pc'[u] \in Scanning => pc'[u] = pc[u]
    BY <2>1 DEF AfterSet
  <2>6. ScanInv'
    BY <1>a, <2>1, <2>3, <2>5 DEF GenerationInv, ScanInv, Polled
  <2>7. WaitAnyMissesNothing'
    BY <1>a, <2>1, <2>2, <2>5
       DEF GenerationInv, WaitAnyMissesNothing, Dormant, Current
  <2> QED
    BY <2>4, <2>6, <2>7 DEF GenerationInv
<1>4. ASSUME NEW t \in Threads, Bump(t) PROVE GenerationInv'
  <2>1. /\ generation' = generation + 1
        /\ pc[t] = "bump" /\ pc'[t] = "broadcast"
        /\ \A u \in Threads \ {t} : pc'[u] = pc[u]
        /\ UNCHANGED <<signaled, call, at, seen>>
    BY <1>4 DEF Bump, Goto, TypeInv, TypeOK
  <2>2. \A u \in Threads : seen'[u] <= generation' /\ seen'[u] # generation'
    BY <1>b, <2>1
  <2>3. WaitAnyMissesNothing'
    BY <2>1 DEF GenerationInv, WaitAnyMissesNothing, Dormant, Current
  <2> QED
    BY <2>2, <2>3 DEF GenerationInv, SeenInv, ScanInv
<1>5. ASSUME NEW t \in Threads, Broadcast(t) PROVE GenerationInv'
  <2>1. /\ pc[t] = "broadcast" /\ pc'[t] = "guest"
        /\ \A u \in Threads \ {t} :
              pc'[u] = IF pc[u] = "dormant" THEN "match" ELSE pc[u]
        /\ UNCHANGED <<signaled, generation, call, at, seen>>
    BY <1>5 DEF Broadcast, Dormant, Wake, TypeInv, TypeOK
  <2>2. \A e \in Events : Setting(e) => Setting(e)'
    BY <2>1 DEF Setting, Current
  <2>3. SeenInv'
    BY <1>b, <2>1 DEF SeenInv
  <2>4. ScanInv'
    BY <1>a, <2>1, <2>2 DEF GenerationInv, ScanInv, Polled
  <2>5. Dormant' = {}
    BY <2>1 DEF Dormant
  <2> QED
    BY <2>3, <2>4, <2>5 DEF GenerationInv, WaitAnyMissesNothing
<1>6. ASSUME NEW t \in Threads, Reset(t) PROVE GenerationInv'
  BY <1>6, QuietStep, CurrentType
     DEF Reset, Goto, TypeInv, TypeOK, Polled, Dormant
<1>7. ASSUME NEW t \in Threads, Poll(t) \/ Take(t) \/ SeeManual(t) \/ Expire(t)
      PROVE GenerationInv'
  <2>1. /\ pc[t] \in {"poll", "look", "compare"} /\ pc'[t] \notin Scanning
        /\ \A u \in Threads \ {t} : pc'[u] = pc[u] /\ at'[u] = at[u]
        /\ UNCHANGED <<generation, call, seen>>
    BY <1>7 DEF Poll, Take, SeeManual, Expire, Return, Goto, WaitStart, TypeInv, TypeOK
  <2>2. /\ signaled' \in [Events -> BOOLEAN]
        /\ \A e \in Events : signaled'[e] => signaled[e]
    BY <1>7, <2>1, CurrentType, PassType
       DEF Poll, Take, SeeManual, Expire, Pass, NoPass, TypeInv, TypeOK
  <2> QED
    BY <2>1, <2>2, QuietStep DEF Polled, Dormant
<1>8. ASSUME NEW t \in Threads, Miss(t) \/ Park(t) \/ ReturnToLoop(t) \/ SpuriousWake(t)
      PROVE GenerationInv'
  <2>1. /\ \/ pc[t] \in {"look", "compare", "asleep"} /\ pc'[t] \notin Scanning
           \/ pc[t] = "dormant" /\ pc'[t] = "match"
        /\ \A u \in Threads \ {t} : pc'[u] = pc[u]
        /\ UNCHANGED <<signaled, generation, call, at, seen>>
    BY <1>8 DEF Miss, Park, ReturnToLoop, SpuriousWake, NoPass, Goto, TypeInv, TypeOK
  <2> QED
    BY <2>1, QuietStep DEF Polled, Dormant, TypeInv, TypeOK
<1>9. ASSUME NEW t \in Threads, Load(t) PROVE GenerationInv'
  <2>1. /\ pc[t] = "load" /\ pc'[t] = "scan" /\ at'[t] = 1 /\ seen'[t] = generation
        /\ \A u \in Threads \ {t} : pc'[u] = pc[u] /\ at'[u] = at[u] /\ seen'[u] = seen[u]
        /\ UNCHANGED <<signaled, generation, call>>
    BY <1>9 DEF Load, Goto, TypeInv, TypeOK
  <2>2. \A e \in Events : Setting(e) => Setting(e)'
    BY <2>1 DEF Setting, Current
  <2>3. SeenInv'
    BY <1>b, <2>1 DEF SeenInv
  <2>4. \A i \in DOMAIN call[t].on : ~Polled(t, i)'
    BY <2>1, CallFacts DEF Polled, TypeInv, CallInv
  <2>5. ScanInv'
    BY <1>a, <2>1, <2>2, <2>4 DEF GenerationInv, ScanInv, Polled
  <2>6. WaitAnyMissesNothing'
    BY <2>1 DEF GenerationInv, WaitAnyMissesNothing, Dormant, Current
  <2> QED
    BY <2>3, <2>5, <2>6 DEF GenerationInv
<1>10. ASSUME NEW t \in Threads, ScanHit(t) PROVE GenerationInv'
  <2>1. /\ pc[t] = "scan" /\ pc'[t] = "guest"
        /\ \A u \in Threads \ {t} : pc'[u] = pc[u]
        /\ UNCHANGED <<generation, call, seen, at>>
    BY <1>10 DEF ScanHit, Goto, TypeInv, TypeOK
  <2>2. /\ signaled' \in [Events -> BOOLEAN]
        /\ \A e \in Events : signaled'[e] => signaled[e]
    BY <1>10, <2>1, CurrentType, PassType DEF ScanHit, Pass, TypeInv, TypeOK
  <2> QED
    BY <2>1, <2>2, QuietStep DEF Polled, Dormant
<1>11. ASSUME NEW t \in Threads, ScanMiss(t) PROVE GenerationInv'
  <2>1. /\ pc[t] = "scan" /\ ~signaled[Current(t)]
        /\ \/ pc'[t] = "scan" /\ at'[t] = at[t] + 1
           \/ pc'[t] = "match" /\ at'[t] = at[t] /\ at[t] >= Len(call[t].on)
        /\ \A u \in Threads \ {t} : pc'[u] = pc[u] /\ at'[u] = at[u]
        /\ UNCHANGED <<signaled, generation, call, seen>>
    BY <1>11, CallFacts DEF ScanMiss, NoPass, Goto, TypeInv, TypeOK, CallInv
  <2>2. \A e \in Events : Setting(e) => Setting(e)'
    BY <2>1 DEF Setting, Current
  <2>3. SeenInv'
    BY <1>b, <2>1 DEF SeenInv
  <2>4. \A i \in DOMAIN call[t].on : Polled(t, i)' => Polled(t, i) \/ i = at[t]
    BY <2>1, CallFacts DEF Polled, TypeInv, TypeOK, CallInv
  <2>5. ScanInv'
    BY <1>a, <2>1, <2>2, <2>4 DEF GenerationInv, ScanInv, Polled, Current
  <2>6. WaitAnyMissesNothing'
    BY <2>1 DEF GenerationInv, WaitAnyMissesNothing, Dormant, Current
  <2> QED
    BY <2>3, <2>5, <2>6 DEF GenerationInv
<1>12. ASSUME NEW t \in Threads, Match(t) PROVE GenerationInv'
  <2>1. /\ pc[t] = "match"
        /\ pc'[t] = IF generation = seen[t] THEN "dormant" ELSE "load"
        /\ \A u \in Threads \ {t} : pc'[u] = pc[u]
        /\ UNCHANGED <<signaled, generation, call, at, seen>>
    BY <1>12 DEF Match, Goto, TypeInv, TypeOK
  <2>2. \A e \in Events : Setting(e) => Setting(e)'
    BY <2>1 DEF Setting, Current
  <2>3. ScanInv'
    BY <1>a, <2>1, <2>2 DEF GenerationInv, ScanInv, Polled
  <2>4. WaitAnyMissesNothing'
    <3> SUFFICES ASSUME NEW u \in Dormant', NEW i \in DOMAIN call[u].on,
                        signaled[call[u].on[i]]
                 PROVE  \E s \in Threads : /\ pc'[s] \in {"notify", "bump", "broadcast"}
                                           /\ Current(s)' = call[u].on[i]
      BY <2>1 DEF WaitAnyMissesNothing
    <3>1. CASE u = t
      <4>1. seen[t] = generation
        BY <2>1, <3>1 DEF Dormant
      <4>2. Setting(call[t].on[i])
        BY <2>1, <3>1, <4>1 DEF GenerationInv, ScanInv, Polled
      <4> QED
        BY <2>1, <3>1, <4>2 DEF Setting, Current
    <3>2. CASE u # t
      <4>1. PICK s \in Threads : /\ pc[s] \in {"notify", "bump", "broadcast"}
                                 /\ Current(s) = call[u].on[i]
        BY <2>1, <3>2 DEF GenerationInv, WaitAnyMissesNothing, Dormant
      <4> QED
        BY <2>1, <4>1 DEF Current
    <3> QED
      BY <3>1, <3>2
  <2> QED
    BY <1>b, <2>1, <2>3, <2>4 DEF GenerationInv, SeenInv
<1>13. CASE UNCHANGED vars
  BY <1>13, QuietStep DEF vars, Polled, Dormant, TypeInv, TypeOK
<1> QED
  BY <1>1, <1>2, <1>3, <1>4, <1>5, <1>6, <1>7, <1>8, <1>9, <1>10, <1>11, <1>12,
     <1>13 DEF Next, Step

-----------------------------------------------------------------------------
LEMMA PassOnce ==
    ASSUME TypeInv, OneWaitPerSet, NEW e \in Events, Pass(e) \/ NoPass(e)
    PROVE  OneWaitPerSet'
<1>1. CASE Pass(e)
  <2>1. \A d \in Events \ {e} : signaled'[d] = signaled[d] /\ surplus'[d] = surplus[d]
    BY <1>1 DEF Pass, TypeInv, TypeOK
  <2>2. CASE e \in Manual
    BY <2>1, <2>2 DEF OneWaitPerSet
  <2>3. CASE e \notin Manual
    <3>1. signaled[e] /\ surplus[e] \in Int /\ ~signaled'[e] /\ surplus'[e] = surplus[e] - 1
      BY <1>1, <2>3 DEF Pass, TypeInv, TypeOK
    <3> QED
      BY <2>1, <2>3, <3>1 DEF OneWaitPerSet
  <2> QED
    BY <2>2, <2>3
<1>2. CASE NoPass(e)
  BY <1>2 DEF NoPass, OneWaitPerSet
<1> QED
  BY <1>1, <1>2

LEMMA NextOneWait == TypeInv /\ OneWaitPerSet /\ [Next]_vars => OneWaitPerSet'
<1> SUFFICES ASSUME TypeInv, OneWaitPerSet, [Next]_vars PROVE OneWaitPerSet'
  OBVIOUS
<1>1. ASSUME NEW t \in Threads, Store(t) PROVE OneWaitPerSet'
  <2>1. /\ Current(t) \in Events
        /\ \A e \in Events : surplus[e] \in Int
    BY <1>1, CurrentType DEF Store, TypeInv, TypeOK
  <2>2. \A e \in Events : /\ surplus'[e] = IF e = Current(t) THEN surplus[e] + 1
                                                            ELSE surplus[e]
                          /\ signaled'[e] => e = Current(t) \/ signaled[e]
    BY <1>1, <2>1 DEF Store, TypeInv, TypeOK
  <2>3. \A e \in Events \ Manual : surplus[e] >= 0 /\ (signaled[e] => surplus[e] >= 1)
    BY <2>1 DEF OneWaitPerSet
  <2> QED
    BY <2>1, <2>2, <2>3 DEF OneWaitPerSet
<1>2. ASSUME NEW t \in Threads, Reset(t) PROVE OneWaitPerSet'
  BY <1>2, CurrentType DEF Reset, history, OneWaitPerSet, TypeInv, TypeOK
<1>3. ASSUME NEW t \in Threads,
             Poll(t) \/ Take(t) \/ Miss(t) \/ SeeManual(t) \/ ScanHit(t) \/ ScanMiss(t)
      PROVE OneWaitPerSet'
  BY <1>3, CurrentType, PassOnce DEF Poll, Take, Miss, SeeManual, ScanHit, ScanMiss
<1>4. ASSUME NEW t \in Threads,
             \/ Call(t) \/ Notify(t) \/ Bump(t) \/ Broadcast(t) \/ Expire(t) \/ Park(t)
             \/ ReturnToLoop(t) \/ Load(t) \/ Match(t) \/ SpuriousWake(t)
      PROVE OneWaitPerSet'
  <2>1. UNCHANGED <<signaled, surplus>>
    BY <1>4 DEF Call, Notify, Bump, Broadcast, Expire, Park, ReturnToLoop, Load, Match,
                SpuriousWake, history
  <2> QED
    BY <2>1 DEF OneWaitPerSet
<1>5. CASE UNCHANGED vars
  BY <1>5 DEF vars, history, OneWaitPerSet
<1> QED
  BY <1>1, <1>2, <1>3, <1>4, <1>5 DEF Next, Step

-----------------------------------------------------------------------------
(* Only a thread that an auto-reset event's notify_one woke is picked, and *)
(* it stays so until it returns from the wait or parks again.              *)
PickedInv ==
    \A t \in Threads : picked[t] =>
        pc[t] \in {"compare", "look"} /\ Current(t) \notin Manual

WakeupInv == PickedInv /\ NoLostWakeup

(* An event that is not set, gains no sleeper and keeps its attendants,    *)
(* unless it is cleared or gives up the wake-up, stays attended.           *)
LEMMA StaysAttended ==
    ASSUME NEW e \in Events, dropped[e] \/ Attended(e),
           signaled'[e] => signaled[e],
           dropped[e] => dropped'[e],
           SleepersOn(e)' \subseteq SleepersOn(e),
           \A t \in Threads : Attends(t, e) /\ signaled'[e] => Attends(t, e)' \/ dropped'[e]
    PROVE  dropped'[e] \/ Attended(e)'
  BY DEF Attended

(* A step in which t alone moves, neither from an attendant's place nor to *)
(* sleep, or moves as an attendant between compare and look.               *)
LEMMA OwnStep ==
    ASSUME TypeInv, WakeupInv, NEW t \in Threads,
           \A u \in Threads \ {t} :
              /\ pc'[u] = pc[u] \/ (pc[u] = "dormant" /\ pc'[u] = "match")
              /\ call'[u] = call[u] /\ at'[u] = at[u] /\ picked'[u] = picked[u],
           pc'[t] # "asleep",
           \A e \in Events : /\ signaled'[e] => signaled[e]
                             /\ dropped[e] => dropped'[e],
           \A e \in Events : Attends(t, e) /\ signaled'[e] => Attends(t, e)' \/ dropped'[e],
           picked'[t] => pc'[t] \in {"compare", "look"} /\ Current(t)' \notin Manual
    PROVE  WakeupInv'
<1>1. PickedInv'
  BY DEF WakeupInv, PickedInv, Current
<1>2. ASSUME NEW e \in Events PROVE dropped'[e] \/ Attended(e)'
  <2>1. SleepersOn(e)' \subseteq SleepersOn(e)
    BY DEF SleepersOn, Current
  <2>2. \A u \in Threads : Attends(u, e) /\ signaled'[e] => Attends(u, e)' \/ dropped'[e]
    BY DEF Attends, Current
  <2> QED
    BY <2>1, <2>2, StaysAttended DEF WakeupInv, NoLostWakeup
<1> QED
  BY <1>1, <1>2 DEF WakeupInv, NoLostWakeup

LEMMA NextWakeup == TypeInv /\ WakeupInv /\ [Next]_vars => WakeupInv'
<1> SUFFICES ASSUME TypeInv, WakeupInv, [Next]_vars PROVE WakeupInv'
  OBVIOUS
<1>a. \A t \in Threads : picked[t] => pc[t] \in {"compare", "look"} /\ Current(t) \notin Manual
  BY DEF WakeupInv, PickedInv
<1>1. ASSUME NEW t \in Threads, Call(t) PROVE WakeupInv'
  <2>1. /\ pc[t] = "guest" /\ pc'[t] # "asleep" /\ ~picked'[t]
        /\ \A u \in Threads \ {t} :
              pc'[u] = pc[u] /\ call'[u] = call[u] /\ at'[u] = at[u] /\ picked'[u] = picked[u]
        /\ UNCHANGED <<signaled, dropped>>
    BY <1>1, <1>a DEF Call, CallStart, WaitStart, Goto, TypeInv, TypeOK
  <2> QED
    BY <2>1, OwnStep DEF Attends
<1>2. ASSUME NEW t \in Threads, Store(t) PROVE WakeupInv'
  <2>1. /\ pc[t] = "store" /\ pc'[t] = "notify"
        /\ \A u \in Threads \ {t} : pc'[u] = pc[u]
        /\ UNCHANGED <<call, at, picked>>
        /\ \A e \in Events \ {Current(t)} :
              signaled'[e] = signaled[e] /\ dropped'[e] = dropped[e]
    BY <1>2 DEF Store, Goto, TypeInv, TypeOK
  <2>2. PickedInv'
    BY <1>a, <2>1 DEF PickedInv, Current
  <2>3. Attended(Current(t))'
    BY <2>1 DEF Attended, Attends, Current
  <2>4. ASSUME NEW e \in Events \ {Current(t)} PROVE dropped'[e] \/ Attended(e)'
    <3>1. SleepersOn(e)' \subseteq SleepersOn(e)
      BY <2>1 DEF SleepersOn, Current
    <3>2. \A u \in Threads : Attends(u, e) => Attends(u, e)'
      BY <2>1 DEF Attends, Current
    <3> QED
      BY <2>1, <3>1, <3>2, StaysAttended DEF WakeupInv, NoLostWakeup
  <2>5. \A e \in Events : dropped'[e] \/ Attended(e)'
    BY <2>1, <2>3, <2>4 DEF Current
  <2> QED
    BY <2>2, <2>5 DEF WakeupInv, NoLostWakeup
<1>3. ASSUME NEW t \in Threads, Notify(t) PROVE WakeupInv'
  <2>1. /\ pc[t] = "notify" /\ pc'[t] \in {"guest", "bump"}
        /\ \A u \in Threads \ {t} :
             pc'[u] = pc[u] \/ (u \in SleepersOn(Current(t)) /\ pc'[u] = "compare")
        /\ UNCHANGED <<signaled, call, at, dropped>>
    BY <1>3 DEF Notify, NotifyAll, NotifyOne, AfterSet, Wake, Goto, SleepersOn,
                TypeInv, TypeOK
  <2>2. \A u \in Threads :
          \/ picked'[u] = picked[u]
          \/ /\ u \in SleepersOn(Current(t)) /\ Current(t) \notin Manual
             /\ pc'[u] = "compare" /\ picked'[u]
    BY <1>3 DEF Notify, NotifyAll, NotifyOne, Wake, SleepersOn, TypeInv, TypeOK
  <2>3. PickedInv'
    BY <1>a, <2>1, <2>2 DEF PickedInv, Current, SleepersOn
  <2>4. ASSUME NEW e \in Events \ {Current(t)} PROVE dropped'[e] \/ Attended(e)'
    <3>1. SleepersOn(e)' \subseteq SleepersOn(e)
      BY <2>1 DEF SleepersOn, Current
    <3>2. \A u \in Threads : Attends(u, e) => Attends(u, e)'
      BY <2>1, <2>2 DEF Attends, Current, SleepersOn
    <3> QED
      BY <2>1, <3>1, <3>2, StaysAttended DEF WakeupInv, NoLostWakeup
  <2>5. Attended(Current(t))'
    <3>1. Current(t)' = Current(t)
      BY <2>1 DEF Current
    <3>2. CASE NotifyAll(t) \/ SleepersOn(Current(t)) = {}
      <4>1. \A u \in SleepersOn(Current(t)) : pc'[u] # "asleep"
        BY <2>1, <3>2 DEF NotifyAll, Wake, AfterSet, SleepersOn
      <4>2. SleepersOn(Current(t))' = {}
        BY <2>1, <4>1 DEF SleepersOn, Current
      <4> QED
        BY <4>2 DEF Attended
    <3>3. ASSUME NEW u \in SleepersOn(Current(t)),
                 Wake(t, {u}, "compare", AfterSet(t)),
                 picked' = [picked EXCEPT ![u] = TRUE]
          PROVE  Attended(Current(t))'
      <4>1. u \in Threads /\ u # t /\ pc'[u] = "compare" /\ picked'[u]
        BY <2>1, <3>3 DEF SleepersOn, Wake, TypeInv, TypeOK
      <4>2. Attends(u, Current(t))'
        BY <2>1, <4>1 DEF Attends, Current, SleepersOn
      <4> QED
        BY <4>1, <4>2 DEF Attended
    <3> QED
      BY <1>3, <3>2, <3>3 DEF Notify, NotifyOne
  <2>6. \A e \in Events : dropped'[e] \/ Attended(e)'
    BY <2>1, <2>4, <2>5 DEF Current
  <2> QED
    BY <2>3, <2>6 DEF WakeupInv, NoLostWakeup
<1>4. ASSUME NEW t \in Threads, Bump(t) \/ Broadcast(t) PROVE WakeupInv'
  <2>1. /\ pc[t] \in {"bump", "broadcast"} /\ pc'[t] \in {"broadcast", "guest"}
        /\ \A u \in Threads \ {t} : pc'[u] = pc[u] \/ (pc[u] = "dormant" /\ pc'[u] = "match")
        /\ UNCHANGED <<signaled, call, at, picked, dropped>>
    BY <1>4 DEF Bump, Broadcast, Dormant, Wake, Goto, history, TypeInv, TypeOK
  <2> QED
    BY <1>a, <2>1, OwnStep DEF Attends
<1>5. ASSUME NEW t \in Threads, Reset(t) PROVE WakeupInv'
  <2>1. /\ pc[t] = "reset" /\ pc'[t] = "guest"
        /\ \A u \in Threads \ {t} : pc'[u] = pc[u]
        /\ \A e \in Events : signaled'[e] => signaled[e]
        /\ UNCHANGED <<call, at, picked, dropped>>
    BY <1>5 DEF Reset, Goto, history, TypeInv, TypeOK
  <2> QED
    BY <1>a, <2>1, OwnStep DEF Attends
<1>6. ASSUME NEW t \in Threads, Poll(t) \/ Take(t) \/ SeeManual(t) \/ Expire(t)
      PROVE WakeupInv'
  <2>1. /\ pc[t] \in {"poll", "look", "compare"} /\ pc'[t] # "asleep" /\ ~picked'[t]
        /\ \A u \in Threads \ {t} :
              pc'[u] = pc[u] /\ call'[u] = call[u] /\ at'[u] = at[u] /\ picked'[u] = picked[u]
    BY <1>6 DEF Poll, Take, SeeManual, Expire, Return, Goto, WaitStart, TypeInv, TypeOK
  <2>2. Current(t) \in Events
    BY <2>1, CurrentType
  <2>3. \A e \in Events : /\ signaled'[e] => signaled[e]
                          /\ dropped[e] => dropped'[e]
    BY <1>6, <2>2
       DEF Poll, Take, SeeManual, Expire, Pass, NoPass, TypeInv, TypeOK
  <2>4. picked[t] /\ signaled'[Current(t)] => dropped'[Current(t)]
    <3>1. CASE Take(t) \/ Poll(t) \/ SeeManual(t)
      BY <1>a, <2>2, <3>1 DEF Take, Poll, SeeManual, Pass, TypeInv, TypeOK
    <3>2. CASE Expire(t)
      BY <2>2, <3>2 DEF Expire, TypeInv, TypeOK
    <3> QED
      BY <1>6, <3>1, <3>2
  <2>5. \A e \in Events : Attends(t, e) /\ signaled'[e] => dropped'[e]
    BY <2>1, <2>4 DEF Attends
  <2> QED
    BY <2>1, <2>3, <2>5, OwnStep
<1>7. ASSUME NEW t \in Threads, Miss(t) \/ ReturnToLoop(t) PROVE WakeupInv'
  <2>1. /\ pc[t] \in {"look", "compare"} /\ pc'[t] \in {"look", "compare"}
        /\ \A u \in Threads \ {t} : pc'[u] = pc[u]
        /\ UNCHANGED <<signaled, call, at, picked, dropped>>
    BY <1>7 DEF Miss, NoPass, ReturnToLoop, Goto, history, TypeInv, TypeOK
  <2>2. \A e \in Events : Attends(t, e) => Attends(t, e)'
    BY <2>1 DEF Attends, Current
  <2>3. picked'[t] => Current(t)' \notin Manual
    BY <1>a, <2>1 DEF Current
  <2> QED
    BY <2>1, <2>2, <2>3, OwnStep
<1>8. ASSUME NEW t \in Threads, Park(t) PROVE WakeupInv'
  <2>1. /\ pc[t] = "compare" /\ ~signaled[Current(t)] /\ pc'[t] = "asleep" /\ ~picked'[t]
        /\ \A u \in Threads \ {t} : pc'[u] = pc[u] /\ picked'[u] = picked[u]
        /\ UNCHANGED <<signaled, call, at, dropped>>
    BY <1>8 DEF Park, Goto, TypeInv, TypeOK
  <2>2. PickedInv'
    BY <1>a, <2>1 DEF PickedInv, Current
  <2>3. Attended(Current(t))'
    BY <2>1 DEF Attended, Current
  <2>4. ASSUME NEW e \in Events \ {Current(t)} PROVE dropped'[e] \/ Attended(e)'
    <3>1. SleepersOn(e)' \subseteq SleepersOn(e)
      BY <2>1 DEF SleepersOn, Current
    <3>2. \A u \in Threads : Attends(u, e) => Attends(u, e)'
      BY <2>1 DEF Attends, Current
    <3> QED
      BY <2>1, <3>1, <3>2, StaysAttended DEF WakeupInv, NoLostWakeup
  <2>5. \A e \in Events : dropped'[e] \/ Attended(e)'
    BY <2>1, <2>3, <2>4 DEF Current
  <2> QED
    BY <2>2, <2>5 DEF WakeupInv, NoLostWakeup
<1>9. ASSUME NEW t \in Threads,
             Load(t) \/ ScanHit(t) \/ ScanMiss(t) \/ Match(t) \/ SpuriousWake(t)
      PROVE WakeupInv'
  <2>1. /\ pc[t] \in {"load", "scan", "match", "asleep", "dormant"} /\ pc'[t] # "asleep"
        /\ \A u \in Threads \ {t} : pc'[u] = pc[u] /\ at'[u] = at[u]
        /\ UNCHANGED <<call, picked>>
    BY <1>9 DEF Load, ScanHit, ScanMiss, Match, SpuriousWake, Goto, history,
                TypeInv, TypeOK
  <2>2. \A e \in Events : /\ signaled'[e] => signaled[e]
                          /\ dropped[e] => dropped'[e]
    BY <1>9, CurrentType
       DEF Load, ScanHit, ScanMiss, Match, SpuriousWake, Pass, NoPass, history,
           TypeInv, TypeOK
  <2> QED
    BY <1>a, <2>1, <2>2, OwnStep DEF Attends
<1>10. CASE UNCHANGED vars
  <2>1. \A e \in Events : Attended(e)' = Attended(e)
    BY <1>10 DEF vars, history, Attended, Attends, SleepersOn, Current
  <2> QED
    BY <1>10, <2>1 DEF vars, history, WakeupInv, PickedInv, NoLostWakeup, Current
<1> QED
  BY <1>1, <1>2, <1>3, <1>4, <1>5, <1>6, <1>7, <1>8, <1>9, <1>10 DEF Next, Step

-----------------------------------------------------------------------------
IInv == TypeInv /\ GenerationInv /\ OneWaitPerSet /\ WakeupInv

LEMMA InitIInv == Init => IInv
<1> SUFFICES ASSUME Init PROVE IInv
  OBVIOUS
<1>1. TypeInv
  BY InitType
<1>2. GenerationInv
  BY DEF Init, GenerationInv, SeenInv, ScanInv, Polled, WaitAnyMissesNothing, Dormant
<1>3. OneWaitPerSet
  <2>1. ASSUME NEW e \in Events \ Manual
        PROVE  surplus[e] >= IF signaled[e] THEN 1 ELSE 0
    <3>1. surplus[e] = IF e \in Initial THEN 1 ELSE 0
      BY DEF Init
    <3>2. signaled[e] => e \in Initial
      BY Zenon DEF Init
    <3> QED
      BY <3>1, <3>2
  <2> QED
    BY <2>1 DEF OneWaitPerSet
<1>4. WakeupInv
  BY DEF Init, WakeupInv, PickedInv, NoLostWakeup, Attended, SleepersOn
<1> QED
  BY <1>1, <1>2, <1>3, <1>4 DEF IInv

LEMMA SpecIInv == Spec => []IInv
<1>1. IInv /\ [Next]_vars => IInv'
  BY NextType, NextGeneration, NextOneWait, NextWakeup DEF IInv
<1> QED
  BY <1>1, InitIInv, PTL DEF Spec

(* Every variable keeps its type; in particular no wait looks beyond the   *)
(* array of objects it was given (KeWaitForMultipleObjects).               *)
THEOREM TypeCorrect == Spec => []TypeOK
<1>1. IInv => TypeOK
  BY DEF IInv, TypeInv
<1> QED
  BY <1>1, SpecIInv, PTL

(* A signal of an auto-reset event lets at most one wait through, whatever *)
(* the numbers of pollers, sleepers and scanners that race for it          *)
(* (Event::Wait, Event::Set, KeWaitForMultipleObjects).                    *)
THEOREM OneWait == Spec => []OneWaitPerSet
<1>1. IInv => OneWaitPerSet
  BY DEF IInv
<1> QED
  BY <1>1, SpecIInv, PTL

(* No wait-any sleeps through the KeSetEvent of one of its events: the     *)
(* generation it compares was loaded before it polled the first of them.   *)
THEOREM WaitAnyIsWoken == Spec => []WaitAnyMissesNothing
<1>1. IInv => WaitAnyMissesNothing
  BY DEF IInv, GenerationInv
<1> QED
  BY <1>1, SpecIInv, PTL

(* Event::Set's one notification per signal is enough for Event::Wait's    *)
(* sleepers, unless it wakes a wait whose time-out has elapsed.            *)
THEOREM WakeupsSuffice == Spec => []NoLostWakeup
<1>1. IInv => NoLostWakeup
  BY DEF IInv, WakeupInv
<1> QED
  BY <1>1, SpecIInv, PTL

-----------------------------------------------------------------------------
(* What a thread inside a wait has passed so far.  Only wait-all goes on   *)
(* from one object to the next, and an untimed wait is never refused.      *)
Progress(t) ==
    /\ pc[t] = "poll" => call[t].timeout = "zero"
    /\ call[t].op \in {"KeWaitForSingleObject", "NtWaitForSingleObjectEx"} =>
         at[t] = 1 /\ passed[t] = {}
    /\ call[t].op = "WaitAny" => passed[t] = {}
    /\ call[t].op = "WaitAll" /\ call[t].timeout = "infinite" => passed[t] = 1 .. at[t] - 1

Result(t) ==
    /\ call[t].op = "NtWaitForSingleObjectEx" => (status[t] = SUCCESS) = (passed[t] = {1})
    /\ call[t].op = "WaitAny" => passed[t] = {status[t] + 1}
    /\ call[t].op = "WaitAll" /\ call[t].timeout = "infinite" => passed[t] = DOMAIN call[t].on

(* In the guest the results of the last call, in a call what it has done. *)
ResultInv == \A t \in Threads : IF pc[t] = "guest" THEN Result(t) ELSE Progress(t)

(* The step of one thread leaves the results of the others alone: a wake   *)
(* only moves them from one place of their wait to another.                *)
LEMMA OthersKeep ==
    ASSUME NEW u, pc'[u] = pc[u] \/ (pc[u] \in {"asleep", "dormant"} /\ pc'[u] \in {"compare", "match"}),
           call'[u] = call[u], at'[u] = at[u], status'[u] = status[u], passed'[u] = passed[u],
           IF pc[u] = "guest" THEN Result(u) ELSE Progress(u)
    PROVE  IF pc'[u] = "guest" THEN Result(u)' ELSE Progress(u)'
  BY DEF Result, Progress

(* Event::Wait passes the object, or is refused it with a time-out.        *)
LEMMA ReturnResult ==
    ASSUME TypeInv, ResultInv, NEW t \in Threads, NEW r \in {SUCCESS, TIMEOUT}, Return(t, r),
           pc[t] \in {"poll", "look", "compare"}, r = TIMEOUT => call[t].timeout # "infinite"
    PROVE  ResultInv'
<1>1. /\ call[t] \in CallsOf[t] /\ at[t] \in DOMAIN call[t].on
      /\ call[t].op \in WaitOps \ {"WaitAny"} /\ Progress(t)
  BY DEF TypeInv, CallInv, ResultInv
<1>2. /\ DOMAIN call[t].on = 1 .. Len(call[t].on) /\ Len(call[t].on) \in Nat
      /\ call[t].timeout \in Timeouts
  BY <1>1, CallFacts
<1>3. /\ passed'[t] = IF r = SUCCESS THEN passed[t] \cup {at[t]} ELSE passed[t]
      /\ call' = call
  BY DEF Return, TypeInv, TypeOK
<1>4. ASSUME NEW u \in Threads \ {t} PROVE IF pc'[u] = "guest" THEN Result(u)' ELSE Progress(u)'
  <2>1. /\ pc'[u] = pc[u] /\ call'[u] = call[u] /\ at'[u] = at[u] /\ status'[u] = status[u]
        /\ passed'[u] = passed[u]
    BY DEF Return, Goto, TypeInv, TypeOK
  <2> QED
    BY <2>1, OthersKeep DEF ResultInv
<1>5. CASE call[t].op = "WaitAll" /\ at[t] < Len(call[t].on)
  <2>1. /\ at'[t] = at[t] + 1
        /\ pc'[t] = WaitStart(call[t].on[at[t] + 1], call[t].timeout)
    BY <1>5 DEF Return, Goto, TypeInv, TypeOK
  <2>2. pc'[t] \in {"poll", "look", "compare"} /\ (pc'[t] = "poll" => call[t].timeout = "zero")
    BY <2>1 DEF WaitStart
  <2>3. call[t].timeout = "infinite" => passed'[t] = 1 .. at'[t] - 1
    <3>1. call[t].timeout = "infinite" => passed[t] = 1 .. at[t] - 1 /\ r = SUCCESS
      BY <1>1, <1>5 DEF Progress, SUCCESS, TIMEOUT
    <3>2. at[t] \in Nat /\ at[t] >= 1
      BY <1>1, <1>2
    <3>3. (1 .. at[t] - 1) \cup {at[t]} = 1 .. at[t]
      BY <3>2
    <3>4. call[t].timeout = "infinite" => passed'[t] = passed[t] \cup {at[t]}
      BY <1>3, <3>1, Zenon
    <3>5. at'[t] - 1 = at[t]
      BY <2>1, <3>2
    <3>6. 1 .. at'[t] - 1 = 1 .. at[t]
      BY <3>5, Zenon
    <3>7. call[t].timeout = "infinite" => passed'[t] = (1 .. at[t] - 1) \cup {at[t]}
      BY <3>1, <3>4, Zenon
    <3> QED
      BY <3>3, <3>6, <3>7, Zenon
  <2>4. Progress(t)'
    BY <1>3, <1>5, <2>2, <2>3 DEF Progress
  <2> QED
    BY <1>4, <2>2, <2>4 DEF ResultInv
<1>6. CASE ~(call[t].op = "WaitAll" /\ at[t] < Len(call[t].on))
  <2>1. /\ pc'[t] = "guest" /\ at' = at
        /\ status'[t] = IF call[t].op = "NtWaitForSingleObjectEx" THEN r ELSE SUCCESS
    BY <1>6 DEF Return, Goto, TypeInv, TypeOK
  <2>2. call[t].op = "NtWaitForSingleObjectEx" => (status'[t] = SUCCESS) = (passed'[t] = {1})
    BY <1>1, <1>3, <2>1 DEF Progress, SUCCESS, TIMEOUT
  <2>3. call[t].op = "WaitAll" /\ call[t].timeout = "infinite" => passed'[t] = DOMAIN call[t].on
    <3> SUFFICES ASSUME call[t].op = "WaitAll" /\ call[t].timeout = "infinite"
                 PROVE  passed'[t] = DOMAIN call[t].on
      OBVIOUS
    <3>1. passed[t] = 1 .. at[t] - 1 /\ r = SUCCESS
      BY <1>1 DEF Progress, SUCCESS, TIMEOUT
    <3>2. at[t] = Len(call[t].on) /\ at[t] \in Nat /\ at[t] >= 1
      BY <1>1, <1>2, <1>6
    <3>3. (1 .. at[t] - 1) \cup {at[t]} = 1 .. Len(call[t].on)
      BY <3>2
    <3> QED
      BY <1>2, <1>3, <3>1, <3>3
  <2>4. Result(t)'
    BY <1>1, <1>3, <2>2, <2>3 DEF Result
  <2> QED
    BY <1>4, <2>1, <2>4 DEF ResultInv
<1> QED
  BY <1>5, <1>6

(* Whatever a call was when it began is still what it does.                *)
LEMMA NextResult == TypeInv /\ ResultInv /\ [Next]_vars => ResultInv'
<1> SUFFICES ASSUME TypeInv, ResultInv, [Next]_vars PROVE ResultInv'
  OBVIOUS
<1> DEFINE Kept(u) == /\ call'[u] = call[u] /\ at'[u] = at[u] /\ status'[u] = status[u]
                      /\ passed'[u] = passed[u]
           Good(u) == IF pc[u] = "guest" THEN Result(u) ELSE Progress(u)
<1>0. ASSUME NEW t \in Threads, UNCHANGED <<call, status, passed>>,
             \A u \in Threads \ {t} : at'[u] = at[u]
                /\ (pc'[u] = pc[u] \/ (pc[u] \in {"asleep", "dormant"} /\ pc'[u] \in {"compare", "match"})),
             Good(t)'
      PROVE  ResultInv'
  BY <1>0, OthersKeep DEF ResultInv
<1>1. ASSUME NEW t \in Threads, Call(t) PROVE ResultInv'
  <2>1. PICK c \in CallsOf[t] : call' = [call EXCEPT ![t] = c] /\ pc' = [pc EXCEPT ![t] = CallStart(c)]
    BY <1>1 DEF Call, Goto
  <2>2. /\ call'[t] = c /\ at'[t] = 1 /\ passed'[t] = {} /\ pc'[t] = CallStart(c)
        /\ \A u \in Threads \ {t} : pc'[u] = pc[u] /\ Kept(u)
    BY <1>1, <2>1 DEF Call, TypeInv, TypeOK
  <2>3. pc'[t] # "guest" /\ (pc'[t] = "poll" => c.timeout = "zero")
    BY <2>2 DEF CallStart, WaitStart
  <2>4. Progress(t)'
    BY <2>2, <2>3 DEF Progress
  <2> QED
    BY <2>2, <2>3, <2>4, OthersKeep DEF ResultInv
<1>2. ASSUME NEW t \in Threads, Store(t) \/ Bump(t) \/ Reset(t) \/ Notify(t) \/ Broadcast(t)
      PROVE  ResultInv'
  <2>1. call[t].op \in SetOps \cup {"KeResetEvent"} /\ pc[t] \notin {"guest", "asleep", "dormant"}
    BY <1>2 DEF Store, Bump, Reset, Notify, Broadcast, TypeInv, CallInv, SetOps
  <2>2. UNCHANGED <<call, at, status, passed>>
    BY <1>2 DEF Store, Bump, Reset, Notify, Broadcast, history
  <2>3. Good(t)'
    BY <1>2, <2>1, <2>2 DEF Result, Progress, SetOps, Store, Bump, Reset, Notify, NotifyAll,
       NotifyOne, AfterSet, Wake, Goto, Broadcast, TypeInv, TypeOK
  <2>4. ASSUME NEW u \in Threads \ {t}
        PROVE  pc'[u] = pc[u] \/ (pc[u] \in {"asleep", "dormant"} /\ pc'[u] \in {"compare", "match"})
    <3>1. CASE Store(t) \/ Bump(t) \/ Reset(t)
      BY <3>1 DEF Store, Bump, Reset, Goto, TypeInv, TypeOK
    <3>2. CASE Notify(t)
      BY <3>2 DEF Notify, NotifyAll, NotifyOne, Goto, Wake, SleepersOn, TypeInv, TypeOK
    <3>3. CASE Broadcast(t)
      BY <3>3 DEF Broadcast, Wake, Dormant, TypeInv, TypeOK
    <3> QED
      BY <1>2, <3>1, <3>2, <3>3
  <2> QED
    BY <1>0, <2>2, <2>3, <2>4
<1>3. ASSUME NEW t \in Threads, Poll(t) PROVE ResultInv'
  <2>1. call[t].timeout = "zero"
    BY <1>3 DEF Poll, ResultInv, Progress
  <2> QED
    BY <1>3, <2>1, ReturnResult DEF Poll
<1>4. ASSUME NEW t \in Threads, Take(t) \/ SeeManual(t) PROVE ResultInv'
  <2>1. SUCCESS # TIMEOUT
    BY DEF SUCCESS, TIMEOUT
  <2> QED
    BY <1>4, <2>1, ReturnResult DEF Take, SeeManual
<1>5. ASSUME NEW t \in Threads, Expire(t) PROVE ResultInv'
  BY <1>5, ReturnResult DEF Expire
<1>6. ASSUME NEW t \in Threads, Miss(t) \/ Park(t) \/ ReturnToLoop(t) \/ Match(t) \/ SpuriousWake(t)
      PROVE  ResultInv'
  <2>1. /\ UNCHANGED <<call, at, status, passed>> /\ pc[t] # "guest"
        /\ pc' = [pc EXCEPT ![t] = pc'[t]] /\ pc'[t] \notin {"guest", "poll"}
    BY <1>6 DEF Miss, Park, ReturnToLoop, Match, SpuriousWake, Goto, history, TypeInv, TypeOK
  <2>2. Good(t)'
    BY <2>1 DEF ResultInv, Progress
  <2> QED
    BY <1>0, <2>1, <2>2 DEF TypeInv, TypeOK
<1>7. ASSUME NEW t \in Threads, Load(t) \/ ScanMiss(t) PROVE ResultInv'
  <2>1. /\ UNCHANGED <<call, status, passed>> /\ call[t].op = "WaitAny" /\ pc[t] # "guest"
        /\ pc'[t] \in {"scan", "match"}
        /\ \A u \in Threads \ {t} : pc'[u] = pc[u] /\ at'[u] = at[u]
    <3>1. CASE Load(t)
      BY <3>1 DEF Load, Goto, history, TypeInv, TypeOK, CallInv
    <3>2. CASE ScanMiss(t)
      BY <3>2 DEF ScanMiss, Goto, TypeInv, TypeOK, CallInv
    <3> QED
      BY <1>7, <3>1, <3>2
  <2>2. Good(t)'
    BY <2>1 DEF ResultInv, Progress
  <2> QED
    BY <1>0, <2>1, <2>2
<1>8. ASSUME NEW t \in Threads, ScanHit(t) PROVE ResultInv'
  <2>1. /\ call' = call /\ call[t].op = "WaitAny" /\ passed[t] = {}
        /\ pc'[t] = "guest" /\ status'[t] = at[t] - 1 /\ passed'[t] = passed[t] \cup {at[t]}
        /\ at[t] \in Nat
        /\ \A u \in Threads \ {t} : pc'[u] = pc[u] /\ Kept(u)
    BY <1>8 DEF ScanHit, Goto, TypeInv, TypeOK, CallInv, ResultInv, Progress
  <2>2. Result(t)'
    BY <2>1 DEF Result
  <2> QED
    BY <2>1, <2>2, OthersKeep DEF ResultInv
<1>9. CASE UNCHANGED vars
  BY <1>9 DEF vars, history, ResultInv, Result, Progress
<1> QED
  BY <1>1, <1>2, <1>3, <1>4, <1>5, <1>6, <1>7, <1>8, <1>9 DEF Next, Step

(* What a wait reports is what it consumed, whoever else set, reset or     *)
(* waited meanwhile: NtWaitForSingleObjectEx's status, the index of        *)
(* wait-any, and every object of an untimed wait-all.                      *)
THEOREM ResultsTell == Spec => []ResultsAreTrue
<1>1. Init => ResultInv
  <2>1. NoCall.op = "none"
    BY DEF NoCall
  <2>2. ASSUME Init, NEW t \in Threads PROVE pc[t] = "guest" /\ call[t] = NoCall
    BY <2>2 DEF Init
  <2> QED
    BY <2>1, <2>2 DEF ResultInv, Result
<1>2. IInv /\ ResultInv /\ [Next]_vars => ResultInv'
  BY NextResult DEF IInv
<1>3. ResultInv => ResultsAreTrue
  BY DEF ResultInv, Result, ResultsAreTrue
<1> QED
  BY <1>1, <1>2, <1>3, SpecIInv, PTL DEF Spec

=============================================================================
