---------------------------- MODULE GuestCodeProofs ----------------------------
(***************************************************************************)
(* Safety of GuestThreads, for every number of threads, and of the calls   *)
(* between host and guest code in HookArguments, for every depth.          *)
(*                                                                         *)
(* Threads: the argument rests on Lifecycle: a thread leaves joinable, its *)
(* handle leaves open, and a close reaches the memory of the handle, only  *)
(* when the thread has finished.  Orderly adds what holds while no two     *)
(* waits overlap.                                                          *)
(*                                                                         *)
(* Calls: HookInv.  Guest and host frames take turns, each begins where    *)
(* the one before it ends, the variables of a host function lie one below  *)
(* the other, each remembering where r1 was, and r1 is the low end of all. *)
(***************************************************************************)
EXTENDS GuestThreads, HookArguments, VectorOps, PowersProofs, SequenceTheorems, FiniteSetTheorems

Lifecycle ==
    /\ pc[Main] # "absent"
    /\ \A t \in Threads :
         /\ (handle[t] = "none") = (t = Main \/ pc[t] = "absent")
         /\ handle[t] # "none" /\ ~joinable[t] => pc[t] = "finished"
         /\ handle[t] = "destroyed" => pc[t] = "finished"
         /\ pc[t] \in Ending \cup {"notify"} => handle[target[t]] # "none"
         /\ pc[t] = "free" => pc[target[t]] = "finished"

Orderly ==
    contended \/ ( /\ ~crashed
                   /\ \A a, b \in Threads :
                        pc[a] \in Ending /\ pc[b] \in Ending /\ a # b
                            => target[a] # target[b]
                   /\ \A a \in Threads :
                        pc[a] \in Ending => target[a] # a /\ handle[target[a]] = "open"
                   /\ \A a \in Threads : pc[a] = "join" => joinable[target[a]] )

ThreadInv == TypeOK /\ Lifecycle

USE DEF Locations, Ending

LEMMA InitThreadInv == Init => ThreadInv /\ AwaitedMeansOver /\ SuspendedThreadsWait
                                /\ NoLostResume /\ Orderly
<1> SUFFICES ASSUME Init
             PROVE  ThreadInv /\ AwaitedMeansOver /\ SuspendedThreadsWait
                    /\ NoLostResume /\ Orderly
  OBVIOUS
<1>1. suspended \in [Threads -> BOOLEAN] /\ begun \in [Threads -> BOOLEAN]
      /\ joinable \in [Threads -> BOOLEAN] /\ closing \in [Threads -> BOOLEAN]
  BY Zenon DEF Init
<1>2. TypeOK
  BY <1>1, MainAssumption DEF Init, TypeOK
<1>3. Lifecycle
  BY MainAssumption DEF Init, Lifecycle
<1>4. AwaitedMeansOver /\ NoLostResume /\ SuspendedThreadsWait
  BY DEF Init, AwaitedMeansOver, NoLostResume, SuspendedThreadsWait
<1>5. Orderly
  BY DEF Init, Orderly
<1> QED
  BY <1>2, <1>3, <1>4, <1>5 DEF ThreadInv

LEMMA NextTypeOK == ThreadInv /\ [Next]_vars => TypeOK'
<1> SUFFICES ASSUME ThreadInv, [Next]_vars PROVE TypeOK'
  OBVIOUS
<1> USE DEF ThreadInv, TypeOK, Goto
<1>1. ASSUME NEW a \in Threads, NEW t \in Threads, Create(a, t) PROVE TypeOK'
  <2>3. PICK flag \in BOOLEAN : suspended' = [suspended EXCEPT ![t] = flag]
    BY <1>1 DEF Create
  <2>4. suspended' \in [Threads -> BOOLEAN]
    BY <2>3
  <2>1. joinable' \in [Threads -> BOOLEAN]
    BY <1>1 DEF Create
  <2>2. handle' \in [Threads -> {"none", "open", "destroyed"}]
    BY <1>1 DEF Create
  <2> QED
    BY <1>1, <2>1, <2>2, <2>4 DEF Create
<1>2. ASSUME NEW t \in Threads, Park(t) \/ SpuriousWake(t) PROVE TypeOK'
  BY <1>2 DEF Park, SpuriousWake
<1>3. ASSUME NEW t \in Threads, Proceed(t) PROVE TypeOK'
  BY <1>3 DEF Proceed
<1>4. ASSUME NEW t \in Threads, Load(t) PROVE TypeOK'
  BY <1>4 DEF Load
<1>5. ASSUME NEW t \in Threads, Finish(t) \/ SuspendSelf(t) PROVE TypeOK'
  <2>1. suspended' \in [Threads -> BOOLEAN]
    BY <1>5, Zenon DEF Finish, SuspendSelf
  <2> QED
    BY <1>5, <2>1 DEF Finish, SuspendSelf
<1>6. ASSUME NEW a \in Threads, NEW t \in Threads, Resume(a, t) PROVE TypeOK'
  <2>1. suspended' \in [Threads -> BOOLEAN]
    BY <1>6, Zenon DEF Resume
  <2> QED
    BY <1>6, <2>1 DEF Resume
<1>7. ASSUME NEW a \in Threads, Notify(a) PROVE TypeOK'
  BY <1>7 DEF Notify
<1>8. ASSUME NEW a \in Threads, NEW t \in Threads, CallEnd(a, t) PROVE TypeOK'
  BY <1>8 DEF CallEnd
<1>9. ASSUME NEW a \in Threads, Test(a) PROVE TypeOK'
  BY <1>9 DEF Test, Joined
<1>10. ASSUME NEW a \in Threads, Join(a) \/ JoinAgain(a) PROVE TypeOK'
  <2>1. joinable' \in [Threads -> BOOLEAN]
    BY <1>10 DEF Join, JoinAgain
  <2>2. awaited' \in [Threads -> SUBSET Threads]
    BY <1>10 DEF Join, JoinAgain, Joined
  <2>3. pc' \in [Threads -> Locations]
    BY <1>10 DEF Join, JoinAgain, Joined
  <2> QED
    BY <1>10, <2>1, <2>2, <2>3 DEF Join, JoinAgain, Joined
<1>11. ASSUME NEW a \in Threads, Free(a) PROVE TypeOK'
  <2>1. handle' \in [Threads -> {"none", "open", "destroyed"}]
    BY <1>11 DEF Free
  <2>2. pc' \in [Threads -> Locations]
    BY <1>11 DEF Free
  <2> QED
    BY <1>11, <2>1, <2>2 DEF Free
<1>13. ASSUME NEW a \in Threads, Crash(a) PROVE TypeOK'
  BY <1>13 DEF Crash
<1>12. CASE UNCHANGED vars
  BY <1>12 DEF vars
<1> QED
  BY <1>1, <1>2, <1>3, <1>4, <1>5, <1>6, <1>7, <1>8, <1>9, <1>10, <1>11, <1>12, <1>13
     DEF Next

LEMMA NextLifecycle == ThreadInv /\ [Next]_vars => Lifecycle'
<1> SUFFICES ASSUME ThreadInv, [Next]_vars PROVE Lifecycle'
  OBVIOUS
<1> USE MainAssumption DEF ThreadInv, TypeOK, Lifecycle, Goto
<1>1. ASSUME NEW a \in Threads, NEW t \in Threads, Create(a, t) PROVE Lifecycle'
  <2>1. /\ pc[a] = "guest" /\ pc[t] = "absent" /\ pc' = [pc EXCEPT ![t] = "compare"]
        /\ joinable' = [joinable EXCEPT ![t] = TRUE]
        /\ handle' = [handle EXCEPT ![t] = "open"]
        /\ UNCHANGED target
    BY <1>1 DEF Create
  <2>2. t # Main
    BY <2>1
  <2> QED
    BY <2>1, <2>2
<1>2. ASSUME NEW t \in Threads, Park(t) \/ SpuriousWake(t) PROVE Lifecycle'
  BY <1>2 DEF Park, SpuriousWake
<1>3. ASSUME NEW t \in Threads, Proceed(t) PROVE Lifecycle'
  BY <1>3 DEF Proceed
<1>4. ASSUME NEW t \in Threads, Load(t) PROVE Lifecycle'
  BY <1>4 DEF Load
<1>5. ASSUME NEW t \in Threads, Finish(t) \/ SuspendSelf(t) PROVE Lifecycle'
  BY <1>5 DEF Finish, SuspendSelf
<1>6. ASSUME NEW a \in Threads, NEW t \in Threads, Resume(a, t) PROVE Lifecycle'
  BY <1>6 DEF Resume
<1>7. ASSUME NEW a \in Threads, Notify(a) PROVE Lifecycle'
  BY <1>7 DEF Notify
<1>8. ASSUME NEW a \in Threads, NEW t \in Threads, CallEnd(a, t) PROVE Lifecycle'
  BY <1>8 DEF CallEnd
<1>9. ASSUME NEW a \in Threads, Test(a) PROVE Lifecycle'
  BY <1>9 DEF Test, Joined
<1>10. ASSUME NEW a \in Threads, Join(a) PROVE Lifecycle'
  BY <1>10 DEF Join, Joined
<1>11. ASSUME NEW a \in Threads, JoinAgain(a) PROVE Lifecycle'
  BY <1>11 DEF JoinAgain, Joined
<1>12. ASSUME NEW a \in Threads, Free(a) \/ Crash(a) PROVE Lifecycle'
  BY <1>12 DEF Free, Crash
<1>13. CASE UNCHANGED vars
  BY <1>13 DEF vars
<1> QED
  BY <1>1, <1>2, <1>3, <1>4, <1>5, <1>6, <1>7, <1>8, <1>9, <1>10, <1>11, <1>12, <1>13
     DEF Next

LEMMA SpecThreadInv == Spec => []ThreadInv
<1>1. ThreadInv /\ [Next]_vars => ThreadInv'
  BY NextTypeOK, NextLifecycle DEF ThreadInv
<1> QED
  BY InitThreadInv, <1>1, PTL DEF Spec

(* Every variable keeps its type, and a thread runs guest code only after  *)
(* it has read its parameters.                                             *)
THEOREM TypeCorrect == Spec => []TypeOK
<1>1. ThreadInv => TypeOK
  BY DEF ThreadInv
<1> QED
  BY <1>1, SpecThreadInv, PTL

(* NtClose destroys the handle of a thread only after the thread: the join *)
(* of ~GuestThreadHandle keeps the flag and the parameters in it alive.    *)
THEOREM ClosingIsSafe == Spec => []DestroyedMeansOver
<1>1. ThreadInv => DestroyedMeansOver
  BY DEF ThreadInv, Lifecycle, DestroyedMeansOver
<1> QED
  BY <1>1, SpecThreadInv, PTL

-----------------------------------------------------------------------------
(* A thread that has finished stays so.                                    *)
LEMMA FinishedForGood ==
    ASSUME TypeOK, [Next]_vars, NEW t \in Threads, pc[t] = "finished"
    PROVE  pc'[t] = "finished"
<1> USE DEF TypeOK, Goto
<1>1. ASSUME NEW a \in Threads, Park(a) \/ Proceed(a) \/ SpuriousWake(a) \/ Load(a)
                                \/ Finish(a) \/ SuspendSelf(a) \/ Notify(a)
      PROVE pc'[t] = "finished"
  BY <1>1 DEF Park, Proceed, SpuriousWake, Load, Finish, SuspendSelf, Notify
<1>2. ASSUME NEW a \in Threads, Test(a) \/ Join(a) \/ JoinAgain(a) \/ Free(a) \/ Crash(a)
      PROVE pc'[t] = "finished"
  BY <1>2 DEF Test, Join, JoinAgain, Free, Crash, Joined
<1>3. ASSUME NEW a \in Threads, NEW b \in Threads,
             Create(a, b) \/ Resume(a, b) \/ CallEnd(a, b)
      PROVE pc'[t] = "finished"
  BY <1>3 DEF Create, Resume, CallEnd
<1>4. CASE UNCHANGED vars
  BY <1>4 DEF vars
<1> QED
  BY <1>1, <1>2, <1>3, <1>4 DEF Next

(* A wait is recorded only when its thread has finished.                   *)
LEMMA NewlyAwaited ==
    ASSUME ThreadInv, [Next]_vars, NEW a \in Threads,
           NEW t \in awaited'[a], t \notin awaited[a]
    PROVE  t \in Threads /\ pc[t] = "finished"
<1> USE DEF ThreadInv, TypeOK, Lifecycle
<1>1. ASSUME NEW b \in Threads, Test(b) PROVE t \in Threads /\ pc[t] = "finished"
  BY <1>1 DEF Test, Joined, Goto
<1>2. ASSUME NEW b \in Threads, Join(b) PROVE t \in Threads /\ pc[t] = "finished"
  BY <1>2 DEF Join, Joined, Goto
<1>3. ASSUME NEW b \in Threads, JoinAgain(b) PROVE t \in Threads /\ pc[t] = "finished"
  BY <1>3 DEF JoinAgain, Joined, Goto
<1>4. CASE UNCHANGED awaited
  BY <1>4
<1>5. ASSUME NEW b \in Threads, Park(b) \/ Proceed(b) \/ SpuriousWake(b) \/ Load(b)
                                \/ Finish(b) \/ SuspendSelf(b) \/ Notify(b)
                                \/ Free(b) \/ Crash(b)
      PROVE UNCHANGED awaited
  BY <1>5 DEF Park, Proceed, SpuriousWake, Load, Finish, SuspendSelf, Notify, Free, Crash
<1>6. ASSUME NEW b \in Threads, NEW c \in Threads,
             Create(b, c) \/ Resume(b, c) \/ CallEnd(b, c)
      PROVE UNCHANGED awaited
  BY <1>6 DEF Create, Resume, CallEnd
<1>7. CASE UNCHANGED vars
  BY <1>7, <1>4 DEF vars
<1> QED
  BY <1>1, <1>2, <1>3, <1>4, <1>5, <1>6, <1>7 DEF Next

(* NtWaitForSingleObjectEx on a thread returns only after the thread's     *)
(* function, even when another wait has joined it first.                   *)
THEOREM WaitsAreHonest == Spec => []AwaitedMeansOver
<1>1. ThreadInv /\ AwaitedMeansOver /\ [Next]_vars => AwaitedMeansOver'
  <2> SUFFICES ASSUME ThreadInv, AwaitedMeansOver, [Next]_vars,
                      NEW a \in Threads, NEW t \in awaited'[a]
               PROVE  pc'[t] = "finished"
    BY DEF AwaitedMeansOver
  <2>1. t \in Threads /\ pc[t] = "finished"
    BY NewlyAwaited DEF AwaitedMeansOver, ThreadInv, TypeOK
  <2> QED
    BY <2>1, FinishedForGood DEF ThreadInv
<1> QED
  BY InitThreadInv, <1>1, SpecThreadInv, PTL DEF Spec

-----------------------------------------------------------------------------
(* Suspension and resumption concern the flag, and threads at their flag.  *)
LEMMA NextSuspended == ThreadInv /\ SuspendedThreadsWait /\ [Next]_vars
                          => SuspendedThreadsWait'
<1> SUFFICES ASSUME ThreadInv, SuspendedThreadsWait, [Next]_vars
             PROVE  SuspendedThreadsWait'
  OBVIOUS
<1> USE DEF ThreadInv, TypeOK, SuspendedThreadsWait, Goto
<1>1. ASSUME NEW a \in Threads, NEW t \in Threads, Create(a, t) PROVE SuspendedThreadsWait'
  BY <1>1 DEF Create
<1>2. ASSUME NEW t \in Threads, Park(t) PROVE SuspendedThreadsWait'
  BY <1>2 DEF Park
<1>3. ASSUME NEW t \in Threads, Proceed(t) \/ SpuriousWake(t) PROVE SuspendedThreadsWait'
  BY <1>3 DEF Proceed, SpuriousWake
<1>4. ASSUME NEW t \in Threads, Load(t) \/ Finish(t) PROVE SuspendedThreadsWait'
  BY <1>4 DEF Load, Finish
<1>5. ASSUME NEW t \in Threads, SuspendSelf(t) PROVE SuspendedThreadsWait'
  BY <1>5 DEF SuspendSelf
<1>6. ASSUME NEW a \in Threads, NEW t \in Threads, Resume(a, t) PROVE SuspendedThreadsWait'
  BY <1>6 DEF Resume
<1>7. ASSUME NEW a \in Threads, Notify(a) PROVE SuspendedThreadsWait'
  BY <1>7 DEF Notify
<1>8. ASSUME NEW a \in Threads, NEW t \in Threads, CallEnd(a, t) PROVE SuspendedThreadsWait'
  BY <1>8 DEF CallEnd
<1>9. ASSUME NEW a \in Threads, Test(a) PROVE SuspendedThreadsWait'
  BY <1>9 DEF Test, Joined
<1>10. ASSUME NEW a \in Threads, Join(a) PROVE SuspendedThreadsWait'
  BY <1>10 DEF Join, Joined
<1>11. ASSUME NEW a \in Threads, JoinAgain(a) PROVE SuspendedThreadsWait'
  BY <1>11 DEF JoinAgain, Joined
<1>12. ASSUME NEW a \in Threads, Free(a) PROVE SuspendedThreadsWait'
  BY <1>12 DEF Free
<1>13. ASSUME NEW a \in Threads, Crash(a) PROVE SuspendedThreadsWait'
  BY <1>13 DEF Crash
<1>14. CASE UNCHANGED vars
  BY <1>14 DEF vars
<1> QED
  BY <1>1, <1>2, <1>3, <1>4, <1>5, <1>6, <1>7, <1>8, <1>9, <1>10, <1>11, <1>12, <1>13,
     <1>14 DEF Next

(* A thread created suspended, or suspended by NtSuspendThread, runs no    *)
(* guest code before a resume.                                             *)
THEOREM Suspension == Spec => []SuspendedThreadsWait
  BY InitThreadInv, NextSuspended, SpecThreadInv, PTL DEF Spec

LEMMA NextResume == ThreadInv /\ NoLostResume /\ [Next]_vars => NoLostResume'
<1> SUFFICES ASSUME ThreadInv, NoLostResume, [Next]_vars PROVE NoLostResume'
  OBVIOUS
<1> USE DEF ThreadInv, TypeOK, NoLostResume, Goto
<1>1. ASSUME NEW a \in Threads, NEW t \in Threads, Create(a, t) PROVE NoLostResume'
  BY <1>1 DEF Create
<1>2. ASSUME NEW t \in Threads, Park(t) PROVE NoLostResume'
  BY <1>2 DEF Park
<1>3. ASSUME NEW t \in Threads, Proceed(t) \/ SpuriousWake(t) PROVE NoLostResume'
  BY <1>3 DEF Proceed, SpuriousWake
<1>4. ASSUME NEW t \in Threads, Load(t) \/ Finish(t) PROVE NoLostResume'
  BY <1>4 DEF Load, Finish
<1>5. ASSUME NEW t \in Threads, SuspendSelf(t) PROVE NoLostResume'
  BY <1>5 DEF SuspendSelf
<1>6. ASSUME NEW a \in Threads, NEW t \in Threads, Resume(a, t) PROVE NoLostResume'
  BY <1>6 DEF Resume
<1>7. ASSUME NEW a \in Threads, Notify(a) PROVE NoLostResume'
  BY <1>7 DEF Notify
<1>8. ASSUME NEW a \in Threads, NEW t \in Threads, CallEnd(a, t) PROVE NoLostResume'
  BY <1>8 DEF CallEnd
<1>9. ASSUME NEW a \in Threads, Test(a) PROVE NoLostResume'
  BY <1>9 DEF Test, Joined
<1>10. ASSUME NEW a \in Threads, Join(a) PROVE NoLostResume'
  BY <1>10 DEF Join, Joined
<1>11. ASSUME NEW a \in Threads, JoinAgain(a) PROVE NoLostResume'
  BY <1>11 DEF JoinAgain, Joined
<1>12. ASSUME NEW a \in Threads, Free(a) PROVE NoLostResume'
  BY <1>12 DEF Free
<1>13. ASSUME NEW a \in Threads, Crash(a) PROVE NoLostResume'
  BY <1>13 DEF Crash
<1>14. CASE UNCHANGED vars
  BY <1>14 DEF vars
<1> QED
  BY <1>1, <1>2, <1>3, <1>4, <1>5, <1>6, <1>7, <1>8, <1>9, <1>10, <1>11, <1>12, <1>13,
     <1>14 DEF Next

(* KeResumeThread and NtResumeThread wake the thread, wherever it is       *)
(* between its test of the flag and its sleep.                             *)
THEOREM ResumesSuffice == Spec => []NoLostResume
  BY InitThreadInv, NextResume, SpecThreadInv, PTL DEF Spec

LEMMA NextOrderly == ThreadInv /\ Orderly /\ [Next]_vars => Orderly'
<1> SUFFICES ASSUME ThreadInv, Orderly, [Next]_vars PROVE Orderly'
  OBVIOUS
<1> USE DEF ThreadInv, TypeOK, Lifecycle, Orderly, Goto
<1>1. ASSUME NEW a \in Threads, NEW t \in Threads, Create(a, t) PROVE Orderly'
  BY <1>1 DEF Create
<1>2. ASSUME NEW t \in Threads, Park(t) PROVE Orderly'
  BY <1>2 DEF Park
<1>3. ASSUME NEW t \in Threads, Proceed(t) \/ SpuriousWake(t) PROVE Orderly'
  BY <1>3, SMTT(20) DEF Proceed, SpuriousWake
<1>4. ASSUME NEW t \in Threads, Load(t) \/ Finish(t) PROVE Orderly'
  BY <1>4 DEF Load, Finish
<1>5. ASSUME NEW t \in Threads, SuspendSelf(t) PROVE Orderly'
  BY <1>5 DEF SuspendSelf
<1>6. ASSUME NEW a \in Threads, NEW t \in Threads, Resume(a, t) PROVE Orderly'
  BY <1>6 DEF Resume
<1>7. ASSUME NEW a \in Threads, Notify(a) PROVE Orderly'
  BY <1>7 DEF Notify
<1>8. ASSUME NEW a \in Threads, NEW t \in Threads, CallEnd(a, t) PROVE Orderly'
  BY <1>8 DEF CallEnd, Ends
<1>9. ASSUME NEW a \in Threads, Test(a) PROVE Orderly'
  BY <1>9 DEF Test, Joined
<1>10. ASSUME NEW a \in Threads, Join(a) PROVE Orderly'
  BY <1>10 DEF Join, Joined
<1>11. ASSUME NEW a \in Threads, JoinAgain(a) PROVE Orderly'
  BY <1>11 DEF JoinAgain, Joined
<1>12. ASSUME NEW a \in Threads, Free(a) PROVE Orderly'
  BY <1>12 DEF Free
<1>13. ASSUME NEW a \in Threads, Crash(a) PROVE Orderly'
  BY <1>13 DEF Crash
<1>14. CASE UNCHANGED vars
  BY <1>14 DEF vars
<1> QED
  BY <1>1, <1>2, <1>3, <1>4, <1>5, <1>6, <1>7, <1>8, <1>9, <1>10, <1>11, <1>12, <1>13,
     <1>14 DEF Next

(* Waits and closes that do not overlap never make a join throw, nor touch *)
(* a destroyed handle.                                                     *)
THEOREM OrderlyEndsAreSafe == Spec => []OnlyContentionCrashes
<1>1. Orderly => OnlyContentionCrashes
  BY DEF Orderly, OnlyContentionCrashes
<1> QED
  BY InitThreadInv, NextOrderly, <1>1, SpecThreadInv, PTL DEF Spec

-----------------------------------------------------------------------------
(* Calls between host and guest code.                                      *)

(* Modes, variables on the stack and frames.                               *)
ModeType == [flush : BOOLEAN, round : 0 .. 3]
Variable == [ptr : Int, size : {1, 2}, old : Int]
FrameType == [who : {"guest", "host"}, from : Int, bottom : Int, variables : Seq(Variable)]

(* The types of the frames, the contexts and the modes.                    *)
HookTypeOK ==
    /\ frames \in Seq(FrameType)
    /\ contexts \in Seq([r1 : Int, csr : ModeType])
    /\ mxcsr \in ModeType /\ asked \in ModeType

(* Where the stack ends below a frame.                                     *)
LowEnd(frame) == IF frame.variables = <<>> THEN frame.bottom ELSE Last(frame.variables).ptr

(* Guest functions and host functions take turns, and every guest function *)
(* has a context.                                                          *)
TurnsOK ==
    /\ Len(frames) > 0
    /\ \A n \in 1 .. Len(frames) : frames[n].who = IF n % 2 = 1 THEN "guest" ELSE "host"
    /\ current = Len(contexts) /\ current = (Len(frames) + 1) \div 2

(* The variables of a frame lie below it, one below the other, and each    *)
(* remembers where r1 was.                                                 *)
FrameOK(frame) ==
    /\ frame.who = "guest" => frame.variables = <<>> /\ frame.bottom <= frame.from
    /\ frame.who = "host" => frame.bottom = frame.from
    /\ LowEnd(frame) <= frame.bottom
    /\ \A v \in 1 .. Len(frame.variables) :
         LET x == frame.variables[v] IN
           /\ x.ptr + x.size <= x.old /\ x.old <= frame.bottom /\ LowEnd(frame) <= x.ptr
           /\ x.old = IF v = 1 THEN frame.bottom ELSE frame.variables[v - 1].ptr
           /\ \A w \in 1 .. v - 1 : x.old <= frame.variables[w].ptr

(* A frame begins where the one under it ends, and r1 is where the stack   *)
(* ends: in every context, below the last frame that runs on it.           *)
StackOK ==
    /\ \A n \in 1 .. Len(frames) : FrameOK(frames[n])
    /\ \A n \in 2 .. Len(frames) : frames[n].from = LowEnd(frames[n - 1])
    /\ \A n, m \in 1 .. Len(frames) : n < m => frames[m].from <= LowEnd(frames[n])
    /\ \A n \in 1 .. Len(frames) :
         n % 2 = 0 \/ n = Len(frames) => contexts[(n + 1) \div 2].r1 = LowEnd(frames[n])

(* The processor has the mode that was asked for, and so has the context.  *)
ModeOK == mxcsr = [asked EXCEPT !.round = GuestToHost[@]] /\ Context.csr = mxcsr

HookInv == HookTypeOK /\ TurnsOK /\ StackOK /\ ModeOK

(* The two tables of rounding modes are each other's inverse.              *)
LEMMA RoundingModes ==
    /\ GuestToHost \in [0 .. 3 -> 0 .. 3] /\ HostToGuest \in [0 .. 3 -> 0 .. 3]
    /\ \A round \in 0 .. 3 : GuestToHost[HostToGuest[round]] = round
<1> DEFINE table == <<0, 3, 2, 1>>
<1>1. ASSUME NEW round \in 0 .. 3 PROVE table[round + 1] \in 0 .. 3 /\ table[table[round + 1] + 1] = round
  OBVIOUS
<1> QED
  BY <1>1 DEF HostToGuest, GuestToHost

(* A thread starts in a guest function below the top of its stack.         *)
LEMMA InitHookInv == HookInit => HookInv
<1> SUFFICES ASSUME HookInit PROVE HookInv
  OBVIOUS
<1>1. /\ mxcsr \in ModeType /\ asked = [mxcsr EXCEPT !.round = HostToGuest[@]] /\ current = 1
      /\ frames = <<GuestFrame(StackTop)>>
      /\ contexts = <<[r1 |-> StackTop - FrameSize, csr |-> mxcsr]>>
  BY ModesAssumption DEF HookInit, ModeType
<1>2. GuestFrame(StackTop) \in FrameType /\ asked \in ModeType
  BY <1>1, RoundingModes DEF GuestFrame, FrameType, ModeType, StackTop, FrameSize
<1>3. HookTypeOK
  BY <1>1, <1>2 DEF HookTypeOK, StackTop, FrameSize
<1>4. TurnsOK
  BY <1>1 DEF TurnsOK, GuestFrame
<1>5. StackOK
  BY <1>1 DEF StackOK, FrameOK, LowEnd, GuestFrame, StackTop, FrameSize
<1>6. ModeOK
  BY <1>1, RoundingModes DEF ModeOK, Context, ModeType
<1> QED
  BY <1>3, <1>4, <1>5, <1>6 DEF HookInv

(* The last element of a sequence and those before it.                     *)
LEMMA FrontOf ==
    ASSUME NEW S, NEW s \in Seq(S), s # <<>>
    PROVE  /\ Len(s) \in Nat \ {0} /\ Last(s) = s[Len(s)] /\ Last(s) \in S
           /\ Front(s) \in Seq(S) /\ Len(Front(s)) = Len(s) - 1
           /\ \A i \in 1 .. Len(s) - 1 : Front(s)[i] = s[i]
<1>1. Len(s) \in Nat \ {0} /\ \A k \in 1 .. Len(s) : s[k] \in S
  OBVIOUS
<1>2. \A k \in 1 .. Len(s) - 1 : s[k] \in S
  BY <1>1
<1>3. /\ SubSeq(s, 1, Len(s) - 1) \in Seq(S)
      /\ Len(SubSeq(s, 1, Len(s) - 1)) = Len(s) - 1
      /\ \A k \in 1 .. Len(s) - 1 : SubSeq(s, 1, Len(s) - 1)[k] = s[k]
  <2> DEFINE n == Len(s) - 1
             front == SubSeq(s, 1, n)
  <2>1. n \in Int /\ (1 <= n \/ n = 0) /\ n - 1 + 1 = n
    <3>1. \A l \in Nat \ {0} :
             l - 1 \in Int /\ (1 <= l - 1 \/ l - 1 = 0) /\ l - 1 - 1 + 1 = l - 1
      OBVIOUS
    <3> QED
      BY <1>1, <3>1
  <2> HIDE DEF n
  <2>2. /\ front \in Seq(S) /\ Len(front) = IF 1 <= n THEN n - 1 + 1 ELSE 0
        /\ \A i \in 1 .. n - 1 + 1 : front[i] = s[1 + i - 1]
    <3>1. \A i \in 1 .. n : s[i] \in S
      BY <1>2 DEF n
    <3> QED
      BY <2>1, <3>1, SubSeqProperties
  <2> HIDE DEF front
  <2>3. front \in Seq(S) /\ Len(front) = n /\ \A k \in 1 .. n : front[k] = s[k]
    BY <2>1, <2>2
  <2> QED
    BY <2>3 DEF n, front
<1> QED
  BY <1>1, <1>3 DEF Front, Last

(* The low end of a frame is an address.                                   *)
LEMMA LowEndInt == ASSUME NEW frame \in FrameType PROVE LowEnd(frame) \in Int
<1>1. frame.variables \in Seq(Variable) /\ frame.bottom \in Int
  BY DEF FrameType
<1>2. CASE frame.variables # <<>>
  <2>1. Last(frame.variables) \in Variable
    BY <1>1, <1>2, FrontOf
  <2> QED
    BY <1>2, <2>1 DEF LowEnd, Variable
<1> QED
  BY <1>1, <1>2 DEF LowEnd

(* Parity, and the context that a frame has.                               *)
LEMMA Halves ==
    ASSUME NEW k \in Nat
    PROVE  /\ k % 2 \in {0, 1} /\ (k + 1) % 2 = 1 - (k % 2)
           /\ k % 2 = 1 => (k + 1 + 1) \div 2 = (k + 1) \div 2
           /\ k % 2 = 0 => (k + 1 + 1) \div 2 = (k + 1) \div 2 + 1
  OBVIOUS

(* The frame on top, and r1 where it ends.                                 *)
LEMMA TopOf ==
    ASSUME HookTypeOK, TurnsOK, StackOK
    PROVE  /\ Len(frames) \in Nat \ {0} /\ frames # <<>> /\ Top = frames[Len(frames)]
           /\ Top \in FrameType /\ FrameOK(Top)
           /\ Top.who = (IF Len(frames) % 2 = 1 THEN "guest" ELSE "host")
           /\ Len(contexts) \in Nat \ {0} /\ contexts # <<>>
           /\ Context = contexts[Len(contexts)] /\ Context \in [r1 : Int, csr : ModeType]
           /\ Context.r1 = LowEnd(Top) /\ Context.r1 \in Int
<1>1. frames \in Seq(FrameType) /\ contexts \in Seq([r1 : Int, csr : ModeType])
  BY DEF HookTypeOK
<1>2. Len(frames) \in Nat \ {0} /\ frames # <<>>
  BY <1>1 DEF TurnsOK
<1>3. Len(contexts) = (Len(frames) + 1) \div 2
  BY <1>1 DEF TurnsOK
<1>4. Len(contexts) \in Nat \ {0} /\ contexts # <<>>
  BY <1>1, <1>2, <1>3
<1>5. Context = contexts[Len(contexts)] /\ Context \in [r1 : Int, csr : ModeType]
  <2>1. Context = contexts[Len(contexts)]
    BY DEF Context, TurnsOK
  <2>2. Len(contexts) \in 1 .. Len(contexts)
    BY <1>4
  <2> DEFINE S == [r1 : Int, csr : ModeType]
  <2>3. contexts[Len(contexts)] \in S
    <3> HIDE DEF S
    <3>1. contexts \in Seq(S)
      BY <1>1 DEF S
    <3> QED
      BY <2>2, <3>1, ElementOfSeq
  <2> QED
    BY <2>1, <2>3
<1>6. Top = frames[Len(frames)] /\ Top \in FrameType
  BY <1>1, <1>2, FrontOf DEF Top
<1>7. FrameOK(Top)
  BY <1>2, <1>6 DEF StackOK
<1>8. Top.who = IF Len(frames) % 2 = 1 THEN "guest" ELSE "host"
  BY <1>2, <1>6 DEF TurnsOK
<1>9. Context.r1 = LowEnd(Top)
  BY <1>2, <1>3, <1>5, <1>6 DEF StackOK
<1> QED
  BY <1>2, <1>4, <1>5, <1>6, <1>7, <1>8, <1>9

(* A frame put on top of the others, with a context of its own if it is a  *)
(* guest function's.                                                       *)
LEMMA PushFrame ==
    ASSUME HookInv, NEW frame \in FrameType,
           frame.from = LowEnd(Top), FrameOK(frame),
           frame.who = (IF Top.who = "guest" THEN "host" ELSE "guest"), frame.variables = <<>>,
           frames' = Append(frames, frame),
           IF frame.who = "host" THEN contexts' = contexts /\ current' = current
           ELSE /\ contexts' = Append(contexts, [r1 |-> LowEnd(frame), csr |-> Context.csr])
                /\ current' = Len(contexts) + 1,
           mxcsr' = mxcsr, asked' = asked
    PROVE  HookInv'
<1>0. HookTypeOK /\ TurnsOK /\ StackOK /\ ModeOK
  BY DEF HookInv
<1>1. /\ Len(frames) \in Nat \ {0} /\ Top = frames[Len(frames)] /\ Top \in FrameType /\ FrameOK(Top)
      /\ Top.who = (IF Len(frames) % 2 = 1 THEN "guest" ELSE "host")
      /\ Len(contexts) \in Nat \ {0} /\ Context = contexts[Len(contexts)]
      /\ Context \in [r1 : Int, csr : ModeType] /\ Context.r1 = LowEnd(Top)
  BY <1>0, TopOf
<1>2. frames \in Seq(FrameType) /\ contexts \in Seq([r1 : Int, csr : ModeType])
  BY <1>0 DEF HookTypeOK
<1>3. /\ frames' \in Seq(FrameType) /\ Len(frames') = Len(frames) + 1
      /\ frames'[Len(frames) + 1] = frame /\ \A n \in 1 .. Len(frames) : frames'[n] = frames[n]
  BY <1>2
<1>4. /\ contexts' \in Seq([r1 : Int, csr : ModeType])
      /\ Len(contexts') = (IF frame.who = "host" THEN Len(contexts) ELSE Len(contexts) + 1)
      /\ current' = Len(contexts')
      /\ \A k \in 1 .. Len(contexts) : contexts'[k] = contexts[k]
      /\ frame.who = "guest" => contexts'[current'] = [r1 |-> LowEnd(frame), csr |-> Context.csr]
  <2>1. CASE frame.who = "host"
    BY <1>0, <1>2, <2>1 DEF TurnsOK
  <2>2. CASE frame.who # "host"
    <3>1. [r1 |-> LowEnd(frame), csr |-> Context.csr] \in [r1 : Int, csr : ModeType]
      BY <1>1, LowEndInt
    <3>2. frame.who = "guest" /\ contexts' = Append(contexts, [r1 |-> LowEnd(frame), csr |-> Context.csr])
      BY <2>2
    <3> QED
      BY <1>1, <1>2, <2>2, <3>1, <3>2
  <2> QED
    BY <2>1, <2>2
<1>5. HookTypeOK'
  BY <1>0, <1>3, <1>4 DEF HookTypeOK
<1>6. TurnsOK'
  <2>1. Len(contexts') = (Len(frames') + 1) \div 2
    BY <1>0, <1>1, <1>3, <1>4, SMTT(20) DEF TurnsOK
  <2>2. ASSUME NEW n \in 1 .. Len(frames') PROVE frames'[n].who = IF n % 2 = 1 THEN "guest" ELSE "host"
    <3>1. CASE n = Len(frames) + 1
      <4>1. n % 2 = 1 <=> Len(frames) % 2 # 1
        BY <1>1, <3>1, Halves
      <4> QED
        BY <1>1, <1>3, <3>1, <4>1
    <3>2. CASE n \in 1 .. Len(frames)
      BY <1>0, <1>3, <3>2 DEF TurnsOK
    <3>3. n = Len(frames) + 1 \/ n \in 1 .. Len(frames)
      BY <1>1, <1>3
    <3> QED
      BY <3>1, <3>2, <3>3
  <2>3. Len(frames') > 0 /\ current' = Len(contexts')
    BY <1>1, <1>3, <1>4
  <2> QED
    BY <2>1, <2>2, <2>3 DEF TurnsOK
<1>7. StackOK'
  <2>1. ASSUME NEW n \in 1 .. Len(frames') PROVE FrameOK(frames'[n])
    BY <1>0, <1>1, <1>3 DEF StackOK
  <2>2. ASSUME NEW n \in 2 .. Len(frames') PROVE frames'[n].from = LowEnd(frames'[n - 1])
    <3>1. CASE n = Len(frames) + 1
      BY <1>1, <1>3, <3>1
    <3>2. CASE n \in 2 .. Len(frames)
      BY <1>0, <1>1, <1>3, <3>2 DEF StackOK
    <3>3. n = Len(frames) + 1 \/ n \in 2 .. Len(frames)
      BY <1>1, <1>3, SMTT(20)
    <3> QED
      BY <3>1, <3>2, <3>3
  <2>3. ASSUME NEW n \in 1 .. Len(frames'), NEW m \in 1 .. Len(frames'), n < m
        PROVE  frames'[m].from <= LowEnd(frames'[n])
    <3>1. CASE m \in 1 .. Len(frames)
      <4>1. n \in 1 .. Len(frames) /\ frames'[n] = frames[n] /\ frames'[m] = frames[m]
        BY <1>1, <1>3, <2>3, <3>1
      <4> QED
        BY <1>0, <2>3, <3>1, <4>1 DEF StackOK
    <3>2. CASE m = Len(frames) + 1
      <4>1. n \in 1 .. Len(frames) /\ frames'[n] = frames[n] /\ frames[n] \in FrameType
        BY <1>1, <1>2, <1>3, <2>3, <3>2
      <4>2. LowEnd(frames[n]) \in Int /\ LowEnd(Top) \in Int /\ Top.from \in Int /\ Top.bottom \in Int
        BY <1>1, <4>1, LowEndInt DEF FrameType
      <4>3. LowEnd(Top) <= Top.from
        BY <1>1, <4>2, SMTT(20) DEF FrameOK, FrameType
      <4>4. n < Len(frames) => Top.from <= LowEnd(frames[n])
        BY <1>0, <1>1, <4>1, SMTT(20) DEF StackOK
      <4> QED
        BY <1>1, <1>3, <3>2, <4>1, <4>2, <4>3, <4>4
    <3> QED
      BY <1>1, <1>3, <3>1, <3>2
  <2>4. ASSUME NEW n \in 1 .. Len(frames'), n % 2 = 0 \/ n = Len(frames')
        PROVE  contexts'[(n + 1) \div 2].r1 = LowEnd(frames'[n])
    <3>1. Len(contexts) = (Len(frames) + 1) \div 2
      BY <1>0 DEF TurnsOK
    <3>2. CASE n \in 1 .. Len(frames)
      <4>1. n % 2 = 0 /\ (n + 1) \div 2 \in 1 .. Len(contexts)
        BY <1>1, <1>3, <2>4, <3>1, <3>2
      <4> QED
        BY <1>0, <1>3, <1>4, <3>2, <4>1 DEF StackOK
    <3>3. CASE n = Len(frames) + 1 /\ frame.who = "host"
      <4>1. (n + 1) \div 2 = Len(contexts)
        <5>1. Len(frames) % 2 = 1
          BY <1>1, <3>3
        <5> QED
          BY <1>1, <3>1, <3>3, <5>1, Halves
      <4>2. LowEnd(frame) = frame.from
        BY <3>3 DEF FrameOK, LowEnd
      <4> QED
        BY <1>1, <1>3, <1>4, <3>3, <4>1, <4>2
    <3>4. CASE n = Len(frames) + 1 /\ frame.who = "guest"
      <4>1. (n + 1) \div 2 = current'
        BY <1>1, <1>4, <3>1, <3>4, SMTT(20)
      <4> QED
        BY <1>3, <1>4, <3>4, <4>1
    <3> QED
      BY <1>1, <1>3, <3>2, <3>3, <3>4
  <2> QED
    BY <2>1, <2>2, <2>3, <2>4 DEF StackOK
<1>8. ModeOK'
  <2>1. Context'.csr = Context.csr
    <3>1. Context' = contexts'[current']
      BY DEF Context
    <3>2. CASE frame.who = "host"
      BY <1>1, <1>4, <3>1, <3>2
    <3>3. CASE frame.who = "guest"
      BY <1>4, <3>1, <3>3
    <3> QED
      BY <3>2, <3>3
  <2> QED
    BY <1>0, <2>1 DEF ModeOK
<1> QED
  BY <1>5, <1>6, <1>7, <1>8 DEF HookInv

(* The frame on top taken away, with its context if it has one; the mode   *)
(* that a guest function leaves is its caller's.                           *)
LEMMA PopFrame ==
    ASSUME HookInv, Len(frames) > 1, Top.variables = <<>>, frames' = Front(frames),
           IF Top.who = "host" THEN contexts' = contexts /\ current' = current
           ELSE /\ contexts' = [Front(contexts) EXCEPT ![Len(contexts) - 1].csr = Context.csr]
                /\ current' = Len(contexts) - 1,
           mxcsr' = mxcsr, asked' = asked
    PROVE  HookInv'
<1> DEFINE S == [r1 : Int, csr : ModeType]
<1>0. HookTypeOK /\ TurnsOK /\ StackOK /\ ModeOK
  BY DEF HookInv
<1>1. /\ Len(frames) \in Nat \ {0} /\ frames # <<>> /\ Top = frames[Len(frames)]
      /\ Top \in FrameType /\ FrameOK(Top)
      /\ Top.who = (IF Len(frames) % 2 = 1 THEN "guest" ELSE "host")
      /\ Len(contexts) \in Nat \ {0} /\ contexts # <<>> /\ Context = contexts[Len(contexts)]
      /\ Context \in S /\ Context.r1 = LowEnd(Top)
  BY <1>0, TopOf
<1>2. frames \in Seq(FrameType) /\ contexts \in Seq(S) /\ Len(contexts) = (Len(frames) + 1) \div 2
  BY <1>0 DEF HookTypeOK, TurnsOK
<1>3. /\ frames' \in Seq(FrameType) /\ Len(frames') = Len(frames) - 1
      /\ \A n \in 1 .. Len(frames) - 1 : frames'[n] = frames[n]
  BY <1>1, <1>2, FrontOf
<1>4. /\ Len(frames) - 1 \in Nat
      /\ Len(frames) % 2 = 1 => /\ (Len(frames) - 1) % 2 = 0
                                /\ Len(frames) \div 2 = (Len(frames) + 1) \div 2 - 1
      /\ Len(frames) % 2 # 1 => /\ (Len(frames) - 1) % 2 = 1
                                /\ Len(frames) \div 2 = (Len(frames) + 1) \div 2
      /\ (Len(frames) - 1) + 1 = Len(frames) /\ Len(frames) >= 2
  <2>1. Len(frames) - 1 \in Nat /\ (Len(frames) - 1) + 1 = Len(frames) /\ Len(frames) >= 2
    BY <1>1
  <2> QED
    BY <2>1, Halves
<1>5. /\ contexts' \in Seq(S)
      /\ Len(contexts') = (IF Top.who = "host" THEN Len(contexts) ELSE Len(contexts) - 1)
      /\ current' = Len(contexts') /\ current' \in 1 .. Len(contexts)
      /\ \A k \in 1 .. current' : contexts'[k].r1 = contexts[k].r1
      /\ contexts'[current'].csr = Context.csr
  <2>1. CASE Top.who = "host"
    BY <1>0, <1>1, <1>2, <2>1 DEF TurnsOK
  <2>2. CASE Top.who = "guest"
    <3> HIDE DEF S
    <3>1. contexts' = [Front(contexts) EXCEPT ![Len(contexts) - 1].csr = Context.csr]
          /\ current' = Len(contexts) - 1
      BY <2>2
    <3>2. /\ Front(contexts) \in Seq(S) /\ Len(Front(contexts)) = Len(contexts) - 1
          /\ \A i \in 1 .. Len(contexts) - 1 : Front(contexts)[i] = contexts[i]
      BY <1>1, <1>2, FrontOf
    <3>3. Len(contexts) - 1 \in 1 .. Len(contexts)
      BY <1>1, <1>2, <1>4, <2>2
    <3>4. [Front(contexts)[Len(contexts) - 1] EXCEPT !.csr = Context.csr] \in S
      <4>1. Front(contexts)[Len(contexts) - 1] \in S
        BY <3>2, <3>3, ElementOfSeq
      <4> QED
        BY <1>1, <4>1 DEF S
    <3>5. contexts' \in Seq(S) /\ Len(contexts') = Len(contexts) - 1
      BY <3>1, <3>2, <3>3, <3>4
    <3>6. ASSUME NEW k \in 1 .. Len(contexts) - 1 PROVE contexts'[k].r1 = contexts[k].r1
      <4>1. contexts[k] \in S
        BY <1>2, <3>3, ElementOfSeq
      <4> QED
        BY <3>1, <3>2, <3>3, <4>1 DEF S
    <3>7. contexts'[Len(contexts) - 1].csr = Context.csr
      <4>1. contexts[Len(contexts) - 1] \in S
        BY <1>2, <3>3, ElementOfSeq
      <4> QED
        BY <3>1, <3>2, <3>3, <4>1 DEF S
    <3> QED
      BY <2>2, <3>1, <3>3, <3>5, <3>6, <3>7
  <2> QED
    BY <1>1, <2>1, <2>2
<1>6. HookTypeOK'
  BY <1>0, <1>3, <1>5 DEF HookTypeOK
<1>7. TurnsOK'
  <2>1. Len(contexts') = (Len(frames') + 1) \div 2
    BY <1>1, <1>2, <1>3, <1>4, <1>5
  <2>2. \A n \in 1 .. Len(frames') : frames'[n].who = IF n % 2 = 1 THEN "guest" ELSE "host"
    BY <1>0, <1>1, <1>3, SMTT(20) DEF TurnsOK
  <2>3. Len(frames') > 0
    BY <1>1, <1>3
  <2> QED
    BY <1>5, <2>1, <2>2, <2>3 DEF TurnsOK
<1>8. StackOK'
  <2>0. 1 .. Len(frames') \subseteq 1 .. Len(frames) /\ 2 .. Len(frames') \subseteq 2 .. Len(frames)
    BY <1>1, <1>3
  <2>1. ASSUME NEW n \in 1 .. Len(frames') PROVE FrameOK(frames'[n])
    BY <1>0, <1>3, <2>0 DEF StackOK
  <2>2. ASSUME NEW n \in 2 .. Len(frames') PROVE frames'[n].from = LowEnd(frames'[n - 1])
    <3>1. n \in 1 .. Len(frames) - 1 /\ n - 1 \in 1 .. Len(frames) - 1
      BY <1>1, <1>3
    <3> QED
      BY <1>0, <1>3, <2>0, <3>1 DEF StackOK
  <2>3. ASSUME NEW n \in 1 .. Len(frames'), NEW m \in 1 .. Len(frames'), n < m
        PROVE  frames'[m].from <= LowEnd(frames'[n])
    BY <1>0, <1>3, <2>0, <2>3 DEF StackOK
  <2>4. ASSUME NEW n \in 1 .. Len(frames'), n % 2 = 0 \/ n = Len(frames')
        PROVE  contexts'[(n + 1) \div 2].r1 = LowEnd(frames'[n])
    <3>1. CASE n % 2 = 0
      <4>1. (n + 1) \div 2 \in 1 .. current'
        <5>1. current' = Len(frames) \div 2
          BY <1>1, <1>2, <1>4, <1>5
        <5>2. n \in Nat /\ n >= 1 /\ n + 1 <= Len(frames) /\ Len(frames) \in Nat
          BY <1>1, <1>3
        <5>3. (n + 1) \div 2 >= 1 /\ (n + 1) \div 2 <= Len(frames) \div 2 /\ (n + 1) \div 2 \in Nat
          BY <5>2
        <5> QED
          BY <5>1, <5>2, <5>3
      <4> QED
        BY <1>0, <1>3, <1>5, <2>0, <3>1, <4>1 DEF StackOK
    <3>2. CASE n % 2 # 0 /\ n = Len(frames) - 1
      <4>1. Top.who = "host"
        BY <1>1, <1>4, <3>2
      <4>2. (n + 1) \div 2 = Len(contexts)
        BY <1>1, <1>2, <1>4, <3>2, <4>1
      <4>3. LowEnd(Top) = Top.from
        BY <1>1, <4>1 DEF FrameOK, LowEnd
      <4>4. Len(frames) \in 2 .. Len(frames)
        BY <1>1
      <4>5. Top.from = LowEnd(frames[n])
        BY <1>0, <1>1, <3>2, <4>4 DEF StackOK
      <4> QED
        BY <1>1, <1>3, <1>5, <3>2, <4>1, <4>2, <4>3, <4>5
    <3> QED
      BY <1>3, <2>4, <3>1, <3>2
  <2> QED
    BY <2>1, <2>2, <2>3, <2>4 DEF StackOK
<1>9. ModeOK'
  <2>1. Context'.csr = Context.csr
    BY <1>5 DEF Context
  <2> QED
    BY <1>0, <2>1 DEF ModeOK
<1> QED
  BY <1>6, <1>7, <1>8, <1>9 DEF HookInv

(* A change of the variables of the host function on top, and of r1.       *)
LEMMA ChangeTop ==
    ASSUME HookInv, NEW frame \in FrameType, Top.who = "host",
           frame.who = "host", frame.from = Top.from, FrameOK(frame),
           frames' = Under(frame),
           contexts' = [contexts EXCEPT ![current].r1 = LowEnd(frame)],
           current' = current, mxcsr' = mxcsr, asked' = asked
    PROVE  HookInv'
<1> DEFINE S == [r1 : Int, csr : ModeType]
<1>0. HookTypeOK /\ TurnsOK /\ StackOK /\ ModeOK
  BY DEF HookInv
<1>1. /\ Len(frames) \in Nat \ {0} /\ frames # <<>> /\ Top = frames[Len(frames)]
      /\ Len(frames) % 2 # 1
      /\ Len(contexts) \in Nat \ {0} /\ Context = contexts[Len(contexts)] /\ Context \in S
  BY <1>0, TopOf
<1>2. /\ frames \in Seq(FrameType) /\ contexts \in Seq(S)
      /\ Len(contexts) = (Len(frames) + 1) \div 2 /\ current = Len(contexts)
  BY <1>0 DEF HookTypeOK, TurnsOK
<1>3. /\ frames' \in Seq(FrameType) /\ Len(frames') = Len(frames)
      /\ \A n \in 1 .. Len(frames) - 1 : frames'[n] = frames[n]
      /\ frames'[Len(frames)] = frame
  <2>1. /\ Front(frames) \in Seq(FrameType) /\ Len(Front(frames)) = Len(frames) - 1
        /\ \A n \in 1 .. Len(frames) - 1 : Front(frames)[n] = frames[n]
    BY <1>1, <1>2, FrontOf
  <2>2. frames' = Append(Front(frames), frame)
    BY DEF Under
  <2> QED
    BY <1>1, <2>1, <2>2
<1>4. /\ contexts' \in Seq(S) /\ Len(contexts') = Len(contexts)
      /\ \A k \in 1 .. Len(contexts) - 1 : contexts'[k] = contexts[k]
      /\ contexts'[Len(contexts)].r1 = LowEnd(frame)
      /\ contexts'[Len(contexts)].csr = Context.csr
  <2>1. [Context EXCEPT !.r1 = LowEnd(frame)] \in S
    BY <1>1, LowEndInt
  <2>2. contexts' = [contexts EXCEPT ![Len(contexts)] = [Context EXCEPT !.r1 = LowEnd(frame)]]
    BY <1>1, <1>2
  <2>3. /\ [Context EXCEPT !.r1 = LowEnd(frame)].r1 = LowEnd(frame)
        /\ [Context EXCEPT !.r1 = LowEnd(frame)].csr = Context.csr
    BY <1>1
  <2> HIDE DEF S
  <2> QED
    BY <1>1, <1>2, <2>1, <2>2, <2>3
<1>5. HookTypeOK'
  BY <1>0, <1>3, <1>4 DEF HookTypeOK
<1>6. ASSUME NEW n \in 1 .. Len(frames) PROVE n = Len(frames) \/ n \in 1 .. Len(frames) - 1
  BY <1>1
<1>7. ASSUME NEW n \in 1 .. Len(frames)
      PROVE  frames'[n].who = frames[n].who /\ frames'[n].from = frames[n].from
  BY <1>1, <1>3, <1>6
<1>8. TurnsOK'
  <2>1. \A n \in 1 .. Len(frames) : frames[n].who = IF n % 2 = 1 THEN "guest" ELSE "host"
    BY <1>0 DEF TurnsOK
  <2> QED
    BY <1>1, <1>2, <1>3, <1>4, <1>7, <2>1 DEF TurnsOK
<1>9. StackOK'
  <2>1. ASSUME NEW n \in 1 .. Len(frames') PROVE FrameOK(frames'[n])
    BY <1>0, <1>3, <1>6 DEF StackOK
  <2>2. ASSUME NEW n \in 2 .. Len(frames') PROVE frames'[n].from = LowEnd(frames'[n - 1])
    <3>1. n \in 1 .. Len(frames) /\ n - 1 \in 1 .. Len(frames) - 1 /\ n \in 2 .. Len(frames)
      BY <1>1, <1>3
    <3> QED
      BY <1>0, <1>3, <1>7, <3>1 DEF StackOK
  <2>3. ASSUME NEW n \in 1 .. Len(frames'), NEW m \in 1 .. Len(frames'), n < m
        PROVE  frames'[m].from <= LowEnd(frames'[n])
    <3>1. n \in 1 .. Len(frames) - 1 /\ n \in 1 .. Len(frames) /\ m \in 1 .. Len(frames)
      BY <1>1, <1>3, <2>3
    <3> QED
      BY <1>0, <1>3, <1>7, <2>3, <3>1 DEF StackOK
  <2>4. ASSUME NEW n \in 1 .. Len(frames'), n % 2 = 0 \/ n = Len(frames')
        PROVE  contexts'[(n + 1) \div 2].r1 = LowEnd(frames'[n])
    <3>1. CASE n = Len(frames)
      BY <1>2, <1>3, <1>4, <3>1
    <3>2. CASE n \in 1 .. Len(frames) - 1
      <4>1. n % 2 = 0
        BY <1>1, <1>3, <2>4, <3>2
      <4>2. (n + 1) \div 2 \in 1 .. Len(contexts) - 1
        <5>1. Len(frames) % 2 = 0 /\ n + 2 <= Len(frames) /\ Len(frames) \in Nat /\ n \in Nat /\ n >= 1
          BY <1>1, <3>2, <4>1
        <5>2. (n + 1) \div 2 >= 1 /\ (n + 1) \div 2 <= (Len(frames) + 1) \div 2 - 1
              /\ (n + 1) \div 2 \in Nat /\ (Len(frames) + 1) \div 2 \in Nat
          BY <4>1, <5>1
        <5> QED
          BY <1>2, <5>2
      <4>3. n \in 1 .. Len(frames)
        BY <1>3
      <4> QED
        BY <1>0, <1>3, <1>4, <3>2, <4>1, <4>2, <4>3 DEF StackOK
    <3> QED
      BY <1>3, <1>6, <3>1, <3>2
  <2> QED
    BY <2>1, <2>2, <2>3, <2>4 DEF StackOK
<1>10. ModeOK'
  <2>1. Context'.csr = Context.csr
    BY <1>2, <1>4 DEF Context
  <2> QED
    BY <1>0, <2>1 DEF ModeOK
<1> QED
  BY <1>5, <1>8, <1>9, <1>10 DEF HookInv

(* A change of the mode, in the processor and in the context.              *)
LEMMA ChangeMode ==
    ASSUME HookInv, NEW mode \in ModeType,
           contexts' = [contexts EXCEPT ![current].csr = mode], mxcsr' = mode,
           asked' \in ModeType, mode = [asked' EXCEPT !.round = GuestToHost[@]],
           frames' = frames, current' = current
    PROVE  HookInv'
<1> DEFINE S == [r1 : Int, csr : ModeType]
<1>0. HookTypeOK /\ TurnsOK /\ StackOK /\ ModeOK
  BY DEF HookInv
<1>1. /\ Len(contexts) \in Nat \ {0} /\ Context = contexts[Len(contexts)] /\ Context \in S
      /\ contexts \in Seq(S) /\ current = Len(contexts)
  BY <1>0, TopOf DEF HookTypeOK, TurnsOK
<1>2. /\ contexts' \in Seq(S) /\ Len(contexts') = Len(contexts)
      /\ \A k \in 1 .. Len(contexts) : contexts'[k].r1 = contexts[k].r1
      /\ contexts'[Len(contexts)].csr = mode
  <2>1. /\ [Context EXCEPT !.csr = mode] \in S /\ [Context EXCEPT !.csr = mode].csr = mode
        /\ [Context EXCEPT !.csr = mode].r1 = Context.r1
    BY <1>1
  <2>2. contexts' = [contexts EXCEPT ![Len(contexts)] = [Context EXCEPT !.csr = mode]]
    BY <1>1
  <2> HIDE DEF S
  <2> QED
    BY <1>1, <2>1, <2>2
<1>3. HookTypeOK' /\ TurnsOK'
  BY <1>0, <1>2 DEF HookTypeOK, TurnsOK
<1>4. StackOK'
  <2>1. ASSUME NEW n \in 1 .. Len(frames), n % 2 = 0 \/ n = Len(frames)
        PROVE  contexts'[(n + 1) \div 2].r1 = LowEnd(frames[n])
    <3>1. (n + 1) \div 2 \in 1 .. Len(contexts)
      <4>1. Len(contexts) = (Len(frames) + 1) \div 2 /\ Len(frames) \in Nat
        BY <1>0 DEF TurnsOK, HookTypeOK
      <4>2. n \in Nat /\ n >= 1 /\ n <= Len(frames)
        BY <4>1
      <4>3. (n + 1) \div 2 >= 1 /\ (n + 1) \div 2 <= (Len(frames) + 1) \div 2 /\ (n + 1) \div 2 \in Nat
        BY <4>1, <4>2
      <4> QED
        BY <1>1, <4>1, <4>3
    <3> QED
      BY <1>0, <1>2, <2>1, <3>1 DEF StackOK
  <2> QED
    BY <1>0, <2>1 DEF StackOK
<1>5. ModeOK'
  BY <1>1, <1>2 DEF ModeOK, Context
<1> QED
  BY <1>3, <1>4, <1>5 DEF HookInv

(* What a call of each kind puts on the stack.                             *)
LEMMA NewFrames ==
    ASSUME NEW r1 \in Int
    PROVE  /\ GuestFrame(r1) \in FrameType /\ FrameOK(GuestFrame(r1))
           /\ LowEnd(GuestFrame(r1)) = r1 - FrameSize
           /\ HostFrame(r1) \in FrameType /\ FrameOK(HostFrame(r1))
<1>1. <<>> \in Seq(Variable)
  OBVIOUS
<1> QED
  BY <1>1 DEF GuestFrame, HostFrame, FrameType, FrameOK, LowEnd, FrameSize

(* A variable below those that the function on top has.                    *)
LEMMA PushVariable ==
    ASSUME NEW frame \in FrameType, FrameOK(frame), frame.who = "host",
           NEW x \in Variable, x.old = LowEnd(frame), x.ptr + x.size <= x.old
    PROVE  LET longer == [frame EXCEPT !.variables = Append(@, x)]
           IN  /\ longer \in FrameType /\ FrameOK(longer) /\ LowEnd(longer) = x.ptr
               /\ longer.who = "host" /\ longer.from = frame.from
<1> DEFINE old == frame.variables
           longer == [frame EXCEPT !.variables = Append(@, x)]
<1>1. /\ old \in Seq(Variable) /\ frame.bottom \in Int /\ frame.from \in Int
      /\ x.ptr \in Int /\ x.size \in {1, 2} /\ LowEnd(frame) \in Int
  BY LowEndInt DEF FrameType, Variable
<1>0. x.ptr <= LowEnd(frame)
  BY <1>1
<1>2. /\ longer.who = "host" /\ longer.from = frame.from /\ longer.bottom = frame.bottom
      /\ longer.variables = Append(old, x) /\ longer \in FrameType
  <2>1. Append(old, x) \in Seq(Variable)
    BY <1>1
  <2> QED
    BY <1>1, <2>1 DEF FrameType
<1>3. /\ Len(longer.variables) = Len(old) + 1 /\ longer.variables # <<>>
      /\ longer.variables[Len(old) + 1] = x
      /\ \A v \in 1 .. Len(old) : longer.variables[v] = old[v] /\ old[v] \in Variable
  BY <1>1, <1>2
<1>4. LowEnd(longer) = x.ptr
  BY <1>3 DEF LowEnd, Last
<1>5. ASSUME NEW v \in 1 .. Len(old) + 1
      PROVE  LET y == longer.variables[v] IN
               /\ y.ptr + y.size <= y.old /\ y.old <= frame.bottom /\ x.ptr <= y.ptr
               /\ y.old = IF v = 1 THEN frame.bottom ELSE longer.variables[v - 1].ptr
               /\ \A w \in 1 .. v - 1 : y.old <= longer.variables[w].ptr
  <2>1. CASE v \in 1 .. Len(old)
    <3>1. /\ old[v].ptr + old[v].size <= old[v].old /\ old[v].old <= frame.bottom
          /\ LowEnd(frame) <= old[v].ptr
          /\ old[v].old = IF v = 1 THEN frame.bottom ELSE old[v - 1].ptr
          /\ \A w \in 1 .. v - 1 : old[v].old <= old[w].ptr
      BY <2>1 DEF FrameOK
    <3>6. old[v].ptr \in Int
      BY <1>3, <2>1 DEF Variable
    <3>2. x.ptr <= old[v].ptr
      BY <1>0, <1>1, <3>1, <3>6
    <3>3. longer.variables[v] = old[v]
      BY <1>3, <2>1
    <3>4. \A w \in 1 .. v - 1 : w \in 1 .. Len(old) /\ longer.variables[w] = old[w]
      BY <1>1, <1>3, <2>1
    <3>5. v # 1 => v - 1 \in 1 .. v - 1
      BY <1>1, <2>1
    <3> QED
      BY <3>1, <3>2, <3>3, <3>4, <3>5
  <2>2. CASE v = Len(old) + 1
    <3>1. x.ptr <= x.ptr /\ x.old <= frame.bottom
      BY <1>1 DEF FrameOK
    <3>2. x.old = IF v = 1 THEN frame.bottom ELSE longer.variables[v - 1].ptr
      BY <1>1, <1>3, <2>2 DEF LowEnd, Last
    <3>3. \A w \in 1 .. v - 1 : x.old <= longer.variables[w].ptr
      BY <1>1, <1>3, <2>2 DEF FrameOK
    <3> QED
      BY <1>3, <2>2, <3>1, <3>2, <3>3
  <2> QED
    BY <1>1, <2>1, <2>2, SMTT(20)
<1>6. x.ptr <= frame.bottom
  BY <1>1 DEF FrameOK
<1>7. FrameOK(longer)
  <2>1. \A v \in 1 .. Len(longer.variables) :
          LET y == longer.variables[v] IN
            /\ y.ptr + y.size <= y.old /\ y.old <= longer.bottom /\ LowEnd(longer) <= y.ptr
            /\ y.old = IF v = 1 THEN longer.bottom ELSE longer.variables[v - 1].ptr
            /\ \A w \in 1 .. v - 1 : y.old <= longer.variables[w].ptr
    BY <1>2, <1>3, <1>4, <1>5
  <2> HIDE DEF longer
  <2> QED
    BY <1>2, <1>4, <1>6, <2>1 DEF FrameOK
<1> QED
  BY <1>2, <1>4, <1>7

(* The last variable of the function on top taken away.                    *)
LEMMA PopVariable ==
    ASSUME NEW frame \in FrameType, FrameOK(frame), frame.who = "host", frame.variables # <<>>
    PROVE  LET shorter == [frame EXCEPT !.variables = Front(@)]
           IN  /\ shorter \in FrameType /\ FrameOK(shorter)
               /\ LowEnd(shorter) = Last(frame.variables).old
               /\ shorter.who = "host" /\ shorter.from = frame.from
<1> DEFINE old == frame.variables
           x == Last(old)
           shorter == [frame EXCEPT !.variables = Front(@)]
<1>1. old \in Seq(Variable) /\ frame.bottom \in Int
  BY DEF FrameType
<1>2. /\ Len(old) \in Nat \ {0} /\ x = old[Len(old)] /\ x \in Variable
      /\ Front(old) \in Seq(Variable) /\ Len(Front(old)) = Len(old) - 1
      /\ \A v \in 1 .. Len(old) - 1 : Front(old)[v] = old[v]
  BY <1>1, FrontOf
<1>3. /\ shorter.who = "host" /\ shorter.from = frame.from /\ shorter.bottom = frame.bottom
      /\ shorter.variables = Front(old) /\ shorter \in FrameType
  BY <1>2 DEF FrameType
<1>4. /\ x.old <= frame.bottom
      /\ x.old = IF Len(old) = 1 THEN frame.bottom ELSE old[Len(old) - 1].ptr
      /\ \A w \in 1 .. Len(old) - 1 : x.old <= old[w].ptr
  <2>1. Len(old) \in 1 .. Len(old)
    BY <1>2
  <2> HIDE DEF old
  <2>2. /\ old[Len(old)].old <= frame.bottom
        /\ old[Len(old)].old = IF Len(old) = 1 THEN frame.bottom ELSE old[Len(old) - 1].ptr
        /\ \A w \in 1 .. Len(old) - 1 : old[Len(old)].old <= old[w].ptr
    BY <2>1 DEF FrameOK, old
  <2> QED
    BY <1>2, <2>2
<1>5. LowEnd(shorter) = x.old
  <2>1. CASE Len(old) = 1
    <3>1. Front(old) = <<>>
      BY <1>2, <2>1, EmptySeq
    <3> QED
      BY <1>3, <1>4, <2>1, <3>1 DEF LowEnd
  <2>2. CASE Len(old) # 1
    <3>1. Front(old) # <<>> /\ Last(Front(old)) = old[Len(old) - 1]
      <4>1. Len(old) \in Nat \ {0} /\ Len(old) # 1
        BY <1>2, <2>2
      <4> HIDE DEF old
      <4>2. Len(old) - 1 \in 1 .. Len(old) - 1 /\ Len(old) - 1 # 0
        BY <4>1
      <4>3. Len(Front(old)) = Len(old) - 1 /\ Front(old)[Len(old) - 1] = old[Len(old) - 1]
        BY <1>2, <4>2 DEF old
      <4> QED
        BY <4>2, <4>3, Len(<<>>) = 0 DEF Last
    <3> QED
      BY <1>3, <1>4, <2>2, <3>1 DEF LowEnd
  <2> QED
    BY <2>1, <2>2
<1>6. ASSUME NEW v \in 1 .. Len(Front(old))
      PROVE  LET y == Front(old)[v] IN
               /\ y.ptr + y.size <= y.old /\ y.old <= frame.bottom /\ x.old <= y.ptr
               /\ y.old = IF v = 1 THEN frame.bottom ELSE Front(old)[v - 1].ptr
               /\ \A w \in 1 .. v - 1 : y.old <= Front(old)[w].ptr
  <2>1. v \in 1 .. Len(old) /\ v \in 1 .. Len(old) - 1
    BY <1>2
  <2>2. /\ old[v].ptr + old[v].size <= old[v].old /\ old[v].old <= frame.bottom
        /\ old[v].old = IF v = 1 THEN frame.bottom ELSE old[v - 1].ptr
        /\ \A w \in 1 .. v - 1 : old[v].old <= old[w].ptr
    BY <2>1 DEF FrameOK
  <2>3. \A w \in 1 .. v - 1 : w \in 1 .. Len(old) - 1 /\ Front(old)[w] = old[w]
    <3>1. Len(old) \in Nat /\ \A w \in 1 .. Len(old) - 1 : Front(old)[w] = old[w]
      BY <1>2
    <3> HIDE DEF old
    <3>2. \A w \in 1 .. v - 1 : w \in 1 .. Len(old) - 1
      BY <2>1, <3>1
    <3> QED
      BY <3>1, <3>2
  <2>4. v # 1 => v - 1 \in 1 .. v - 1
    BY <1>2, <2>1
  <2> QED
    BY <1>2, <1>4, <2>1, <2>2, <2>3, <2>4
<1>7. FrameOK(shorter)
  BY <1>3, <1>4, <1>5, <1>6 DEF FrameOK
<1> QED
  BY <1>3, <1>5, <1>7

(* Calls, returns, variables and changes of the mode keep the invariant.   *)
LEMMA NextHookInv == HookInv /\ [HookNext]_hookVars => HookInv'
<1> SUFFICES ASSUME HookInv, [HookNext]_hookVars PROVE HookInv'
  OBVIOUS
<1>0. HookTypeOK /\ TurnsOK /\ StackOK /\ ModeOK
  BY DEF HookInv
<1>a. /\ Len(frames) \in Nat \ {0} /\ Top = frames[Len(frames)] /\ Top \in FrameType /\ FrameOK(Top)
      /\ Top.who = (IF Len(frames) % 2 = 1 THEN "guest" ELSE "host")
      /\ Len(contexts) \in Nat \ {0} /\ Context = contexts[Len(contexts)]
      /\ Context \in [r1 : Int, csr : ModeType] /\ Context.r1 = LowEnd(Top) /\ Context.r1 \in Int
  BY <1>0, TopOf
<1>b. /\ mxcsr \in ModeType /\ asked \in ModeType /\ Context.csr = mxcsr
      /\ mxcsr = [asked EXCEPT !.round = GuestToHost[@]] /\ current = Len(contexts)
      /\ contexts \in Seq([r1 : Int, csr : ModeType])
  BY <1>0 DEF HookTypeOK, ModeOK, TurnsOK
<1>c. Top.who \in {"guest", "host"} /\ (Top.who = "host" => Len(frames) > 1)
  BY <1>a
<1>1. ASSUME NEW flush \in {mode.flush : mode \in Modes}, FlushMode(flush) PROVE HookInv'
  <2>1. flush \in BOOLEAN
    BY ModesAssumption
  <2>2. CASE Context.csr.flush # flush
    <3> DEFINE mode == [Context.csr EXCEPT !.flush = flush]
    <3>1. mode \in ModeType /\ asked' \in ModeType /\ mode = [asked' EXCEPT !.round = GuestToHost[@]]
      BY <1>1, <1>b, <2>1 DEF FlushMode, ModeType
    <3>2. contexts' = [contexts EXCEPT ![current].csr = mode]
      BY <1>1, <1>a, <1>b, <2>2 DEF FlushMode
    <3> QED
      BY <1>1, <2>2, <3>1, <3>2, ChangeMode DEF FlushMode
  <2>3. CASE Context.csr.flush = flush
    <3>1. asked' = asked
      BY <1>1, <1>b, <2>3 DEF FlushMode, ModeType
    <3> QED
      BY <1>1, <2>3, <3>1 DEF FlushMode, HookInv, HookTypeOK, TurnsOK, StackOK, ModeOK, Context
  <2> QED
    BY <2>2, <2>3
<1>2. ASSUME NEW round \in DOMAIN GuestToHost, storeFromGuest(round) PROVE HookInv'
  <2> DEFINE mode == [Context.csr EXCEPT !.round = GuestToHost[round]]
  <2>1. round \in 0 .. 3 /\ GuestToHost[round] \in 0 .. 3
    BY RoundingModes
  <2>2. mode \in ModeType /\ asked' \in ModeType /\ mode = [asked' EXCEPT !.round = GuestToHost[@]]
    BY <1>2, <1>b, <2>1 DEF storeFromGuest, ModeType
  <2>3. contexts' = [contexts EXCEPT ![current].csr = mode]
    BY <1>2, <1>a, <1>b DEF storeFromGuest
  <2> QED
    BY <1>2, <2>2, <2>3, ChangeMode DEF storeFromGuest
<1>3. ASSUME loadFromHost PROVE HookInv'
  <2>1. contexts' = [contexts EXCEPT ![current].csr = mxcsr]
    BY <1>3 DEF loadFromHost
  <2> QED
    BY <1>3, <1>b, <2>1, ChangeMode DEF loadFromHost
<1>4. ASSUME NEW call \in Calls, HostToGuestFunction(call) PROVE HookInv'
  <2> DEFINE frame == HostFrame(Context.r1)
  <2>1. frame.who = "host" /\ frame.variables = <<>> /\ frame.from = LowEnd(Top)
    BY <1>a DEF HostFrame
  <2> QED
    BY <1>4, <1>a, <2>1, NewFrames, PushFrame DEF HostToGuestFunction
<1>5. ASSUME NEW call \in Calls, GuestToHostFunction(call) PROVE HookInv'
  <2> DEFINE frame == GuestFrame(Context.r1)
  <2>1. frame.who = "guest" /\ frame.variables = <<>> /\ frame.from = LowEnd(Top)
    BY <1>a DEF GuestFrame
  <2>2. frame \in FrameType /\ FrameOK(frame) /\ LowEnd(frame) = Context.r1 - FrameSize
    BY <1>a, NewFrames
  <2> QED
    BY <1>5, <2>1, <2>2, PushFrame DEF GuestToHostFunction
<1>6. ASSUME NEW result \in Results, HostReturns(result) PROVE HookInv'
  BY <1>6, <1>c, PopFrame DEF HostReturns
<1>7. ASSUME NEW result \in Results, GuestReturns(result) PROVE HookInv'
  <2>1. Top.variables = <<>>
    BY <1>7, <1>a DEF GuestReturns, FrameOK
  <2> QED
    BY <1>7, <2>1, PopFrame DEF GuestReturns
<1>8. ASSUME NEW size \in 1 .. 2, NEW align \in {1, 2}, AllocGuestStackMemory(size, align) PROVE HookInv'
  <2> DEFINE ptr == ((Context.r1 - size) \div align) * align
             x == [ptr |-> ptr, size |-> size, old |-> Context.r1]
             frame == [Top EXCEPT !.variables = Append(@, x)]
  <2>1. ptr \in Int /\ ptr + size <= Context.r1
    <3>1. CASE align = 1
      BY <1>a, <3>1
    <3>2. CASE align = 2
      BY <1>a, <3>2
    <3> QED
      BY <3>1, <3>2
  <2>2. x \in Variable /\ x.old = LowEnd(Top) /\ x.ptr + x.size <= x.old
    BY <1>a, <2>1 DEF Variable
  <2>3. Top.who = "host" /\ frames' = Under(frame) /\ contexts' = [contexts EXCEPT ![current].r1 = ptr]
    BY <1>8 DEF AllocGuestStackMemory
  <2>4. /\ frame \in FrameType /\ FrameOK(frame) /\ LowEnd(frame) = ptr
        /\ frame.who = "host" /\ frame.from = Top.from
    BY <1>a, <2>2, <2>3, PushVariable
  <2> QED
    BY <1>8, <2>3, <2>4, ChangeTop DEF AllocGuestStackMemory
<1>9. CASE ReleaseGuestStackMemory
  <2> DEFINE frame == [Top EXCEPT !.variables = Front(@)]
  <2>1. /\ Top.who = "host" /\ Top.variables # <<>> /\ frames' = Under(frame)
        /\ contexts' = [contexts EXCEPT ![current].r1 = Last(Top.variables).old]
    BY <1>9 DEF ReleaseGuestStackMemory
  <2>2. /\ frame \in FrameType /\ FrameOK(frame) /\ LowEnd(frame) = Last(Top.variables).old
        /\ frame.who = "host" /\ frame.from = Top.from
    BY <1>a, <2>1, PopVariable
  <2> QED
    BY <1>9, <2>1, <2>2, ChangeTop DEF ReleaseGuestStackMemory
<1>10. CASE UNCHANGED hookVars
  BY <1>10 DEF hookVars, HookInv, HookTypeOK, TurnsOK, StackOK, ModeOK, Context
<1> QED
  BY <1>1, <1>2, <1>3, <1>4, <1>5, <1>6, <1>7, <1>8, <1>9, <1>10 DEF HookNext

(* The invariant of the calls.                                             *)
LEMMA SpecHookInv == HookSpec => []HookInv
<1> QED
  BY InitHookInv, NextHookInv, PTL DEF HookSpec

(* The parts of the stack are apart: those of a frame from one another and *)
(* from those of the frames below it.                                      *)
LEMMA ExtentsApart ==
    ASSUME HookInv, NEW a \in Extents, NEW b \in Extents, a.owner # b.owner
    PROVE  a.high <= b.low \/ b.high <= a.low
<1> DEFINE FrameExtent(n) == [low |-> frames[n].bottom, high |-> frames[n].from, owner |-> <<n, 0>>]
           VarExtent(n, v) == [low |-> frames[n].variables[v].ptr,
                               high |-> frames[n].variables[v].ptr + frames[n].variables[v].size,
                               owner |-> <<n, v>>]
           ExtentOf(n, v) == IF v = 0 THEN FrameExtent(n) ELSE VarExtent(n, v)
<1>0. /\ frames \in Seq(FrameType) /\ Len(frames) \in Nat /\ StackOK
      /\ \A n \in 1 .. Len(frames) : frames[n] \in FrameType
  BY DEF HookInv, HookTypeOK
<1>1. ASSUME NEW n \in 1 .. Len(frames)
      PROVE  /\ frames[n].bottom \in Int /\ frames[n].from \in Int /\ LowEnd(frames[n]) \in Int
             /\ frames[n].bottom <= frames[n].from /\ LowEnd(frames[n]) <= frames[n].bottom
             /\ frames[n].variables \in Seq(Variable) /\ Len(frames[n].variables) \in Nat
             /\ \A v \in 1 .. Len(frames[n].variables) : frames[n].variables[v] \in Variable
  <2>1. frames[n] \in FrameType /\ FrameOK(frames[n])
    BY <1>0 DEF StackOK
  <2>2. frames[n].variables \in Seq(Variable) /\ frames[n].who \in {"guest", "host"}
        /\ frames[n].bottom \in Int /\ frames[n].from \in Int
    BY <2>1 DEF FrameType
  <2>3. frames[n].bottom <= frames[n].from /\ LowEnd(frames[n]) <= frames[n].bottom
    BY <2>1, <2>2 DEF FrameOK
  <2> QED
    BY <2>1, <2>2, <2>3, LowEndInt
<1>2. ASSUME NEW n \in 1 .. Len(frames), NEW v \in 0 .. Len(frames[n].variables)
      PROVE  /\ ExtentOf(n, v).low \in Int /\ ExtentOf(n, v).high \in Int
             /\ LowEnd(frames[n]) <= ExtentOf(n, v).low /\ ExtentOf(n, v).high <= frames[n].from
             /\ v # 0 => ExtentOf(n, v).high <= frames[n].bottom
             /\ \A w \in 1 .. v - 1 : ExtentOf(n, v).high <= ExtentOf(n, w).low
             /\ ExtentOf(n, 0).low = frames[n].bottom
  <2>1. CASE v = 0
    BY <1>1, <2>1
  <2>2. CASE v # 0
    <3> DEFINE x == frames[n].variables[v]
    <3>1. v \in 1 .. Len(frames[n].variables)
      BY <1>1, <2>2
    <3>2. /\ x.ptr + x.size <= x.old /\ x.old <= frames[n].bottom /\ LowEnd(frames[n]) <= x.ptr
          /\ \A w \in 1 .. v - 1 : x.old <= frames[n].variables[w].ptr
      BY <1>0, <3>1 DEF StackOK, FrameOK
    <3>3. /\ x.ptr \in Int /\ x.size \in Int /\ x.old \in Int
          /\ \A w \in 1 .. v - 1 : w # 0 /\ frames[n].variables[w].ptr \in Int
      <4>1. \A w \in 1 .. v - 1 : w # 0 /\ w \in 1 .. Len(frames[n].variables)
        BY <1>1, <3>1
      <4>3. ASSUME NEW y \in Variable PROVE y.ptr \in Int /\ y.size \in Int /\ y.old \in Int
        BY DEF Variable
      <4>2. \A w \in 1 .. Len(frames[n].variables) :
              /\ frames[n].variables[w].ptr \in Int /\ frames[n].variables[w].size \in Int
              /\ frames[n].variables[w].old \in Int
        BY <1>1, <4>3
      <4> QED
        BY <3>1, <4>1, <4>2
    <3>4. ExtentOf(n, v).low = x.ptr /\ ExtentOf(n, v).high = x.ptr + x.size
          /\ \A w \in 1 .. v - 1 : ExtentOf(n, w).low = frames[n].variables[w].ptr
      BY <2>2, <3>3
    <3>5. x.ptr + x.size <= frames[n].bottom /\ x.ptr + x.size <= frames[n].from
          /\ \A w \in 1 .. v - 1 : x.ptr + x.size <= frames[n].variables[w].ptr
      <4> HIDE DEF x
      <4>1. frames[n].bottom \in Int /\ frames[n].from \in Int /\ frames[n].bottom <= frames[n].from
        BY <1>1
      <4>2. ASSUME NEW w \in 1 .. v - 1 PROVE x.ptr + x.size <= frames[n].variables[w].ptr
        BY <3>2, <3>3
      <4> QED
        BY <3>2, <3>3, <4>1, <4>2, SMTT(20)
    <3> QED
      BY <1>1, <3>2, <3>3, <3>4, <3>5, SMTT(20)
  <2> QED
    BY <2>1, <2>2
<1>3. ASSUME NEW e \in Extents
      PROVE  \E n \in 1 .. Len(frames) : \E v \in 0 .. Len(frames[n].variables) :
               e = ExtentOf(n, v) /\ e.owner = <<n, v>>
  <2>1. PICK n \in DOMAIN frames :
          e \in {FrameExtent(n)} \cup {VarExtent(n, v) : v \in DOMAIN frames[n].variables}
    BY DEF Extents
  <2>2. n \in 1 .. Len(frames) /\ DOMAIN frames[n].variables = 1 .. Len(frames[n].variables)
    BY <1>0, <1>1, <2>1
  <2>3. CASE e = FrameExtent(n)
    <3>1. 0 \in 0 .. Len(frames[n].variables) /\ e = ExtentOf(n, 0) /\ e.owner = <<n, 0>>
      BY <1>1, <2>2, <2>3
    <3> QED
      BY <2>2, <3>1
  <2>4. ASSUME NEW v \in DOMAIN frames[n].variables, e = VarExtent(n, v)
        PROVE  \E w \in 0 .. Len(frames[n].variables) : e = ExtentOf(n, w) /\ e.owner = <<n, w>>
    <3>1. v \in 0 .. Len(frames[n].variables) /\ v # 0
      BY <1>1, <2>2
    <3>2. e = ExtentOf(n, v) /\ e.owner = <<n, v>>
      BY <2>4, <3>1
    <3> QED
      BY <3>1, <3>2
  <2> QED
    BY <2>1, <2>2, <2>3, <2>4
<1>4a. PICK n \in 1 .. Len(frames) :
         \E v \in 0 .. Len(frames[n].variables) : a = ExtentOf(n, v) /\ a.owner = <<n, v>>
  BY <1>3
<1>4. PICK v \in 0 .. Len(frames[n].variables) : a = ExtentOf(n, v) /\ a.owner = <<n, v>>
  BY <1>4a
<1>5a. PICK m \in 1 .. Len(frames) :
         \E w \in 0 .. Len(frames[m].variables) : b = ExtentOf(m, w) /\ b.owner = <<m, w>>
  BY <1>3
<1>5. PICK w \in 0 .. Len(frames[m].variables) : b = ExtentOf(m, w) /\ b.owner = <<m, w>>
  BY <1>5a
<1> HIDE DEF ExtentOf
<1>6. ASSUME NEW k \in 1 .. Len(frames), NEW l \in 1 .. Len(frames), k < l,
             NEW x \in 0 .. Len(frames[k].variables), NEW y \in 0 .. Len(frames[l].variables)
      PROVE  ExtentOf(l, y).high <= ExtentOf(k, x).low
  <2>1. frames[l].from <= LowEnd(frames[k])
    BY <1>0, <1>6 DEF StackOK
  <2>2. /\ ExtentOf(l, y).high \in Int /\ ExtentOf(l, y).high <= frames[l].from
        /\ ExtentOf(k, x).low \in Int /\ LowEnd(frames[k]) <= ExtentOf(k, x).low
    BY <1>2
  <2>3. frames[l].from \in Int /\ LowEnd(frames[k]) \in Int
    BY <1>1
  <2> QED
    BY <2>1, <2>2, <2>3
<1>7. CASE n = m
  <2>1. v # w /\ v \in Nat /\ w \in Nat
    BY <1>1, <1>4, <1>5, <1>7
  <2>2. ASSUME NEW x \in 0 .. Len(frames[n].variables), NEW y \in 0 .. Len(frames[n].variables), x < y
        PROVE  ExtentOf(n, y).high <= ExtentOf(n, x).low
    <3>1. x = 0 \/ x \in 1 .. y - 1
      BY <1>1, <2>2
    <3>2. y # 0
      BY <1>1, <2>2
    <3> QED
      BY <1>2, <3>1, <3>2
  <2> QED
    BY <1>1, <1>4, <1>5, <1>7, <2>1, <2>2
<1>8. CASE n # m
  BY <1>0, <1>4, <1>5, <1>6, <1>8
<1> QED
  BY <1>7, <1>8

(* However host and guest functions call one another, the extents of frames *)
(* and stack variables are apart, the mode of the processor is what the    *)
(* guest asked for last, and a function that returns finds r1 where it was. *)
THEOREM NestedCallsAreApart == HookSpec => []CallsNest
<1>1. HookInv => CallsNest
  <2> SUFFICES ASSUME HookInv PROVE CallsNest
    OBVIOUS
  <2>1. /\ mxcsr = [asked EXCEPT !.round = GuestToHost[@]] /\ Context.csr = mxcsr
        /\ current = Len(contexts)
    BY DEF HookInv, ModeOK, TurnsOK
  <2>2. Top.who = "guest" => Context.r1 = Top.bottom
    BY TopOf DEF HookInv, FrameOK, LowEnd
  <2> QED
    BY <2>1, <2>2, ExtentsApart DEF CallsNest
<1> QED
  BY <1>1, SpecHookInv, PTL

-----------------------------------------------------------------------------
(* Arguments.                                                              *)
Kinds == {"int", "float", "pointer"}

(* Of two floats the later one has more floats before it.                  *)
LEMMA FloatsInOrder ==
    ASSUME NEW kinds \in Seq(Kinds), NEW b \in 0 .. Len(kinds) - 1
    PROVE  LET Floats(n) == {j \in 0 .. n - 1 : kinds[j + 1] = "float"}
           IN  /\ Cardinality(Floats(b)) \in Nat
               /\ \A a \in 0 .. b - 1 : kinds[a + 1] = "float" =>
                     Cardinality(Floats(a)) < Cardinality(Floats(b))
<1> DEFINE Floats(n) == {j \in 0 .. n - 1 : kinds[j + 1] = "float"}
<1>0. b \in Nat
  BY SMT
<1>1. ASSUME NEW n \in Nat PROVE IsFiniteSet(Floats(n)) /\ Cardinality(Floats(n)) \in Nat
  <2>1. IsFiniteSet(0 .. n - 1)
    BY FS_Interval
  <2>2. IsFiniteSet(Floats(n))
    BY <2>1, FS_Subset
  <2> QED
    BY <2>2, FS_CardinalityType
<1>2. ASSUME NEW a \in 0 .. b - 1, kinds[a + 1] = "float"
      PROVE  Cardinality(Floats(a)) < Cardinality(Floats(b))
  <2>1. a \in Nat /\ a < b
    BY <1>0, SMT
  <2>2. a \notin Floats(a) /\ Floats(a) \cup {a} \subseteq Floats(b)
    BY <1>0, <1>2, <2>1, SMT
  <2> DEFINE S == Floats(a)
             T == Floats(b)
  <2>3. IsFiniteSet(S) /\ Cardinality(S) \in Nat /\ IsFiniteSet(T) /\ Cardinality(T) \in Nat
    BY <1>0, <1>1, <2>1
  <2>4. a \notin S /\ S \cup {a} \subseteq T
    BY <2>2
  <2> HIDE DEF S, T
  <2>5. Cardinality(S \cup {a}) = Cardinality(S) + 1
    BY <2>3, <2>4, FS_AddElement
  <2>6. Cardinality(S \cup {a}) <= Cardinality(T)
    BY <2>3, <2>4, FS_Subset
  <2>7. Cardinality(S) < Cardinality(T)
    BY <2>3, <2>5, <2>6, SMT
  <2> QED
    BY <2>7 DEF S, T
<1> QED
  BY <1>0, <1>1, <1>2

(* The numbers that the convention and GatherFunctionArguments go by.      *)
LEMMA Ordinals ==
    ASSUME NEW kinds \in Seq(Kinds), NEW i \in DOMAIN kinds
    PROVE  /\ i \in Nat /\ i - 1 \in 0 .. Len(kinds) - 1 /\ i - 1 + 1 = i
           /\ kinds[i] \in Kinds
           /\ GatherFunctionArguments(kinds, i - 1) \in Nat
           /\ kinds[i] = "float" => \A j \in DOMAIN kinds :
                kinds[j] = "float" /\ j # i =>
                  GatherFunctionArguments(kinds, j - 1) # GatherFunctionArguments(kinds, i - 1)
<1> DEFINE Floats(n) == {j \in 0 .. n - 1 : kinds[j + 1] = "float"}
<1>1. ASSUME NEW j \in DOMAIN kinds
      PROVE  j \in Nat /\ j - 1 \in 0 .. Len(kinds) - 1 /\ j - 1 + 1 = j /\ kinds[j] \in Kinds
  OBVIOUS
<1>2. ASSUME NEW j \in DOMAIN kinds
      PROVE  /\ Cardinality(Floats(j - 1)) \in Nat
             /\ \A a \in 0 .. j - 1 - 1 : kinds[a + 1] = "float" =>
                   Cardinality(Floats(a)) < Cardinality(Floats(j - 1))
  <2> DEFINE b == j - 1
  <2>1. b \in 0 .. Len(kinds) - 1
    BY <1>1
  <2> HIDE DEF b
  <2>2. /\ Cardinality(Floats(b)) \in Nat
        /\ \A a \in 0 .. b - 1 : kinds[a + 1] = "float" => Cardinality(Floats(a)) < Cardinality(Floats(b))
    BY <2>1, FloatsInOrder
  <2> QED
    BY <2>2 DEF b
<1>3. ASSUME NEW j \in DOMAIN kinds, kinds[j] = "float"
      PROVE  GatherFunctionArguments(kinds, j - 1) = Cardinality(Floats(j - 1))
  <2>1. kinds[j - 1 + 1] = "float"
    BY <1>1, <1>3
  <2> QED
    BY <2>1, Zenon DEF GatherFunctionArguments
<1>4. ASSUME NEW j \in DOMAIN kinds, NEW k \in DOMAIN kinds, kinds[j] = "float", j < k
      PROVE  Cardinality(Floats(j - 1)) < Cardinality(Floats(k - 1))
  <2>1. j - 1 \in 0 .. k - 1 - 1
    <3>1. j \in Nat /\ k \in Nat /\ j - 1 \in 0 .. Len(kinds) - 1 /\ j < k /\ Len(kinds) \in Nat
      BY <1>1, <1>4
    <3> QED
      BY <3>1, SMT
  <2>2. kinds[j - 1 + 1] = "float"
    BY <1>1, <1>4
  <2> QED
    BY <1>2, <2>1, <2>2
<1>5. GatherFunctionArguments(kinds, i - 1) \in Nat
  <2>1. CASE kinds[i] = "float"
    BY <1>2, <1>3, <2>1
  <2>2. CASE kinds[i] # "float"
    <3>1. GatherFunctionArguments(kinds, i - 1) = i - 1
      BY <1>1, <2>2 DEF GatherFunctionArguments
    <3> QED
      BY <1>1, <3>1
  <2> QED
    BY <2>1, <2>2
<1>6. ASSUME NEW j \in DOMAIN kinds, kinds[i] = "float", kinds[j] = "float", j # i
      PROVE  GatherFunctionArguments(kinds, j - 1) # GatherFunctionArguments(kinds, i - 1)
  <2>1. j < i \/ i < j
    BY <1>1, <1>6
  <2>2. Cardinality(Floats(j - 1)) # Cardinality(Floats(i - 1))
    <3>1. Cardinality(Floats(j - 1)) \in Nat /\ Cardinality(Floats(i - 1)) \in Nat
      BY <1>2
    <3>2. \/ Cardinality(Floats(j - 1)) < Cardinality(Floats(i - 1))
          \/ Cardinality(Floats(i - 1)) < Cardinality(Floats(j - 1))
      BY <1>4, <1>6, <2>1
    <3> HIDE DEF Floats
    <3> QED
      BY <3>1, <3>2
  <2> QED
    BY <1>3, <1>6, <2>2
<1> QED
  BY <1>1, <1>5, <1>6

(* Where the host looks for an argument is where the convention puts it;   *)
(* a float that the host does not look for is the exception.               *)
LEMMA HostKnowsThePlace ==
    ASSUME NEW kinds \in Seq(Kinds), NEW i \in DOMAIN kinds
    PROVE  LET n == GatherFunctionArguments(kinds, i - 1)
               place == ConventionalPlace(kinds, i - 1)
           IN  /\ n \in Nat
               /\ kinds[i] = "float" =>
                    /\ n <= 12 => place = <<"f", n + 1>> /\ Place(kinds[i], n) = place
                    /\ n > 12 => place = <<"stack", i - 9>> /\ Place(kinds[i], n) = Nowhere
               /\ kinds[i] # "float" =>
                    /\ n = i - 1 /\ Place(kinds[i], n) = place
                    /\ i <= 8 => place = <<"r", i + 2>>
                    /\ i > 8 => place = <<"stack", i - 9>>
<1> DEFINE n == GatherFunctionArguments(kinds, i - 1)
<1>1. i \in Nat /\ i > 0 /\ i - 1 + 1 = i /\ kinds[i] \in Kinds /\ n \in Nat
  BY Ordinals
<1>2. kinds[i - 1 + 1] = kinds[i]
  BY <1>1
<1>3. i - 1 + 3 = i + 2 /\ i - 1 - 8 = i - 9 /\ (i - 1 < 8 <=> i <= 8) /\ (i - 1 <= 7 <=> i <= 8)
      /\ (n < 13 <=> n <= 12) /\ (n <= 12 <=> ~(n > 12)) /\ (i <= 8 <=> ~(i > 8))
  <2> HIDE DEF n
  <2> QED
    BY <1>1
<1>4. CASE kinds[i] = "float"
  <2>1. n = Cardinality({j \in 0 .. i - 1 - 1 : kinds[j + 1] = "float"})
    BY <1>2, <1>4, Zenon DEF GatherFunctionArguments
  <2>2. ConventionalPlace(kinds, i - 1) = IF n < 13 THEN <<"f", n + 1>> ELSE <<"stack", i - 1 - 8>>
    BY <1>2, <1>4, <2>1 DEF ConventionalPlace
  <2>3. Place(kinds[i], n) = IF n <= 12 THEN <<"f", n + 1>> ELSE Nowhere
    BY <1>4 DEF Place
  <2> HIDE DEF n
  <2> QED
    BY <1>1, <1>3, <1>4, <2>2, <2>3 DEF n
<1>5. CASE kinds[i] # "float"
  <2>1. n = i - 1
    BY <1>2, <1>5, Zenon DEF GatherFunctionArguments
  <2>2. ConventionalPlace(kinds, i - 1) = IF i - 1 < 8 THEN <<"r", i - 1 + 3>> ELSE <<"stack", i - 1 - 8>>
    BY <1>2, <1>5 DEF ConventionalPlace
  <2>3. Place(kinds[i], n) = IF i - 1 <= 7 THEN <<"r", i - 1 + 3>> ELSE <<"stack", i - 1 - 8>>
    BY <1>5, <2>1 DEF Place
  <2> HIDE DEF n
  <2> QED
    BY <1>1, <1>3, <1>5, <2>1, <2>2, <2>3 DEF n
<1> QED
  BY <1>4, <1>5, <1>1

(* No two arguments have one place.                                        *)
LEMMA PlacesAreApart ==
    ASSUME NEW kinds \in Seq(Kinds), NEW i \in DOMAIN kinds
    PROVE  /\ ConventionalPlace(kinds, i - 1) # Nowhere
           /\ \A j \in DOMAIN kinds : j # i =>
                ConventionalPlace(kinds, j - 1) # ConventionalPlace(kinds, i - 1)
<1> DEFINE n(k) == GatherFunctionArguments(kinds, k - 1)
           place(k) == ConventionalPlace(kinds, k - 1)
<1>1. ASSUME NEW k \in DOMAIN kinds
      PROVE  /\ k \in Nat /\ n(k) \in Nat
             /\ \/ kinds[k] = "float" /\ place(k) = <<"f", n(k) + 1>>
                \/ kinds[k] # "float" /\ place(k) = <<"r", k + 2>>
                \/ place(k) = <<"stack", k - 9>>
  <2>1. k \in Nat /\ n(k) \in Nat
    BY Ordinals
  <2>2. (n(k) <= 12 \/ n(k) > 12) /\ (k <= 8 \/ k > 8)
    <3> DEFINE m == n(k)
    <3>1. m \in Nat
      BY <2>1
    <3> HIDE DEF m
    <3>2. m <= 12 \/ m > 12
      BY <3>1
    <3>3. k <= 8 \/ k > 8
      BY <2>1
    <3> QED
      BY <3>2, <3>3 DEF m
  <2> QED
    BY <2>1, <2>2, HostKnowsThePlace
<1>2. place(i) # Nowhere
  <2> DEFINE p == place(i)
  <2>1. \E k : p = <<"f", k>> \/ p = <<"r", k>> \/ p = <<"stack", k>>
    BY <1>1
  <2> HIDE DEF p
  <2>2. p[1] # "none"
    BY <2>1
  <2> QED
    BY <2>2 DEF Nowhere, p
<1>3. ASSUME NEW j \in DOMAIN kinds, j # i PROVE place(j) # place(i)
  <2>1. kinds[i] = "float" /\ kinds[j] = "float" => n(j) # n(i)
    BY <1>3, Ordinals
  <2> HIDE DEF place, n
  <2> QED
    BY <1>1, <1>3, <2>1
<1> QED
  BY <1>2, <1>3

(* A place that one argument goes to holds its value.                      *)
LEMMA PlacedAlone ==
    ASSUME NEW D \in SUBSET Nat, NEW places, DOMAIN places = D, NEW values, NEW i \in D,
           places[i] # Nowhere, \A j \in D : j # i => places[j] # places[i]
    PROVE  places[i] \in DOMAIN Placed(places, values) /\ Placed(places, values)[places[i]] = values[i]
<1>1. {j \in DOMAIN places : places[j] = places[i]} = {i}
  OBVIOUS
<1>2. Max({i}) = i
  <2>1. i >= i
    BY SMT
  <2>2. \E x \in {i} : \A y \in {i} : x >= y
    BY <2>1
  <2> QED
    BY <2>2, Zenon DEF Max
<1>3. places[i] \in Range(places) \ {Nowhere}
  BY DEF Range
<1> QED
  BY <1>1, <1>2, <1>3, Zenon DEF Placed

LEMMA FloatsBefore ==
    ASSUME NEW kinds \in Seq(Kinds), NEW i \in DOMAIN kinds, kinds[i] = "float"
    PROVE  GatherFunctionArguments(kinds, i - 1) = Cardinality({j \in 0 .. i - 2 : kinds[j + 1] = "float"})
<1>1. i - 1 + 1 = i /\ i - 1 - 1 = i - 2
  BY Ordinals
<1> QED
  BY <1>1 DEF GatherFunctionArguments

LEMMA CallsReachTheHost ==
    ASSUME NEW call \in Calls, HostToGuestFunction(call)
    PROVE  ArgumentsArrive'
<1> DEFINE kinds == call.kinds
           values == call.values
           regs == Passed(call)
           n(i) == GatherFunctionArguments(kinds, i - 1)
           got == [i \in DOMAIN kinds |-> GetValue(regs, kinds[i], n(i))]
           places == [i \in DOMAIN kinds |-> ConventionalPlace(kinds, i - 1)]
<1>1. kinds \in Seq(Kinds) /\ values \in Seq(Nat) /\ Len(values) = Len(kinds)
  BY CallsAssumption DEF Kinds
<1>2. moved' = Moved("call", "host", kinds, values, got)
  BY DEF HostToGuestFunction
<1>3. regs = Placed(places, values)
  BY DEF Passed
<1> HIDE DEF kinds, values, regs
<1>4. ASSUME NEW i \in DOMAIN kinds
      PROVE  got[i] = Expected("call", "host", kinds, values, i)
  <2>1. values[i] \in Nat /\ i \in Nat
    BY <1>1
  <2>2. got[i] = GetValue(regs, kinds[i], n(i))
    OBVIOUS
  <2>3. places[i] \in DOMAIN regs /\ regs[places[i]] = values[i] /\ places[i] = ConventionalPlace(kinds, i - 1)
    <3>1. DOMAIN places = DOMAIN kinds /\ DOMAIN kinds \in SUBSET Nat
      BY <1>1
    <3>2. \A j \in DOMAIN kinds : places[j] = ConventionalPlace(kinds, j - 1)
      OBVIOUS
    <3> HIDE DEF places
    <3>3. places[i] # Nowhere /\ \A j \in DOMAIN kinds : j # i => places[j] # places[i]
      BY <1>1, <3>2, PlacesAreApart
    <3> QED
      BY <1>3, <3>1, <3>2, <3>3, PlacedAlone
  <2>4. Read(regs, ConventionalPlace(kinds, i - 1)) = values[i] /\ values[i] # Garbage
    BY <2>1, <2>3 DEF Read, Garbage
  <2>5. CASE kinds[i] = "float"
    <3>1. n(i) \in Nat /\ n(i) = Cardinality({j \in 0 .. i - 2 : kinds[j + 1] = "float"})
      BY <1>1, <2>5, Ordinals, FloatsBefore
    <3>2. n(i) <= 12 => Place(kinds[i], n(i)) = ConventionalPlace(kinds, i - 1)
      BY <1>1, <2>5, HostKnowsThePlace
    <3>3. GetValue(regs, kinds[i], n(i)) = IF n(i) > 12 THEN 0 ELSE Read(regs, Place(kinds[i], n(i)))
      BY <2>5, Zenon DEF GetValue
    <3>4. ~(n(i) > 12) => n(i) <= 12
      <4> DEFINE m == n(i)
      <4> HIDE DEF m
      <4>1. m \in Nat
        BY <3>1 DEF m
      <4>2. ~(m > 12) => m <= 12
        BY <4>1
      <4> QED
        BY <4>2 DEF m
    <3>5. Expected("call", "host", kinds, values, i) = IF n(i) > 12 THEN 0 ELSE values[i]
      BY <2>5, <3>1, Zenon DEF Expected
    <3> QED
      BY <2>2, <2>4, <3>2, <3>3, <3>4, <3>5, Zenon
  <2>6. CASE kinds[i] # "float"
    <3>1. Place(kinds[i], n(i)) = ConventionalPlace(kinds, i - 1)
      BY <1>1, <2>6, HostKnowsThePlace
    <3>2. GetValue(regs, kinds[i], n(i)) = values[i] % Width32
      BY <2>4, <2>6, <3>1, Zenon DEF GetValue
    <3>3. Expected("call", "host", kinds, values, i) = values[i] % Width32
      BY <2>6, Zenon DEF Expected
    <3> QED
      BY <2>2, <3>2, <3>3
  <2> QED
    BY <2>5, <2>6
<1> HIDE DEF got
<1> QED
  BY <1>2, <1>4, Zenon DEF ArgumentsArrive, Moved, Expected

LEMMA CallsReachTheGuest ==
    ASSUME NEW call \in Calls, GuestToHostFunction(call)
    PROVE  ArgumentsArrive'
<1> DEFINE kinds == call.kinds
           values == call.values
           n(i) == GatherFunctionArguments(kinds, i - 1)
           set == [i \in DOMAIN kinds |-> SetValue(kinds[i], n(i), values[i])]
           regs == Placed(set, values)
           got == [i \in DOMAIN kinds |-> Read(regs, ConventionalPlace(kinds, i - 1))]
<1>1. kinds \in Seq(Kinds) /\ values \in Seq(Nat) /\ Len(values) = Len(kinds)
  BY CallsAssumption DEF Kinds
<1>2. moved' = Moved("call", "guest", kinds, values, got)
  BY DEF GuestToHostFunction, Received
<1> HIDE DEF kinds, values
<1>3. ASSUME NEW i \in DOMAIN kinds
      PROVE  /\ set[i] = ConventionalPlace(kinds, i - 1) \/ set[i] = Nowhere
             /\ set[i] = Nowhere <=> Expected("call", "guest", kinds, values, i) = Garbage
             /\ set[i] # Nowhere => Expected("call", "guest", kinds, values, i) = values[i]
  <2> DEFINE place == ConventionalPlace(kinds, i - 1)
             m == n(i)
  <2>1. i \in Nat /\ m \in Nat /\ values[i] \in Nat /\ values[i] # Garbage /\ place # Nowhere
    BY <1>1, Ordinals, PlacesAreApart DEF Garbage
  <2>2. set[i] = IF (kinds[i] = "pointer" /\ values[i] = 0) \/ Place(kinds[i], m)[1] = "stack" THEN Nowhere
                 ELSE Place(kinds[i], m)
    BY DEF SetValue
  <2>3. CASE kinds[i] = "float"
    <3>1. m = Cardinality({j \in 0 .. i - 2 : kinds[j + 1] = "float"})
      BY <1>1, <2>3, FloatsBefore
    <3>2. Expected("call", "guest", kinds, values, i) = IF m > 12 THEN Garbage ELSE values[i]
      BY <2>3, <3>1 DEF Expected
    <3>3. /\ m <= 12 => place = <<"f", m + 1>> /\ Place(kinds[i], m) = place
          /\ m > 12 => Place(kinds[i], m) = Nowhere
      BY <1>1, <2>3, HostKnowsThePlace
    <3>4. Nowhere[1] # "stack" /\ \A k : <<"f", k>>[1] # "stack"
      BY DEF Nowhere
    <3>5. set[i] = Place(kinds[i], m)
      <4> HIDE DEF m, place
      <4>1. m <= 12 \/ m > 12
        BY <2>1
      <4>2. Place(kinds[i], m)[1] # "stack"
        BY <3>3, <3>4, <4>1
      <4> QED
        BY <2>2, <2>3, <4>2
    <3> HIDE DEF m, place, set
    <3>6. m <= 12 <=> ~(m > 12)
      BY <2>1
    <3> QED
      BY <2>1, <3>2, <3>3, <3>5, <3>6 DEF place
  <2>4. CASE kinds[i] # "float"
    <3>1. Expected("call", "guest", kinds, values, i) =
            IF i > 8 \/ (kinds[i] = "pointer" /\ values[i] = 0) THEN Garbage ELSE values[i]
      BY <2>4 DEF Expected
    <3>2. /\ Place(kinds[i], m) = place
          /\ i <= 8 => place = <<"r", i + 2>>
          /\ i > 8 => place = <<"stack", i - 9>>
      BY <1>1, <2>4, HostKnowsThePlace
    <3>3. \A k : <<"stack", k>>[1] = "stack" /\ <<"r", k>>[1] # "stack"
      OBVIOUS
    <3>4. Place(kinds[i], m)[1] = "stack" <=> i > 8
      <4> HIDE DEF m, place
      <4>1. i <= 8 <=> ~(i > 8)
        BY <2>1
      <4> QED
        BY <3>2, <3>3, <4>1
    <3> HIDE DEF m, place, set
    <3> QED
      BY <2>1, <2>2, <3>1, <3>2, <3>4 DEF place
  <2> QED
    BY <2>3, <2>4
<1>4. ASSUME NEW i \in DOMAIN kinds
      PROVE  got[i] = Expected("call", "guest", kinds, values, i)
  <2> DEFINE place == ConventionalPlace(kinds, i - 1)
  <2>1. got[i] = Read(regs, place)
    OBVIOUS
  <2>2. DOMAIN set = DOMAIN kinds /\ DOMAIN kinds \in SUBSET Nat /\ place # Nowhere
    BY <1>1, PlacesAreApart
  <2>3. \A j \in DOMAIN kinds : j # i => set[j] # place
    <3> SUFFICES ASSUME NEW j \in DOMAIN kinds, j # i PROVE set[j] # place
      OBVIOUS
    <3>1. ConventionalPlace(kinds, j - 1) # place
      BY <1>1, PlacesAreApart
    <3> HIDE DEF set, place
    <3> QED
      BY <1>3, <2>2, <3>1
  <2> HIDE DEF set, place
  <2>4. CASE set[i] # Nowhere
    <3>1. set[i] = place
      BY <1>3, <2>4 DEF place
    <3>2. place \in DOMAIN regs /\ regs[place] = values[i]
      BY <2>2, <2>3, <2>4, <3>1, PlacedAlone
    <3> QED
      BY <1>3, <2>1, <2>4, <3>2 DEF Read
  <2>5. CASE set[i] = Nowhere
    <3>1. \A j \in DOMAIN set : set[j] # place
      BY <2>2, <2>3, <2>5
    <3>2. DOMAIN regs = Range(set) \ {Nowhere}
      BY DEF Placed
    <3>3. place \notin DOMAIN regs
      BY <3>1, <3>2 DEF Range
    <3> QED
      BY <1>3, <2>1, <2>5, <3>3 DEF Read
  <2> QED
    BY <2>4, <2>5
<1> HIDE DEF got
<1> QED
  BY <1>2, <1>4, Zenon DEF ArgumentsArrive, Moved, Expected

(* A single value, of a result or of a mode.                               *)
LEMMA ResultArrives ==
    ASSUME NEW to, NEW kind, NEW value,
           NEW result,
           result = IF to = "host" /\ kind = "pointer" /\ value = 0 THEN NotNull ELSE value,
           moved' = Moved("result", to, <<kind>>, <<value>>, <<result>>)
    PROVE  ArgumentsArrive'
<1>1. ASSUME NEW i \in DOMAIN <<kind>>
      PROVE  <<result>>[i] = Expected("result", to, <<kind>>, <<value>>, i)
  <2>1. i = 1
    OBVIOUS
  <2>2. <<kind>>[1] = kind /\ <<value>>[1] = value /\ <<result>>[1] = result
    OBVIOUS
  <2> DEFINE kinds == <<kind>>
             sent == <<value>>
  <2>3. kinds[1] = kind /\ sent[1] = value
    OBVIOUS
  <2> HIDE DEF kinds, sent
  <2>4. Expected("result", to, kinds, sent, 1) =
          IF to = "host" /\ kind = "pointer" /\ value = 0 THEN NotNull ELSE value
    BY <2>3 DEF Expected
  <2> QED
    BY <2>1, <2>2, <2>4 DEF kinds, sent
<1> DEFINE kinds == <<kind>>
           sent == <<value>>
           got == <<result>>
<1>2. \A i \in DOMAIN kinds : got[i] = Expected("result", to, kinds, sent, i)
  BY <1>1
<1>3. moved' = Moved("result", to, kinds, sent, got)
  OBVIOUS
<1> HIDE DEF kinds, sent, got
<1> QED
  BY <1>2, <1>3 DEF ArgumentsArrive, Moved, Expected

(* Every argument and every result arrives, whatever the calls of the      *)
(* program are: with any number of arguments of any kinds.                 *)
THEOREM ArgumentsAlwaysArrive == HookSpec => []ArgumentsArrive
<1>1. HookInit => ArgumentsArrive
  BY DEF HookInit, ArgumentsArrive, Moved
<1>2. HookInv /\ ArgumentsArrive /\ [HookNext]_hookVars => ArgumentsArrive'
  <2> SUFFICES ASSUME HookInv, ArgumentsArrive, [HookNext]_hookVars PROVE ArgumentsArrive'
    OBVIOUS
  <2>1. ASSUME UNCHANGED moved PROVE ArgumentsArrive'
    BY <2>1 DEF ArgumentsArrive
  <2>2. ASSUME NEW flush, FlushMode(flush) PROVE ArgumentsArrive'
    BY <2>1, <2>2 DEF FlushMode
  <2>3. ASSUME NEW round, storeFromGuest(round) PROVE ArgumentsArrive'
    BY <2>1, <2>3 DEF storeFromGuest
  <2>4. ASSUME loadFromHost PROVE ArgumentsArrive'
    <3>1. HostToGuest[mxcsr.round] = asked.round
      <4>1. asked \in ModeType /\ mxcsr.round = GuestToHost[asked.round]
        BY DEF HookInv, ModeOK, HookTypeOK, ModeType
      <4>2. asked.round \in 0 .. 3
        BY <4>1 DEF ModeType
      <4> QED
        BY <4>1, <4>2, RoundingModes DEF HostToGuest, GuestToHost
    <3>2. moved' = Moved("result", "guest", <<"mode">>, <<asked.round>>, <<asked.round>>)
      BY <2>4, <3>1 DEF loadFromHost
    <3> QED
      BY <3>2, ResultArrives
  <2>5. ASSUME NEW call \in Calls, HostToGuestFunction(call) \/ GuestToHostFunction(call)
        PROVE  ArgumentsArrive'
    BY <2>5, CallsReachTheHost, CallsReachTheGuest
  <2>6. ASSUME NEW answer \in Results, HostReturns(answer) PROVE ArgumentsArrive'
    <3>1. moved' = Moved("result", "guest", <<answer.kind>>, <<answer.value>>, <<answer.value>>)
      BY <2>6 DEF HostReturns
    <3> QED
      BY <3>1, ResultArrives
  <2>7. ASSUME NEW answer \in Results, GuestReturns(answer) PROVE ArgumentsArrive'
    <3> DEFINE kind == answer.kind
               value == answer.value
               result == IF kind = "pointer" /\ value = 0 THEN NotNull ELSE value
    <3>1. moved' = Moved("result", "host", <<kind>>, <<value>>, <<result>>)
      BY <2>7, Zenon DEF GuestReturns, ResultToHost
    <3>2. result = IF "host" = "host" /\ kind = "pointer" /\ value = 0 THEN NotNull ELSE value
      OBVIOUS
    <3> HIDE DEF kind, value, result
    <3> QED
      BY <3>1, <3>2, ResultArrives
  <2>8. ASSUME NEW size, NEW align, AllocGuestStackMemory(size, align) PROVE ArgumentsArrive'
    BY <2>1, <2>8 DEF AllocGuestStackMemory
  <2>9. ASSUME ReleaseGuestStackMemory PROVE ArgumentsArrive'
    BY <2>1, <2>9 DEF ReleaseGuestStackMemory
  <2>10. ASSUME UNCHANGED hookVars PROVE ArgumentsArrive'
    BY <2>1, <2>10 DEF hookVars
  <2> QED
    BY <2>2, <2>3, <2>4, <2>5, <2>6, <2>7, <2>8, <2>9, <2>10, Zenon DEF HookNext
<1> QED
  BY <1>1, <1>2, SpecHookInv, PTL DEF HookSpec

-----------------------------------------------------------------------------
(* The vector helpers.                                                     *)
(* The powers that an instance speaks of.                                  *)
LEMMA Widths ==
    /\ \A n \in Nat : pow2[n] \in Nat \ {0}
    /\ \A n \in Nat \ {0} : pow2[n] = 2 * pow2[n - 1]
<1>1. \A n \in Nat : pow2[n] \in Nat /\ n < pow2[n]
  BY Pow2Grows
<1>2. ASSUME NEW n \in Nat \ {0} PROVE pow2[n] = 2 * pow2[n - 1]
  <2> DEFINE m == n - 1
  <2>1. m \in Nat /\ m + 1 = n
    OBVIOUS
  <2> HIDE DEF m
  <2>2. pow2[m + 1] = 2 * pow2[m]
    BY <2>1, Pow2
  <2> QED
    BY <2>1, <2>2 DEF m
<1>3. ASSUME NEW n \in Nat PROVE pow2[n] \in Nat \ {0}
  <2>1. pow2[n] \in Nat /\ n < pow2[n]
    BY <1>1
  <2> QED
    BY <2>1
<1> QED
  BY <1>2, <1>3

LEMMA LanesHalve ==
    /\ pow2[Bits] \in Nat \ {0} /\ pow2[Bits - 1] \in Nat \ {0} /\ pow2[Bits] = 2 * pow2[Bits - 1]
<1>1. Bits \in Nat \ {0} /\ Bits - 1 \in Nat
  BY VectorAssumption
<1> QED
  BY <1>1, Widths

-----------------------------------------------------------------------------
(* The loads: what a quadword that is reversed has at each place.          *)
LEMMA QuadwordAt ==
    ASSUME NEW address \in 0 .. 47, NEW b \in 0 .. 2, b = address \div 16, NEW i \in 0 .. 15
    PROVE  /\ Quadword(address)[i] = Memory[16 * b + i]
           /\ lvx(address)[i] = Memory[16 * b + 15 - i]
<1>1. 15 - i \in 0 .. 15 /\ 16 * b + (15 - i) = 16 * b + 15 - i
  OBVIOUS
<1>2. \A k \in 0 .. 15 : Quadword(address)[k] = Memory[16 * b + k]
  BY DEF Quadword
<1>3. lvx(address)[i] = Quadword(address)[15 - i]
  BY DEF lvx
<1> QED
  BY <1>1, <1>2, <1>3

LEMMA PartsLoad ==
    ASSUME NEW address \in 0 .. 31, NEW i \in 0 .. 15
    PROVE  LoadByParts(address)[i] = Memory[address + 15 - i]
<1> DEFINE r == address % 16
           b == address \div 16
           byte == Memory[address + 15 - i]
<1>1. /\ r \in 0 .. 15 /\ b \in 0 .. 1 /\ address = 16 * b + r
      /\ (address + 16) % 16 = r /\ (address + 16) \div 16 = b + 1
  OBVIOUS
<1>2. address + 15 - i \in 0 .. 47 /\ byte \in 1 .. 254
  <2>1. address + 15 - i \in 0 .. 47
    OBVIOUS
  <2>2. Memory \in [0 .. 47 -> 1 .. 254]
    BY VectorAssumption
  <2> DEFINE m == address + 15 - i
  <2> HIDE DEF m
  <2>3. Memory[m] \in 1 .. 254
    BY <2>1, <2>2 DEF m
  <2> QED
    BY <2>1, <2>3 DEF m
<1>3. address \in 0 .. 47 /\ address + 16 \in 0 .. 47 /\ b \in 0 .. 2 /\ b + 1 \in 0 .. 2
  BY <1>1
<1>a. \A k \in 0 .. 15 : /\ Quadword(address)[k] = Memory[16 * b + k]
                          /\ Quadword(address + 16)[k] = Memory[16 * (b + 1) + k]
  <2> DEFINE c == b + 1
             next == address + 16
  <2>1. b = address \div 16 /\ c = next \div 16 /\ c \in 0 .. 2 /\ next \in 0 .. 47
    BY <1>1, <1>3
  <2> HIDE DEF b, c, next
  <2>2. \A k \in 0 .. 15 : Quadword(address)[k] = Memory[16 * b + k]
    BY <1>3, <2>1, QuadwordAt
  <2>3. \A k \in 0 .. 15 : Quadword(next)[k] = Memory[16 * c + k]
    BY <2>1, QuadwordAt, Zenon
  <2> QED
    BY <2>2, <2>3 DEF c, next
<1> HIDE DEF r, b, byte
<1>4. lvlx(address)[i] = IF i < r THEN 0 ELSE byte
  <2>1. lvlx(address)[i] = IF VectorMaskL(r)[i] >= 128 THEN 0
                           ELSE Quadword(address)[VectorMaskL(r)[i] % 16]
    BY DEF lvlx, Shuffle, r
  <2>2. VectorMaskL(r)[i] = IF i < r THEN 255 ELSE 15 - i + r
    BY <1>1 DEF VectorMaskL, Empty
  <2>3. CASE i < r
    BY <2>1, <2>2, <2>3
  <2>4. CASE ~(i < r)
    <3>1. 15 - i + r \in 0 .. 15 /\ (15 - i + r) % 16 = 15 - i + r /\ ~(15 - i + r >= 128)
      BY <1>1, <2>4
    <3>2. 16 * b + (15 - i + r) = address + 15 - i
      BY <1>1
    <3>3. Quadword(address)[15 - i + r] = byte
      BY <1>a, <3>1, <3>2 DEF byte
    <3> QED
      BY <2>1, <2>2, <2>4, <3>1, <3>3
  <2> QED
    BY <2>3, <2>4
<1>5. lvrx(address + 16)[i] = IF i < r THEN byte ELSE 0
  <2>1. lvrx(address + 16)[i] = IF VectorMaskR(r)[i] >= 128 THEN 0
                                ELSE Quadword(address + 16)[VectorMaskR(r)[i] % 16]
    BY <1>1 DEF lvrx, Shuffle
  <2>2. VectorMaskR(r)[i] = IF i < r THEN r - 1 - i ELSE 255
    BY <1>1 DEF VectorMaskR, Empty
  <2>3. CASE i < r
    <3>1. r - 1 - i \in 0 .. 15 /\ (r - 1 - i) % 16 = r - 1 - i /\ ~(r - 1 - i >= 128)
      BY <1>1, <2>3
    <3>2. 16 * (b + 1) + (r - 1 - i) = address + 15 - i
      BY <1>1
    <3>3. Quadword(address + 16)[r - 1 - i] = byte
      BY <1>a, <3>1, <3>2 DEF byte
    <3> QED
      BY <2>1, <2>2, <2>3, <3>1, <3>3
  <2>4. CASE ~(i < r)
    BY <2>1, <2>2, <2>4
  <2> QED
    BY <2>3, <2>4
<1>6. LoadByParts(address)[i] =
        IF 0 \in {lvlx(address)[i], lvrx(address + 16)[i]}
        THEN lvlx(address)[i] + lvrx(address + 16)[i] ELSE Empty
  BY Zenon DEF LoadByParts, Or
<1>7. byte + 0 = byte /\ 0 + byte = byte
  BY <1>2
<1>8. CASE i < r
  BY <1>4, <1>5, <1>6, <1>7, <1>8 DEF byte
<1>9. CASE ~(i < r)
  BY <1>4, <1>5, <1>6, <1>7, <1>9 DEF byte
<1> QED
  BY <1>8, <1>9

(* A permutation of two quadwords that are next to each other takes the    *)
(* byte that is c places before their end.                                 *)
LEMMA PermTakes ==
    ASSUME NEW a \in [0 .. 15 -> Int], NEW b \in [0 .. 15 -> Int], NEW table \in [0 .. 15 -> 0 .. 31],
           NEW i \in 0 .. 15
    PROVE  Perm(a, b, table)[i] = IF table[i] < 16 THEN a[15 - table[i]] ELSE b[31 - table[i]]
<1> DEFINE e == [k \in 0 .. 15 |-> 15 - (table[k] % 16)]
           c == table[i]
<1>1. c \in 0 .. 31 /\ e[i] = 15 - (c % 16)
  <2>1. c \in 0 .. 31
    BY Zenon
  <2>2. e[i] = 15 - (c % 16)
    BY Zenon
  <2> QED
    BY <2>1, <2>2
<1>2. Perm(a, b, table)[i] = IF (c \div 16) % 2 = 1 THEN Shuffle(b, e)[i] ELSE Shuffle(a, e)[i]
  BY Zenon DEF Perm
<1> HIDE DEF e, c
<1>3. e[i] \in 0 .. 15 /\ ~(e[i] >= 128) /\ e[i] % 16 = e[i]
  <2> DEFINE d == e[i]
  <2>1. d \in 0 .. 15
    BY <1>1
  <2> HIDE DEF d
  <2>2. ~(d >= 128) /\ d % 16 = d
    BY <2>1
  <2> QED
    BY <2>1, <2>2 DEF d
<1>4. Shuffle(a, e)[i] = a[e[i]] /\ Shuffle(b, e)[i] = b[e[i]]
  BY <1>3 DEF Shuffle
<1>5. CASE c < 16
  <2>1. c \div 16 = 0 /\ e[i] = 15 - c
    BY <1>1, <1>5
  <2> QED
    BY <1>2, <1>4, <1>5, <2>1 DEF c
<1>6. CASE ~(c < 16)
  <2>1. c \div 16 = 1 /\ e[i] = 31 - c
    BY <1>1, <1>6
  <2> QED
    BY <1>2, <1>4, <1>6, <2>1 DEF c
<1> QED
  BY <1>5, <1>6

LEMMA QuadwordType == \A address \in 0 .. 47 : lvx(address) \in [0 .. 15 -> Int]
<1> SUFFICES ASSUME NEW address \in 0 .. 47, NEW i \in 0 .. 15 PROVE lvx(address)[i] \in Int
  BY DEF lvx
<1> DEFINE b == address \div 16
<1>1. b = address \div 16 /\ b \in 0 .. 2
  <2>1. address \in Nat /\ address < 48 /\ 16 \in Nat \ {0}
    OBVIOUS
  <2>2. address = 16 * (address \div 16) + (address % 16) /\ address % 16 \in 0 .. 16 - 1 /\ b \in Nat
    BY <2>1, Division
  <2> QED
    BY <2>1, <2>2
<1> HIDE DEF b
<1>2. lvx(address)[i] = Memory[16 * b + 15 - i]
  BY <1>1, QuadwordAt, Zenon
<1>3. 16 * b + 15 - i \in 0 .. 47
  BY <1>1
<1>4. Memory \in [0 .. 47 -> 1 .. 254]
  BY VectorAssumption
<1> DEFINE m == 16 * b + 15 - i
<1> HIDE DEF m
<1>5. Memory[m] \in 1 .. 254
  BY <1>3, <1>4 DEF m
<1>6. Memory[m] \in Int
  BY <1>5
<1> QED
  BY <1>2, <1>6, Zenon DEF m

LEMMA PermLoads ==
    ASSUME NEW address \in 0 .. 31, NEW i \in 0 .. 15
    PROVE  LoadByPerm(address)[i] = Memory[address + 15 - i]
<1> DEFINE r == address % 16
           b == address \div 16
           c == 15 - i + r
           low == lvx(address)
           high == lvx(address + 16)
           table == VectorShiftTableL(r)
<1>1. r \in 0 .. 15 /\ b \in 0 .. 1 /\ address = 16 * b + r
  OBVIOUS
<1>2. /\ \A k \in 0 .. 15 : low[k] = Memory[16 * b + 15 - k] /\ high[k] = Memory[16 * (b + 1) + 15 - k]
      /\ low \in [0 .. 15 -> Int] /\ high \in [0 .. 15 -> Int]
  <2> DEFINE d == b + 1
             next == address + 16
  <2>1. /\ b = address \div 16 /\ b \in 0 .. 2 /\ d \in 0 .. 2
        /\ address \in 0 .. 47 /\ next \in 0 .. 47
    BY <1>1
  <2>2. d = next \div 16
    OBVIOUS
  <2> HIDE DEF b, d, next
  <2>3. \A k \in 0 .. 15 : lvx(address)[k] = Memory[16 * b + 15 - k]
    BY <2>1, QuadwordAt
  <2>4. \A k \in 0 .. 15 : lvx(next)[k] = Memory[16 * d + 15 - k]
    BY <2>1, <2>2, QuadwordAt
  <2>5. lvx(address) \in [0 .. 15 -> Int] /\ lvx(next) \in [0 .. 15 -> Int]
    BY <2>1, QuadwordType
  <2> QED
    BY <2>3, <2>4, <2>5, Zenon DEF d, next
<1>3. LoadByPerm(address) = Perm(low, high, table)
  BY DEF LoadByPerm
<1> HIDE DEF r, b, low, high
<1>4. table \in [0 .. 15 -> 0 .. 31] /\ table[i] = c
  BY <1>1 DEF VectorShiftTableL
<1>5. c \in 0 .. 31
  BY <1>1
<1> HIDE DEF table
<1>6. LoadByPerm(address)[i] = IF c < 16 THEN low[15 - c] ELSE high[31 - c]
  BY <1>2, <1>3, <1>4, PermTakes
<1>7. CASE c < 16
  <2>1. 15 - c \in 0 .. 15 /\ 16 * b + 15 - (15 - c) = address + 15 - i
    BY <1>1, <1>5, <1>7
  <2> HIDE DEF c
  <2> QED
    BY <1>2, <1>6, <1>7, <2>1
<1>8. CASE ~(c < 16)
  <2>1. 31 - c \in 0 .. 15 /\ 16 * (b + 1) + 15 - (31 - c) = address + 15 - i
    BY <1>1, <1>5, <1>8
  <2> HIDE DEF c
  <2> QED
    BY <1>2, <1>6, <1>8, <2>1
<1> QED
  BY <1>7, <1>8

LEMMA PermShifts ==
    ASSUME NEW address \in 0 .. 31, NEW i \in 0 .. 15
    PROVE  ShiftByPerm(address)[i] = Memory[31 - i - (address % 16)]
<1> DEFINE r == address % 16
           c == 31 - i - r
           low == lvx(0)
           high == lvx(16)
           table == VectorShiftTableR(r)
<1>1. r \in 0 .. 15
  OBVIOUS
<1>2. /\ \A k \in 0 .. 15 : low[k] = Memory[16 * 0 + 15 - k] /\ high[k] = Memory[16 * 1 + 15 - k]
      /\ low \in [0 .. 15 -> Int] /\ high \in [0 .. 15 -> Int]
  <2>1. /\ 0 = 0 \div 16 /\ 0 \in 0 .. 2 /\ 1 = 16 \div 16 /\ 1 \in 0 .. 2
        /\ 0 \in 0 .. 47 /\ 16 \in 0 .. 47
    OBVIOUS
  <2>2. \A k \in 0 .. 15 : low[k] = Memory[16 * 0 + 15 - k]
    BY <2>1, QuadwordAt, Zenon
  <2>3. \A k \in 0 .. 15 : high[k] = Memory[16 * 1 + 15 - k]
    BY <2>1, QuadwordAt, Zenon
  <2> QED
    BY <2>1, <2>2, <2>3, QuadwordType
<1>3. ShiftByPerm(address) = Perm(low, high, table)
  BY DEF ShiftByPerm
<1> HIDE DEF r, low, high
<1>4. table \in [0 .. 15 -> 0 .. 31] /\ table[i] = c
  BY <1>1 DEF VectorShiftTableR
<1>5. c \in 0 .. 31
  BY <1>1
<1> HIDE DEF table
<1>6. ShiftByPerm(address)[i] = IF c < 16 THEN low[15 - c] ELSE high[31 - c]
  BY <1>2, <1>3, <1>4, PermTakes
<1>7. ShiftByPerm(address)[i] = Memory[c]
  <2> HIDE DEF c
  <2>1. CASE c < 16
    <3>1. 15 - c \in 0 .. 15 /\ 16 * 0 + 15 - (15 - c) = c
      BY <1>5, <2>1
    <3> QED
      BY <1>2, <1>6, <2>1, <3>1
  <2>2. CASE ~(c < 16)
    <3>1. 31 - c \in 0 .. 15 /\ 16 * 1 + 15 - (31 - c) = c
      BY <1>5, <2>2
    <3> QED
      BY <1>2, <1>6, <2>2, <3>1
  <2> QED
    BY <2>1, <2>2
<1> QED
  BY <1>7 DEF r

-----------------------------------------------------------------------------
(* Lanes.                                                                  *)
LEMMA AddsSaturate ==
    ASSUME NEW a \in Lane, NEW b \in Lane
    PROVE  AddsUnsigned(a, b) = Smaller(a + b, pow2[Bits] - 1)
<1> DEFINE p == pow2[Bits]
<1>1. p \in Nat \ {0} /\ a \in 0 .. p - 1 /\ b \in 0 .. p - 1
  BY LanesHalve DEF Lane
<1>2. /\ AddsUnsigned(a, b) = (a + IF p - 1 - a < b THEN p - 1 - a ELSE b) % p
      /\ Smaller(a + b, p - 1) = IF a + b < p - 1 THEN a + b ELSE p - 1
  BY DEF AddsUnsigned, Smaller
<1> HIDE DEF p
<1> DEFINE s == a + IF p - 1 - a < b THEN p - 1 - a ELSE b
<1>3. s = (IF a + b < p - 1 THEN a + b ELSE p - 1) /\ s \in 0 .. p - 1
  BY <1>1
<1> HIDE DEF s
<1>4. s % p = s
  BY <1>1, <1>3
<1> QED
  BY <1>2, <1>3, <1>4 DEF p, s

LEMMA AveragesRoundUp ==
    ASSUME NEW a \in Lane, NEW b \in Lane
    PROVE  Signed(AvgSigned(a, b), Bits) = (Signed(a, Bits) + Signed(b, Bits) + 1) \div 2
<1> DEFINE h == pow2[Bits - 1]
           p == pow2[Bits]
           x == Signed(a, Bits)
           y == Signed(b, Bits)
<1>1. h \in Nat \ {0} /\ p = 2 * h /\ a \in 0 .. p - 1 /\ b \in 0 .. p - 1
  BY LanesHalve DEF Lane
<1>2. x = (IF a < h THEN a ELSE a - p) /\ y = (IF b < h THEN b ELSE b - p)
  BY DEF Signed
<1>3. Flip(a, Bits) = (IF a < h THEN a + h ELSE a - h) /\ Flip(b, Bits) = (IF b < h THEN b + h ELSE b - h)
  BY DEF Flip
<1> DEFINE avg == AvgUnsigned(Flip(a, Bits), Flip(b, Bits))
<1>4. avg = (Flip(a, Bits) + Flip(b, Bits) + 1) \div 2
  BY DEF AvgUnsigned
<1> HIDE DEF h, p, x, y
<1>5. Flip(a, Bits) = x + h /\ Flip(b, Bits) = y + h /\ x \in -h .. h - 1 /\ y \in -h .. h - 1
  BY <1>1, <1>2, <1>3
<1> DEFINE m == (x + y + 1) \div 2
<1>6. m \in -h .. h - 1
  BY <1>1, <1>5
<1>7. avg = m + h
  BY <1>1, <1>4, <1>5
<1>8. AvgSigned(a, b) = (IF avg < h THEN avg + h ELSE avg - h)
  BY DEF AvgSigned, Flip, h
<1> HIDE DEF m, avg
<1>9. AvgSigned(a, b) = IF m < 0 THEN m + p ELSE m
  BY <1>1, <1>6, <1>7, <1>8
<1> DEFINE g == AvgSigned(a, b)
<1>10. Signed(g, Bits) = (IF g < h THEN g ELSE g - p)
  BY DEF Signed, h, p
<1> HIDE DEF g
<1>11. g = IF m < 0 THEN m + p ELSE m
  BY <1>9 DEF g
<1>12. Signed(g, Bits) = m
  BY <1>1, <1>6, <1>10, <1>11
<1> QED
  BY <1>12 DEF g, m, x, y

LEMMA ComparesUnsigned ==
    ASSUME NEW a \in Lane, NEW b \in Lane
    PROVE  GreaterUnsigned(a, b) = (a > b)
<1> DEFINE h == pow2[Bits - 1]
           p == pow2[Bits]
<1>1. h \in Nat \ {0} /\ p = 2 * h
  BY LanesHalve
<1>2. ASSUME NEW x \in Lane PROVE Signed(Flip(x, Bits), Bits) = x - h
  <2>1. x \in 0 .. p - 1
    BY DEF Lane
  <2>2. Flip(x, Bits) = IF x < h THEN x + h ELSE x - h
    BY DEF Flip
  <2> DEFINE y == Flip(x, Bits)
  <2>3. Signed(y, Bits) = IF y < h THEN y ELSE y - p
    BY DEF Signed
  <2> HIDE DEF h, p, y
  <2>4. y = IF x < h THEN x + h ELSE x - h
    BY <2>2 DEF y
  <2>5. Signed(y, Bits) = x - h
    BY <1>1, <2>1, <2>3, <2>4
  <2> QED
    BY <2>5 DEF y
<1>3. a \in Nat /\ b \in Nat
  BY LanesHalve DEF Lane
<1> HIDE DEF h, p
<1>4. (a - h > b - h) = (a > b)
  BY <1>1, <1>3
<1> QED
  BY <1>2, <1>4 DEF GreaterUnsigned
-----------------------------------------------------------------------------
(* Shifts.  Two words that are shifted by N together give the low one what *)
(* N cuts off the high one.                                                *)
WordsMeet(N, K, P) == \A w, v \in 0 .. P - 1 :
    /\ ((w + P * v) \div N) % P = w \div N + K * (v % N)
    /\ (((w + P * v) \div N) \div P) % P = v \div N

LEMMA TwoWords ==
    ASSUME NEW N \in Nat \ {0}, NEW K \in Nat \ {0}, NEW P \in Nat \ {0}, P = N * K
    PROVE  WordsMeet(N, K, P)
<1> SUFFICES ASSUME NEW w \in 0 .. P - 1, NEW v \in 0 .. P - 1
             PROVE  /\ ((w + P * v) \div N) % P = w \div N + K * (v % N)
                    /\ (((w + P * v) \div N) \div P) % P = v \div N
  BY DEF WordsMeet
<1> DEFINE qw == w \div N
           rw == w % N
           qv == v \div N
           rv == v % N
           x == (w + P * v) \div N
           low == qw + K * rv
<1>1. w = N * qw + rw /\ rw \in 0 .. N - 1 /\ qw \in Nat
  <2>1. w \in Nat
    OBVIOUS
  <2>2. w = N * (w \div N) + (w % N) /\ w % N \in 0 .. N - 1 /\ (w \div N) \in Nat
    BY <2>1
  <2> QED
    BY <2>2
<1>2. v = N * qv + rv /\ rv \in 0 .. N - 1 /\ qv \in Nat
  <2>1. v \in Nat
    OBVIOUS
  <2>2. v = N * (v \div N) + (v % N) /\ v % N \in 0 .. N - 1 /\ (v \div N) \in Nat
    BY <2>1
  <2> QED
    BY <2>2
<1> HIDE DEF qw, rw, qv, rv
<1>3. qw < K
  <2>1. N * qw < N * K
    BY <1>1
  <2> QED
    BY <1>1, <2>1
<1>4. x = qw + K * v
  <2> DEFINE q == qw + K * v
  <2>1. q \in Nat
    BY <1>1
  <2>2. (N * K) * v = (K * v) * N /\ q * N = qw * N + (K * v) * N
    BY <1>1
  <2>3. w + P * v = q * N + rw
    BY <1>1, <2>2
  <2> HIDE DEF q
  <2>4. (q * N + rw) \div N = q
    BY <1>1, <2>1, QuotientUnique
  <2> QED
    BY <2>3, <2>4 DEF q
<1>5. K * v = qv * P + K * rv
  <2>1. K * (N * qv + rv) = qv * (N * K) + K * rv
    BY <1>2
  <2> QED
    BY <1>2, <2>1
<1>6. low \in Nat /\ low < P
  <2>1. K * rv \in Nat /\ K * rv <= K * (N - 1)
    BY <1>2
  <2>2. K * (N - 1) = N * K - K
    OBVIOUS
  <2> QED
    BY <1>1, <1>3, <2>1, <2>2
<1>7. x = qv * P + low
  BY <1>1, <1>2, <1>4, <1>5
<1> HIDE DEF x, low
<1>8. x \div P = qv /\ x % P = low
  <2>1. qv \in Int
    BY <1>2
  <2> QED
    BY <1>6, <1>7, <2>1, QuotientUnique
<1>9. qv % P = qv
  <2>1. qv <= v
    <3>1. qv <= N * qv
      BY <1>2
    <3> QED
      BY <1>2, <3>1
  <2> QED
    BY <1>2, <2>1
<1> QED
  BY <1>8, <1>9 DEF x, low, qw, rv, qv

LEMMA Cut ==
    ASSUME NEW N \in Nat, NEW K \in Nat, NEW Q \in Nat, NEW q \in Nat, NEW r \in Nat
    PROVE  (Q * (q + K * r)) * N = Q * (N * q) + (Q * (N * K)) * r
  OBVIOUS

LEMMA ShiftsMoveBits ==
    ASSUME NEW words \in [1 .. 4 -> Lane], NEW n \in 0 .. Bits - 1
    PROVE  Number(vsr(words, n)) = Number(words) \div pow2[n]
<1> DEFINE P == pow2[Bits]
           N == pow2[n]
           K == pow2[Bits - n]
           w1 == words[1]
           w2 == words[2]
           w3 == words[3]
           w4 == words[4]
<1>1. N \in Nat \ {0} /\ K \in Nat \ {0} /\ P \in Nat \ {0} /\ P = N * K
  <2>1. n \in Nat /\ Bits - n \in Nat /\ n + (Bits - n) = Bits /\ Bits \in Nat
    BY VectorAssumption
  <2> DEFINE m == Bits - n
  <2> HIDE DEF m
  <2>2. pow2[n + m] = pow2[n] * pow2[m]
    BY <2>1, Pow2Sum DEF m
  <2> QED
    BY <2>1, <2>2, Widths DEF m
<1>2. pow2[2 * Bits] = P * P /\ pow2[3 * Bits] = P * (P * P)
  <2>1. Bits \in Nat /\ 2 * Bits = Bits + Bits /\ 2 * Bits \in Nat /\ 3 * Bits = Bits + 2 * Bits
    BY VectorAssumption
  <2>2. pow2[Bits + Bits] = P * P
    BY <2>1, Pow2Sum
  <2>3. pow2[Bits + 2 * Bits] = P * pow2[2 * Bits]
    BY <2>1, Pow2Sum
  <2> QED
    BY <2>1, <2>2, <2>3
<1>3. w1 \in 0 .. P - 1 /\ w2 \in 0 .. P - 1 /\ w3 \in 0 .. P - 1 /\ w4 \in 0 .. P - 1
  BY DEF Lane
<1>4. ASSUME NEW x \in Nat PROVE WordOf(x, 1) = x % P /\ WordOf(x, 2) = (x \div P) % P
  <2>1. Bits * (1 - 1) = 0 /\ Bits * (2 - 1) = Bits
    BY VectorAssumption
  <2>2. pow2[0] = 1 /\ x \div 1 = x
    BY Pow2
  <2> QED
    BY <2>1, <2>2 DEF WordOf
<1> HIDE DEF P, N, K
<1> DEFINE low == (w1 + P * w2) \div N
           middle == (w2 + P * w3) \div N
           high == (w3 + P * w4) \div N
<1>5. low \in Nat /\ middle \in Nat /\ high \in Nat
  <2>1. w1 + P * w2 \in Nat /\ w2 + P * w3 \in Nat /\ w3 + P * w4 \in Nat
    BY <1>1, <1>3
  <2> QED
    BY <1>1, <2>1, Quotient
<1>6. vsr(words, n) = <<low % P, middle % P, high % P, (high \div P) % P>>
  <2>1. vsr(words, n) = <<WordOf(low, 1), WordOf(middle, 1), WordOf(high, 1), WordOf(high, 2)>>
    BY DEF vsr, P, N
  <2> HIDE DEF low, middle, high
  <2> QED
    BY <1>4, <1>5, <2>1
<1> DEFINE q1 == w1 \div N
           q2 == w2 \div N
           q3 == w3 \div N
           q4 == w4 \div N
           r1 == w1 % N
           r2 == w2 % N
           r3 == w3 % N
           r4 == w4 % N
<1>7. /\ low % P = q1 + K * r2 /\ middle % P = q2 + K * r3
      /\ high % P = q3 + K * r4 /\ (high \div P) % P = q4
  <2> HIDE DEF w1, w2, w3, w4
  <2>0. WordsMeet(N, K, P)
    BY <1>1, TwoWords
  <2>1. ASSUME NEW w \in 0 .. P - 1, NEW v \in 0 .. P - 1
        PROVE  /\ ((w + P * v) \div N) % P = w \div N + K * (v % N)
               /\ (((w + P * v) \div N) \div P) % P = v \div N
    BY <2>0, Zenon DEF WordsMeet
  <2>2. low % P = q1 + K * r2
    BY <1>3, <2>1
  <2>3. middle % P = q2 + K * r3
    BY <1>3, <2>1
  <2>4. high % P = q3 + K * r4 /\ (high \div P) % P = q4
    BY <1>3, <2>1
  <2> QED
    BY <2>2, <2>3, <2>4
<1>8. /\ w1 = N * q1 + r1 /\ w2 = N * q2 + r2 /\ w3 = N * q3 + r3 /\ w4 = N * q4 + r4
      /\ q1 \in Nat /\ q2 \in Nat /\ q3 \in Nat /\ q4 \in Nat
      /\ r1 \in 0 .. N - 1 /\ r2 \in Nat /\ r3 \in Nat /\ r4 \in Nat
  <2> HIDE DEF w1, w2, w3, w4
  <2>1. ASSUME NEW w \in 0 .. P - 1
        PROVE  w = N * (w \div N) + (w % N) /\ w \div N \in Nat /\ w % N \in 0 .. N - 1
    <3>1. w \in Nat
      BY <1>1
    <3>2. w = N * (w \div N) + (w % N) /\ w % N \in 0 .. N - 1 /\ (w \div N) \in Nat
      BY <1>1, <3>1
    <3> QED
      BY <3>2
  <2>2. w2 % N \in Nat /\ w3 % N \in Nat /\ w4 % N \in Nat
    BY <1>1, <1>3, <2>1
  <2> QED
    BY <1>3, <2>1, <2>2
<1> DEFINE A == q1 + K * r2 + P * (q2 + K * r3) + (P * P) * (q3 + K * r4) + (P * (P * P)) * q4
<1>9. Number(vsr(words, n)) = A
  <2> HIDE DEF low, middle, high, q1, q2, q3, q4, r1, r2, r3, r4
  <2> DEFINE v == vsr(words, n)
  <2>1. v[1] = q1 + K * r2 /\ v[2] = q2 + K * r3 /\ v[3] = q3 + K * r4 /\ v[4] = q4
    BY <1>6, <1>7
  <2> HIDE DEF v
  <2>2. Number(v) = v[1] + P * v[2] + (P * P) * v[3] + (P * (P * P)) * v[4]
    BY <1>2 DEF Number, P
  <2> QED
    BY <2>1, <2>2 DEF v
<1>10. Number(words) = w1 + P * w2 + (P * P) * w3 + (P * (P * P)) * w4
  BY <1>2 DEF Number, P
<1> HIDE DEF low, middle, high, q1, q2, q3, q4, r1, r2, r3, r4, w1, w2, w3, w4
<1>11. A * N + r1 = w1 + P * w2 + (P * P) * w3 + (P * (P * P)) * w4
  <2> DEFINE a == P * P
             b == P * a
  <2>1. a \in Nat /\ b \in Nat /\ a = P * P /\ b = a * P
    BY <1>1
  <2>2. /\ (q1 + K * r2) * N = N * q1 + P * r2
        /\ (P * (q2 + K * r3)) * N = P * (N * q2) + a * r3
        /\ (a * (q3 + K * r4)) * N = a * (N * q3) + b * r4
    <3> HIDE DEF a, b
    <3>1. (1 * (q1 + K * r2)) * N = 1 * (N * q1) + (1 * (N * K)) * r2
      BY <1>1, <1>8, Cut
    <3>2. (P * (q2 + K * r3)) * N = P * (N * q2) + (P * (N * K)) * r3
      BY <1>1, <1>8, Cut
    <3>3. (a * (q3 + K * r4)) * N = a * (N * q3) + (a * (N * K)) * r4
      BY <1>1, <1>8, <2>1, Cut
    <3>4. (q1 + K * r2) * N = N * q1 + P * r2
      <4>1. 1 * (q1 + K * r2) = q1 + K * r2 /\ 1 * (N * q1) = N * q1 /\ 1 * (N * K) = P
        BY <1>1, <1>8
      <4> QED
        BY <3>1, <4>1
    <3> QED
      BY <1>1, <2>1, <3>2, <3>3, <3>4
  <2> DEFINE x == q1 + K * r2
             y == P * (q2 + K * r3)
             z == a * (q3 + K * r4)
             u == b * q4
  <2>3. x \in Nat /\ y \in Nat /\ z \in Nat /\ u \in Nat /\ A = x + y + z + u
    <3>1. K * r2 \in Nat /\ K * r3 \in Nat /\ K * r4 \in Nat
      BY <1>1, <1>8
    <3> HIDE DEF a, b
    <3>2. x \in Nat /\ q2 + K * r3 \in Nat /\ q3 + K * r4 \in Nat /\ u \in Nat
      BY <1>8, <2>1, <3>1
    <3>3. y \in Nat /\ z \in Nat
      BY <1>1, <2>1, <3>2
    <3> QED
      BY <3>2, <3>3 DEF a, b
  <2>4. (x + y + z + u) * N = x * N + y * N + z * N + u * N
    <3> HIDE DEF x, y, z, u
    <3> QED
      BY <1>1, <2>3
  <2>5. u * N = b * (N * q4)
    <3> HIDE DEF a, b
    <3> QED
      BY <1>1, <1>8, <2>1
  <2>6. P * w2 = P * (N * q2) + P * r2 /\ a * w3 = a * (N * q3) + a * r3 /\ b * w4 = b * (N * q4) + b * r4
    <3> HIDE DEF a, b
    <3>1. ASSUME NEW c \in Nat, NEW d \in Nat, NEW e \in Nat PROVE c * (d + e) = c * d + c * e
      BY <3>1
    <3>2. N * q2 \in Nat /\ N * q3 \in Nat /\ N * q4 \in Nat
      BY <1>1, <1>8
    <3> QED
      BY <1>1, <1>8, <2>1, <3>1, <3>2
  <2>7. P * (N * q2) \in Nat /\ P * r2 \in Nat /\ a * (N * q3) \in Nat /\ a * r3 \in Nat
        /\ b * (N * q4) \in Nat /\ b * r4 \in Nat /\ N * q1 \in Nat
    <3> HIDE DEF a, b
    <3>1. N * q1 \in Nat /\ N * q2 \in Nat /\ N * q3 \in Nat /\ N * q4 \in Nat
      BY <1>1, <1>8
    <3>2. ASSUME NEW c \in Nat, NEW d \in Nat PROVE c * d \in Nat
      BY <3>2
    <3> QED
      BY <1>1, <1>8, <2>1, <3>1, <3>2
  <2>8. A * N = N * q1 + P * r2 + (P * (N * q2) + a * r3) + (a * (N * q3) + b * r4) + b * (N * q4)
    <3> HIDE DEF a, b
    <3>1. A * N = x * N + y * N + z * N + u * N
      BY <2>3, <2>4
    <3> QED
      BY <2>2, <2>5, <3>1
  <2> HIDE DEF a, b, x, y, z, u, A
  <2>9. A * N + r1 = w1 + P * w2 + a * w3 + b * w4
    BY <1>1, <1>8, <2>6, <2>7, <2>8
  <2> QED
    BY <2>9 DEF a, b
<1>12. A \in Int /\ r1 \in Nat /\ r1 < N
  <2>1. K * r2 \in Nat /\ K * r3 \in Nat /\ K * r4 \in Nat /\ P * P \in Nat
    BY <1>1, <1>8
  <2>2. P * (P * P) \in Nat /\ q2 + K * r3 \in Nat /\ q3 + K * r4 \in Nat
    BY <1>1, <1>8, <2>1
  <2>3. P * (q2 + K * r3) \in Nat /\ (P * P) * (q3 + K * r4) \in Nat /\ (P * (P * P)) * q4 \in Nat
    <3>1. ASSUME NEW c \in Nat, NEW d \in Nat PROVE c * d \in Nat
      BY <3>1
    <3> QED
      BY <1>1, <1>8, <2>1, <2>2, <3>1
  <2> QED
    BY <1>1, <1>8, <2>1, <2>3
<1> HIDE DEF A
<1>13. (A * N + r1) \div N = A
  BY <1>1, <1>12, QuotientUnique
<1> QED
  BY <1>9, <1>10, <1>11, <1>13 DEF N
-----------------------------------------------------------------------------
(* Conversions.                                                            *)
LEMMA FloatsSaturate ==
    ASSUME NEW x \in Int
    PROVE  vctsxs(x) = IF x = NaN THEN 0 ELSE IF x < Least THEN Least ELSE Smaller(x, -Least - 1)
<1>1. Least \in Int /\ Least < 0
  <2>1. WordBits - 1 \in Nat
    BY VectorAssumption
  <2>2. pow2[WordBits - 1] \in Nat \ {0}
    BY <2>1, Widths
  <2> QED
    BY <2>2 DEF Least
<1> QED
  BY <1>1 DEF vctsxs, cvttps, Smaller, NaN

(* Both choices of a length are of the one that there is.                  *)
LEMMA OneLength ==
    ASSUME NEW x \in Nat, NEW n \in Nat
    PROVE  (n > 0 => x >= pow2[n - 1]) <=> \A m \in 0 .. n - 1 : x >= pow2[m]
<1>1. CASE n = 0
  BY <1>1
<1>2. CASE n > 0
  <2> DEFINE k == n - 1
  <2>1. k \in Nat /\ k \in 0 .. k
    BY <1>2
  <2> HIDE DEF k
  <2>2. ASSUME x >= pow2[k], NEW m \in 0 .. k PROVE x >= pow2[m]
    <3>1. m \in Nat /\ m <= k
      BY <2>1
    <3>2. pow2[m] \in Nat /\ pow2[k] \in Nat /\ pow2[m] <= pow2[k]
      BY <2>1, <3>1, Pow2Grows
    <3> QED
      BY <2>2, <3>2
  <2>3. x >= pow2[k] <=> \A m \in 0 .. k : x >= pow2[m]
    BY <2>1, <2>2
  <2> QED
    BY <1>2, <2>3 DEF k
<1> QED
  BY <1>1, <1>2

LEMMA SmallWordsRound ==
    ASSUME NEW x \in 0 .. pow2[WordBits] - 1
    PROVE  cvtepi32(x) =
             LET length == CHOOSE n \in 0 .. WordBits : x < pow2[n] /\ (n > 0 => x >= pow2[n - 1])
             IN  IF length > Mantissa THEN RoundEven(x, length - Mantissa) ELSE x
<1>1. x \in Nat
  <2>1. pow2[WordBits] \in Nat
    BY VectorAssumption, Pow2
  <2> QED
    BY <2>1
<1>2. \A n \in 0 .. WordBits : (n > 0 => x >= pow2[n - 1]) <=> \A m \in 0 .. n - 1 : x >= pow2[m]
  <2> SUFFICES ASSUME NEW n \in 0 .. WordBits
               PROVE  (n > 0 => x >= pow2[n - 1]) <=> \A m \in 0 .. n - 1 : x >= pow2[m]
    OBVIOUS
  <2>1. n \in Nat
    BY VectorAssumption
  <2> QED
    BY <1>1, <2>1, OneLength
<1>3. (CHOOSE n \in 0 .. WordBits : x < pow2[n] /\ (n > 0 => x >= pow2[n - 1]))
      = (CHOOSE n \in 0 .. WordBits : x < pow2[n] /\ \A m \in 0 .. n - 1 : x >= pow2[m])
  BY <1>2, Zenon
<1> DEFINE length == CHOOSE n \in 0 .. WordBits : x < pow2[n] /\ (n > 0 => x >= pow2[n - 1])
           other == CHOOSE n \in 0 .. WordBits : x < pow2[n] /\ \A m \in 0 .. n - 1 : x >= pow2[m]
<1>4. cvtepi32(x) = IF other > Mantissa THEN RoundEven(x, other - Mantissa) ELSE x
  BY DEF cvtepi32
<1>5. length = other
  BY <1>3
<1> HIDE DEF length, other
<1>6. cvtepi32(x) = IF length > Mantissa THEN RoundEven(x, length - Mantissa) ELSE x
  BY <1>4, <1>5
<1> QED
  BY <1>6 DEF length

(* A word whose sign bit is set has all its bits; what the addition on     *)
(* them, and the carry, leave is the multiple that is nearest, to even.    *)
LEMMA LargeWordsRound ==
    ASSUME NEW x \in 0 .. pow2[WordBits] - 1, x >= pow2[WordBits - 1]
    PROVE  cvtepu32(x) = RoundEven(x, DroppedBits)
<1> DEFINE W == pow2[WordBits]
           H == pow2[WordBits - 1]
           M == pow2[Mantissa]
           U == pow2[DroppedBits]
           h == pow2[DroppedBits - 1]
           b == x \div U
           r == x % U
           bit == b % 2
           sum == (x + h - 1 + bit) % W
           carry == IF 2 * r > U \/ (2 * r = U /\ b % 2 = 1) THEN 1 ELSE 0
<1>1. /\ W \in Nat \ {0} /\ H \in Nat \ {0} /\ M \in Nat \ {0} /\ U \in Nat \ {0} /\ h \in Nat \ {0}
      /\ W = 2 * H /\ U = 2 * h /\ W = M * U
  <2>1. /\ WordBits \in Nat \ {0} /\ WordBits - 1 \in Nat /\ Mantissa \in Nat
        /\ WordBits - Mantissa \in Nat \ {0} /\ WordBits - Mantissa - 1 \in Nat
        /\ Mantissa + (WordBits - Mantissa) = WordBits
    BY VectorAssumption
  <2> DEFINE d == WordBits - Mantissa
  <2> HIDE DEF d
  <2>2. d \in Nat \ {0} /\ d - 1 \in Nat /\ Mantissa + d = WordBits
    BY <2>1 DEF d
  <2>3. pow2[Mantissa + d] = pow2[Mantissa] * pow2[d]
    BY <2>1, <2>2, Pow2Sum
  <2>4. pow2[d] = 2 * pow2[d - 1] /\ pow2[WordBits] = 2 * pow2[WordBits - 1]
    BY <2>1, <2>2, Widths
  <2>5. /\ pow2[WordBits] \in Nat \ {0} /\ pow2[WordBits - 1] \in Nat \ {0} /\ pow2[Mantissa] \in Nat \ {0}
        /\ pow2[d] \in Nat \ {0} /\ pow2[d - 1] \in Nat \ {0}
    BY <2>1, <2>2, Widths
  <2>6. pow2[WordBits] = pow2[Mantissa] * pow2[d]
    BY <2>2, <2>3
  <2> QED
    BY <2>4, <2>5, <2>6 DEF d, DroppedBits
<1>0. ~(x < pow2[WordBits - 1])
  BY <1>1
<1>2. cvtepu32(x) = (M + (Signed(sum, WordBits) \div U)) * U
  BY <1>0, Zenon DEF cvtepu32
<1>3. RoundEven(x, DroppedBits) = U * (b + carry)
  BY DEF RoundEven
<1>4. Signed(sum, WordBits) = IF sum < H THEN sum ELSE sum - W
  BY DEF Signed
<1>5. x \in Nat /\ x >= H /\ x < W
  BY <1>1
<1> HIDE DEF W, H, M, U, h
<1>6. b \in Nat /\ r \in 0 .. U - 1 /\ x = U * b + r
  <2>1. x = U * (x \div U) + (x % U) /\ x % U \in 0 .. U - 1 /\ (x \div U) \in Nat
    BY <1>1, <1>5, Division
  <2> QED
    BY <2>1
<1> HIDE DEF b, r
<1>7. bit \in 0 .. 1 /\ (b % 2 = 1 <=> bit = 1)
  BY <1>6
<1> HIDE DEF bit
<1> DEFINE y == x + h - 1 + bit
           s == r + h - 1 + bit - U * carry
<1>8. carry \in 0 .. 1 /\ s \in 0 .. U - 1
  <2>1. carry = IF r > h \/ (r = h /\ bit = 1) THEN 1 ELSE 0
    BY <1>1, <1>6, <1>7
  <2> HIDE DEF carry
  <2>2. CASE carry = 1
    <3>1. r >= h /\ r + bit >= h + 1
      BY <1>1, <1>6, <1>7, <2>1, <2>2
    <3>2. U * carry = U
      BY <1>1, <2>2
    <3> QED
      BY <1>1, <1>6, <1>7, <2>2, <3>1, <3>2
  <2>3. CASE carry = 0
    <3>1. r + bit <= h
      BY <1>1, <1>6, <1>7, <2>1, <2>3
    <3>2. U * carry = 0
      BY <1>1, <2>3
    <3> QED
      BY <1>1, <1>6, <1>7, <2>3, <3>1, <3>2
  <2> QED
    BY <2>1, <2>2, <2>3
<1> HIDE DEF carry
<1>9. y \in Nat /\ y >= H /\ y < W + H
  <2>1. h <= H
    <3>1. h <= U /\ U <= W /\ 2 * h <= 2 * H
      <4>1. U <= M * U
        BY <1>1
      <4> QED
        BY <1>1, <4>1
    <3> QED
      BY <1>1, <3>1
  <2> QED
    BY <1>1, <1>5, <1>7, <2>1
<1>10. Signed(sum, WordBits) = y - W
  <2> HIDE DEF y
  <2>1. sum = y % W
    BY DEF y
  <2>2. y < W => y % W = y
    BY <1>1, <1>9
  <2>3. ~(y < W) => y % W = y - W
    BY <1>1, <1>9
  <2> HIDE DEF sum
  <2>4. CASE y < W
    BY <1>1, <1>4, <1>9, <2>1, <2>2, <2>4
  <2>5. CASE ~(y < W)
    BY <1>1, <1>4, <1>9, <2>1, <2>3, <2>5
  <2> QED
    BY <2>4, <2>5
<1>11. (y - W) \div U = b + carry - M
  <2> DEFINE q == b + carry - M
  <2>1. q \in Int
    BY <1>1, <1>6, <1>8
  <2>2. y = U * b + U * carry + s
    <3> DEFINE c == U * carry
               d == U * b
    <3>1. c \in Int /\ d \in Int
      BY <1>1, <1>6, <1>8
    <3> HIDE DEF c, d
    <3>2. x = d + r
      BY <1>6 DEF d
    <3>3. r + h - 1 + bit - c = s
      BY DEF c
    <3>4. x + h - 1 + bit = d + c + (r + h - 1 + bit - c)
      BY <1>1, <1>6, <1>7, <3>1, <3>2
    <3> QED
      BY <3>3, <3>4 DEF c, d
  <2>3. q * U = U * b + U * carry - W
    BY <1>1, <1>6, <1>8
  <2> HIDE DEF s, y, q
  <2>4. U * b \in Int /\ U * carry \in Int
    BY <1>1, <1>6, <1>8
  <2>5. y - W = q * U + s
    <3> DEFINE c == U * carry
               d == U * b
               e == q * U
    <3>1. c \in Int /\ d \in Int /\ e \in Int /\ s \in Int /\ W \in Int
      BY <1>1, <1>8, <2>1, <2>4
    <3>2. y = d + c + s /\ e = d + c - W
      BY <2>2, <2>3
    <3> HIDE DEF c, d, e
    <3>3. y - W = e + s
      BY <3>1, <3>2
    <3> QED
      BY <3>3 DEF e
  <2>6. (q * U + s) \div U = q
    BY <1>1, <1>8, <2>1, QuotientUnique
  <2> QED
    BY <2>5, <2>6 DEF q
<1> HIDE DEF sum, y
<1>12. M + (b + carry - M) = b + carry
  BY <1>1, <1>6, <1>8
<1>13. (b + carry) * U = U * (b + carry)
  BY <1>1, <1>6, <1>8
<1> QED
  BY <1>2, <1>3, <1>10, <1>11, <1>12, <1>13

LEMMA WordsRoundToEven ==
    ASSUME NEW x \in 0 .. pow2[WordBits] - 1
    PROVE  cvtepu32(x) =
             LET length == CHOOSE n \in 0 .. WordBits : x < pow2[n] /\ (n > 0 => x >= pow2[n - 1])
             IN  IF length > Mantissa THEN RoundEven(x, length - Mantissa) ELSE x
<1> DEFINE Fits(n) == x < pow2[n] /\ (n > 0 => x >= pow2[n - 1])
           length == CHOOSE n \in 0 .. WordBits : Fits(n)
<1>1. /\ pow2[WordBits] \in Nat \ {0} /\ pow2[WordBits - 1] \in Nat \ {0} /\ WordBits \in Nat \ {0}
      /\ Mantissa \in Nat /\ WordBits > Mantissa
  <2>1. WordBits \in Nat \ {0} /\ WordBits - 1 \in Nat /\ Mantissa \in Nat /\ WordBits > Mantissa
    BY VectorAssumption
  <2> QED
    BY <2>1, Widths
<1>2. x \in Nat /\ x < pow2[WordBits]
  BY <1>1
<1>3. CASE x < pow2[WordBits - 1]
  <2>1. cvtepu32(x) = cvtepi32(x)
    BY <1>3, Zenon DEF cvtepu32
  <2> QED
    BY <2>1, SmallWordsRound
<1>4. CASE ~(x < pow2[WordBits - 1])
  <2>1. x >= pow2[WordBits - 1]
    BY <1>1, <1>2, <1>4
  <2>2. WordBits \in 0 .. WordBits /\ Fits(WordBits)
    BY <1>1, <1>2, <2>1
  <2>3. ASSUME NEW n \in 0 .. WordBits, Fits(n), n # WordBits PROVE FALSE
    <3>1. n \in Nat /\ n <= WordBits - 1 /\ WordBits - 1 \in Nat
      BY <1>1, <2>3
    <3>2. pow2[n] <= pow2[WordBits - 1] /\ pow2[n] \in Nat
      BY <3>1, Pow2Grows
    <3> QED
      BY <1>1, <1>2, <2>1, <2>3, <3>2
  <2>4. length = WordBits
    <3> HIDE DEF Fits
    <3> QED
      BY <2>2, <2>3
  <2>5. length = CHOOSE n \in 0 .. WordBits : x < pow2[n] /\ (n > 0 => x >= pow2[n - 1])
    OBVIOUS
  <2> HIDE DEF length
  <2>6. cvtepu32(x) = IF length > Mantissa THEN RoundEven(x, length - Mantissa) ELSE x
    BY <1>1, <2>1, <2>4, LargeWordsRound DEF DroppedBits
  <2> QED
    BY <2>5, <2>6
<1> QED
  BY <1>3, <1>4

-----------------------------------------------------------------------------
(* An operation leaves what it has computed.                               *)
LEMMA Leaves ==
    ASSUME NEW name, NEW args, NEW result, Do(name, args, result),
           Computes(name, args[1], args[2], result)
    PROVE  VectorsMatch'
<1>1. operation' = name /\ operands'[name] = args /\ outcome'[name] = result
  BY DEF Do
<1>2. Computes(operation', operands'[operation'][1], operands'[operation'][2], outcome'[operation'])
  BY <1>1, Zenon
<1> QED
  BY <1>2, Zenon DEF VectorsMatch

LEMMA LoadsMatch ==
    ASSUME Loads PROVE VectorsMatch'
<1>1. PICK address \in 0 .. 31 :
        \/ Do("load", <<address>>, LoadByParts(address))
        \/ Do("load", <<address>>, LoadByPerm(address))
        \/ Do("shift", <<address>>, ShiftByPerm(address))
  BY Zenon DEF Loads
<1> DEFINE args == <<address>>
           bytes == [i \in 0 .. 15 |-> Memory[address + 15 - i]]
           later == [i \in 0 .. 15 |-> Memory[31 - i - (address % 16)]]
<1>2. args[1] = address
  OBVIOUS
<1> HIDE DEF args
<1>3. LoadByParts(address) = bytes
  <2>1. LoadByParts(address) = [i \in 0 .. 15 |-> LoadByParts(address)[i]]
    BY DEF LoadByParts, Or
  <2> QED
    BY <2>1, PartsLoad
<1>4. LoadByPerm(address) = bytes
  <2>1. LoadByPerm(address) = [i \in 0 .. 15 |-> LoadByPerm(address)[i]]
    BY DEF LoadByPerm, Perm
  <2> QED
    BY <2>1, PermLoads
<1>5. ShiftByPerm(address) = later
  <2>1. ShiftByPerm(address) = [i \in 0 .. 15 |-> ShiftByPerm(address)[i]]
    BY DEF ShiftByPerm, Perm
  <2> QED
    BY <2>1, PermShifts
<1>6. ASSUME NEW y PROVE Computes("load", address, y, bytes) /\ Computes("shift", address, y, later)
  BY DEF Computes
<1> HIDE DEF bytes, later
<1>7. /\ Computes("load", args[1], args[2], LoadByParts(address))
      /\ Computes("load", args[1], args[2], LoadByPerm(address))
      /\ Computes("shift", args[1], args[2], ShiftByPerm(address))
  BY <1>2, <1>3, <1>4, <1>5, <1>6
<1> QED
  BY <1>1, <1>7, Leaves DEF args

LEMMA ArithmeticMatches ==
    ASSUME Arithmetic PROVE VectorsMatch'
<1>1. PICK a \in Lane, b \in Lane :
        \/ Do("adds", <<a, b>>, AddsUnsigned(a, b))
        \/ Do("avg", <<a, b>>, AvgSigned(a, b))
        \/ Do("cmpgt", <<a, b>>, setFromMask(<<GreaterUnsigned(a, b), GreaterUnsigned(a, 1)>>))
  BY Zenon DEF Arithmetic
<1> DEFINE args == <<a, b>>
           both == setFromMask(<<GreaterUnsigned(a, b), GreaterUnsigned(a, 1)>>)
<1>2. args[1] = a /\ args[2] = b
  OBVIOUS
<1>3. Computes("adds", a, b, AddsUnsigned(a, b))
  <2>1. AddsUnsigned(a, b) = Smaller(a + b, pow2[Bits] - 1)
    BY AddsSaturate
  <2> QED
    BY <2>1 DEF Computes
<1>4. Computes("avg", a, b, AvgSigned(a, b))
  <2>1. Signed(AvgSigned(a, b), Bits) = (Signed(a, Bits) + Signed(b, Bits) + 1) \div 2
    BY AveragesRoundUp
  <2> QED
    BY <2>1 DEF Computes
<1>5. Computes("cmpgt", a, b, both)
  <2>1. 1 \in Lane /\ a \in Int /\ b \in Int
    BY LanesHalve DEF Lane
  <2>2. GreaterUnsigned(a, b) = (a > b) /\ GreaterUnsigned(a, 1) = (a > 1)
    BY <2>1, ComparesUnsigned
  <2>3. both.lt = (a > b /\ a > 1) /\ both.eq = (~(a > b) /\ ~(a > 1))
    <3> DEFINE mask == <<a > b, a > 1>>
               all == \A i \in DOMAIN mask : mask[i]
               none == \A i \in DOMAIN mask : ~mask[i]
    <3>1. both = [lt |-> all, gt |-> FALSE, eq |-> none, un |-> FALSE]
      BY <2>2, Zenon DEF setFromMask
    <3>2. all = (a > b /\ a > 1) /\ none = (~(a > b) /\ ~(a > 1))
      <4>1. DOMAIN mask = {1, 2} /\ mask[1] = (a > b) /\ mask[2] = (a > 1)
        OBVIOUS
      <4> HIDE DEF mask
      <4> QED
        BY <4>1, Zenon
    <3> HIDE DEF all, none, both
    <3> QED
      BY <3>1, <3>2, Zenon
  <2>4. (a <= b) = ~(a > b) /\ (a <= 1) = ~(a > 1)
    BY <2>1
  <2>5. both.lt = (a > b /\ a > 1) /\ both.eq = (a <= b /\ a <= 1)
    BY <2>3, <2>4
  <2> HIDE DEF both
  <2> QED
    BY <2>5 DEF Computes
<1> HIDE DEF args, both
<1>6. /\ Computes("adds", args[1], args[2], AddsUnsigned(a, b))
      /\ Computes("avg", args[1], args[2], AvgSigned(a, b))
      /\ Computes("cmpgt", args[1], args[2], both)
  BY <1>2, <1>3, <1>4, <1>5
<1> QED
  BY <1>1, <1>6, Leaves DEF args, both

LEMMA ComparesMatch ==
    ASSUME Compares PROVE VectorsMatch'
<1>1. PICK a \in {NaN} \cup {-1, 0, 1}, b \in {NaN} \cup {-1, 0, 1} :
        Do("compare", <<a, b>>, CompareNumbers(a, b))
  BY Zenon DEF Compares
<1> DEFINE args == <<a, b>>
<1>2. args[1] = a /\ args[2] = b
  OBVIOUS
<1>3. a \in Int /\ b \in Int
  BY DEF NaN
<1>4. CompareNumbers(a, b) =
        IF NaN \in {a, b} THEN [lt |-> FALSE, gt |-> FALSE, eq |-> FALSE, un |-> TRUE]
        ELSE [lt |-> a < b, gt |-> b < a, eq |-> a = b, un |-> FALSE]
  <2>1. CASE NaN \in {a, b}
    BY <2>1 DEF CompareNumbers
  <2>2. CASE ~(NaN \in {a, b})
    <3> DEFINE un == NaN \in {a, b}
    <3>1. CompareNumbers(a, b) = [lt |-> ~un /\ a < b, gt |-> ~un /\ a > b, eq |-> ~un /\ a = b, un |-> un]
      BY Zenon DEF CompareNumbers
    <3>2. un = FALSE
      BY <2>2
    <3>3. (a > b) = (b < a)
      BY <1>3
    <3> HIDE DEF un
    <3>4. (~un /\ a < b) = (a < b) /\ (~un /\ a > b) = (b < a) /\ (~un /\ a = b) = (a = b)
      BY <3>2, <3>3
    <3>5. CompareNumbers(a, b) = [lt |-> a < b, gt |-> b < a, eq |-> a = b, un |-> FALSE]
      BY <3>1, <3>2, <3>4, Zenon
    <3> QED
      BY <2>2, <3>5, Zenon
  <2> QED
    BY <2>1, <2>2
<1>5. Computes("compare", a, b, CompareNumbers(a, b))
  BY <1>4 DEF Computes
<1> HIDE DEF args
<1>6. Computes("compare", args[1], args[2], CompareNumbers(a, b))
  BY <1>2, <1>5
<1> QED
  BY <1>1, <1>6, Leaves DEF args

LEMMA ShiftsMatch ==
    ASSUME Shifts PROVE VectorsMatch'
<1>1. PICK words \in [1 .. 4 -> {0, pow2[Bits] - 1, 5 % pow2[Bits]}], n \in 0 .. Bits - 1 :
        Do("vsr", <<words, n>>, vsr(words, n))
  BY Zenon DEF Shifts
<1> DEFINE args == <<words, n>>
<1>2. args[1] = words /\ args[2] = n
  OBVIOUS
<1>3. words \in [1 .. 4 -> Lane]
  <2> DEFINE p == pow2[Bits]
  <2>1. p \in Nat \ {0}
    BY LanesHalve
  <2>2. 0 \in 0 .. p - 1 /\ p - 1 \in 0 .. p - 1 /\ 5 % p \in 0 .. p - 1
    BY <2>1
  <2> QED
    BY <2>2 DEF Lane
<1>4. Number(vsr(words, n)) = Number(words) \div pow2[n]
  BY <1>3, ShiftsMoveBits
<1>5. Computes("vsr", words, n, vsr(words, n))
  BY <1>4 DEF Computes
<1> HIDE DEF args
<1>6. Computes("vsr", args[1], args[2], vsr(words, n))
  BY <1>2, <1>5
<1> QED
  BY <1>1, <1>6, Leaves DEF args

LEMMA ConversionsMatch ==
    ASSUME Conversions PROVE VectorsMatch'
<1>1. CASE \E x \in {NaN} \cup (2 * Least .. -2 * Least) : Do("vctsxs", <<x>>, vctsxs(x))
  <2>1. PICK x \in {NaN} \cup (2 * Least .. -2 * Least) : Do("vctsxs", <<x>>, vctsxs(x))
    BY <1>1
  <2> DEFINE args == <<x>>
  <2>2. args[1] = x
    OBVIOUS
  <2>3. x \in Int
    BY DEF NaN
  <2>4. vctsxs(x) = IF x = NaN THEN 0 ELSE IF x < Least THEN Least ELSE Smaller(x, -Least - 1)
    BY <2>3, FloatsSaturate
  <2>5. ASSUME NEW y PROVE Computes("vctsxs", x, y, vctsxs(x))
    BY <2>4 DEF Computes
  <2> HIDE DEF args
  <2>6. Computes("vctsxs", args[1], args[2], vctsxs(x))
    BY <2>2, <2>5
  <2> QED
    BY <2>1, <2>6, Leaves DEF args
<1>2. CASE \E x \in 0 .. pow2[WordBits] - 1 : Do("cvtepu", <<x>>, cvtepu32(x))
  <2>1. PICK x \in 0 .. pow2[WordBits] - 1 : Do("cvtepu", <<x>>, cvtepu32(x))
    BY <1>2
  <2> DEFINE args == <<x>>
  <2>2. args[1] = x
    OBVIOUS
  <2>3. cvtepu32(x) =
          LET length == CHOOSE n \in 0 .. WordBits : x < pow2[n] /\ (n > 0 => x >= pow2[n - 1])
          IN  IF length > Mantissa THEN RoundEven(x, length - Mantissa) ELSE x
    BY WordsRoundToEven
  <2>4. ASSUME NEW y PROVE Computes("cvtepu", x, y, cvtepu32(x))
    BY <2>3 DEF Computes
  <2> HIDE DEF args
  <2>5. Computes("cvtepu", args[1], args[2], cvtepu32(x))
    BY <2>2, <2>4
  <2> QED
    BY <2>1, <2>5, Leaves DEF args
<1> QED
  BY <1>1, <1>2, Zenon DEF Conversions

(* Every vector helper gives what the guest's processor does, for every    *)
(* width of a lane, of a word and of a float's mantissa, and any memory.   *)
THEOREM VectorsAlwaysMatch == VectorSpec => []VectorsMatch
<1>1. VectorInit => VectorsMatch
  BY DEF VectorInit, VectorsMatch, Computes
<1>2. VectorsMatch /\ [VectorNext]_vectorVars => VectorsMatch'
  <2> SUFFICES ASSUME VectorsMatch, [VectorNext]_vectorVars PROVE VectorsMatch'
    OBVIOUS
  <2>1. CASE Loads
    BY <2>1, LoadsMatch
  <2>2. CASE Arithmetic
    BY <2>2, ArithmeticMatches
  <2>3. CASE Compares
    BY <2>3, ComparesMatch
  <2>4. CASE Shifts
    BY <2>4, ShiftsMatch
  <2>5. CASE Conversions
    BY <2>5, ConversionsMatch
  <2>6. CASE UNCHANGED vectorVars
    BY <2>6, Zenon DEF VectorsMatch, vectorVars
  <2> QED
    BY <2>1, <2>2, <2>3, <2>4, <2>5, <2>6 DEF VectorNext
<1> QED
  BY <1>1, <1>2, PTL DEF VectorSpec

=============================================================================
