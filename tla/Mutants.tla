------------------------------- MODULE Mutants --------------------------------
(***************************************************************************)
(* A mutant of runtime/kernel/imports.cpp: struct Mutant (Wait, Release)   *)
(* as NtCreateMutant, NtWaitForSingleObjectEx and NtReleaseMutant reach    *)
(* it.  The code keeps no owner: a mutant is one atomic flag.              *)
(*                                                                         *)
(* Mutant::locked is used with wait(true), which compares and parks as one *)
(* step and may wake for no reason; on x86-64 the weak compare-exchange    *)
(* fails only when the flag differs.                                       *)
(*                                                                         *)
(* pc[t] inside a wait:                                                    *)
(*   poll                  Mutant::Wait(0)                                 *)
(*   look                  head of a loop of Mutant::Wait                  *)
(*   compare, asleep       inside locked.wait(true)                        *)
(***************************************************************************)
EXTENDS Integers, FiniteSets

CONSTANTS Threads,
          Creator,        \* the thread that calls NtCreateMutant
          InitialOwner    \* its initialOwner argument

ASSUME MutantAssumption == Creator \in Threads /\ InitialOwner \in BOOLEAN

VARIABLES locked,    \* Mutant::locked
          pc,        \* where each thread is
          timeout,   \* what the wait it is in was given
          holds      \* history: the threads told that they own the mutant

vars == <<locked, pc, timeout, holds>>

Timeouts == {"zero", "infinite", "finite"}
InWait == {"poll", "look", "compare", "asleep"}
Sleepers == {t \in Threads : pc[t] = "asleep"}

Init ==
    /\ locked = InitialOwner
    /\ pc = [t \in Threads |-> "guest"]
    /\ timeout = [t \in Threads |-> "none"]
    /\ holds = IF InitialOwner THEN {Creator} ELSE {}

Goto(t, location) ==
    /\ pc' = [pc EXCEPT ![t] = location]
    /\ UNCHANGED timeout

Return(t) ==
    /\ pc' = [pc EXCEPT ![t] = "guest"]
    /\ timeout' = [timeout EXCEPT ![t] = "none"]

(* Any thread may wait, the owner too: the code has no recursion to offer. *)
CallWait(t) ==
    /\ pc[t] = "guest"
    /\ \E limit \in Timeouts :
         /\ timeout' = [timeout EXCEPT ![t] = limit]
         /\ pc' = [pc EXCEPT ![t] = IF limit = "zero" THEN "poll" ELSE "look"]
    /\ UNCHANGED <<locked, holds>>

(* The compare-exchange of a poll or of a loop succeeds.                   *)
Take(t) ==
    /\ pc[t] \in {"poll", "look"}
    /\ ~locked
    /\ locked' = TRUE
    /\ holds' = holds \cup {t}
    /\ Return(t)

PollFails(t) ==
    /\ pc[t] = "poll"
    /\ locked
    /\ Return(t)
    /\ UNCHANGED <<locked, holds>>

Miss(t) ==
    /\ pc[t] = "look"
    /\ locked
    /\ Goto(t, "compare")
    /\ UNCHANGED <<locked, holds>>

(* The timed loop finds its time elapsed, which only its head looks at.    *)
Expire(t) ==
    /\ pc[t] = "look"
    /\ timeout[t] = "finite"
    /\ Return(t)
    /\ UNCHANGED <<locked, holds>>

Park(t) ==
    /\ pc[t] = "compare"
    /\ locked
    /\ Goto(t, "asleep")
    /\ UNCHANGED <<locked, holds>>

(* A bug the code could have: taking the return of locked.wait for the     *)
(* lock, as the manual events of Event::Wait do.                           *)
WaitIsEnough(t) ==
    /\ pc[t] = "compare"
    /\ ~locked
    /\ Return(t)
    /\ UNCHANGED <<locked, holds>>

ReturnToLoop(t) ==
    /\ pc[t] = "compare"
    /\ ~locked
    /\ Goto(t, "look")
    /\ UNCHANGED <<locked, holds>>

(* The system wakes a parked thread.  No code does: Release only stores.   *)
SpuriousWake(t) ==
    /\ pc[t] = "asleep"
    /\ Goto(t, "compare")
    /\ UNCHANGED <<locked, holds>>

(* NtReleaseMutant, by the thread that owns the mutant.                    *)
Release(t) ==
    /\ pc[t] = "guest"
    /\ t \in holds
    /\ locked' = FALSE
    /\ holds' = holds \ {t}
    /\ UNCHANGED <<pc, timeout>>

(* What a thread inside a wait does without the guest's choice.            *)
Step(t) == Take(t) \/ PollFails(t) \/ Miss(t) \/ Park(t) \/ ReturnToLoop(t)

Next ==
    \E t \in Threads :
        CallWait(t) \/ Expire(t) \/ SpuriousWake(t) \/ Release(t) \/ Step(t)

Spec == Init /\ [][Next]_vars

(* The host's scheduler runs every thread that can run; guest calls, the   *)
(* clock and spurious wakes come as they please.                           *)
FairSpec == Spec /\ \A t \in Threads : WF_vars(Step(t))

-----------------------------------------------------------------------------
TypeOK ==
    /\ locked \in BOOLEAN
    /\ pc \in [Threads -> {"guest"} \cup InWait]
    /\ timeout \in [Threads -> {"none"} \cup Timeouts]
    /\ \A t \in Threads :
         /\ pc[t] = "guest" <=> timeout[t] = "none"
         /\ pc[t] = "poll" <=> timeout[t] = "zero"
    /\ holds \subseteq Threads

(* At most one thread believes to own the mutant, and then it is locked.   *)
OneOwner ==
    /\ holds # {} => locked
    /\ \A s, t \in holds : s = t

(* The flag, the exchanges and the parkings are those of a semaphore that  *)
(* has one unit: a wait without a limit ends with the mutant taken.        *)
Promise == INSTANCE CountingSemaphore WITH
    Increments <- {1},
    InitialCount <- IF InitialOwner THEN 0 ELSE 1,
    Modulus <- 2,
    count <- IF locked THEN 0 ELSE 1,
    waiting <- [t \in Threads |-> IF pc[t] \notin InWait THEN "none"
                                  ELSE IF timeout[t] = "infinite" THEN "unlimited"
                                  ELSE "limited"]

ImplementsBinarySemaphore == Promise!Spec

(* A sleeper beside a mutant that stays free is woken: what a release does *)
(* in Event, whose implementation the comment on Mutant says this is.      *)
FreeMutantWakesSleepers ==
    \A t \in Threads : (pc[t] = "asleep" /\ ~locked) ~> (pc[t] # "asleep" \/ locked)

=============================================================================
