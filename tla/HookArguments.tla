----------------------------- MODULE HookArguments ----------------------------
(***************************************************************************)
(* Calls between recompiled code and the host (runtime/hook.hpp), with the *)
(* stack variables of runtime/xenon/guest_stack_var.hpp and the rounding   *)
(* and flush modes of PPCFPSCRRegister (recompiled/ppc/ppc_context.h).     *)
(*                                                                         *)
(* One guest thread: the context it runs on and what is called from what   *)
(* are its own, and so is the mode of the processor (MXCSR).  Recompiled   *)
(* code keeps the calling convention and lowers r1 by FrameSize while it   *)
(* runs.  Arguments and results are numbers; a register that nobody wrote  *)
(* reads Garbage.                                                          *)
(***************************************************************************)
EXTENDS Integers, Sequences, SequencesExt, FiniteSets

CONSTANTS Calls,      \* the calls: [kinds, values] of their arguments, 0-based
          Results,    \* what callees return: [kind, value]
          MaxDepth,   \* bound: frames that are open at once
          MaxVars,    \* bound: stack variables of a host function
          Modes       \* [flush, round] that guest code asks for

ASSUME CallsAssumption ==
    \A call \in Calls : /\ call.kinds \in Seq({"int", "float", "pointer"})
                        /\ call.values \in Seq(Nat)
                        /\ Len(call.values) = Len(call.kinds)

ASSUME ModesAssumption == Modes \subseteq [flush : BOOLEAN, round : 0 .. 3]

VARIABLES frames,     \* what runs, the last one on top: who, its part of the stack,
                      \* its variables
          contexts,   \* the PPCContexts: the thread's own and one per call of the guest
          current,    \* GLOBAL_CPU_CONTEXT, as an index
          mxcsr,      \* the mode of the processor
          asked,      \* history: the mode that guest code set last
          moved       \* history: what was moved last: to whom, of which kinds, the
                      \* values that were sent and those that were received

hookVars == <<frames, contexts, current, mxcsr, asked, moved>>

Width32 == 16         \* a word has four bits here: u32 is % Width32
Garbage == -1
StackTop == 64        \* addresses count units of eight bytes
FrameSize == 2
NotNull == -2          \* the base of the guest's memory, as a host pointer

Top == Last(frames)
Under(frame) == Append(Front(frames), frame)
Context == contexts[current]

-----------------------------------------------------------------------------
(* A bug the code could have: integers numbered apart from the floats.     *)
GatherPacked(kinds, i) ==
    Cardinality({j \in 0 .. i - 1 : (kinds[j + 1] = "float") <=> (kinds[i + 1] = "float")})

(* GatherFunctionArguments: a float has the number of floats before it, any *)
(* other argument its place among all.                                      *)
GatherFunctionArguments(kinds, i) ==
    IF kinds[i + 1] = "float" THEN Cardinality({j \in 0 .. i - 1 : kinds[j + 1] = "float"}) ELSE i

(* Where an argument is: r3 to r10, f1 to f13, or the parameter area of    *)
(* the stack, a slot of eight bytes for each argument, whatever its kind.  *)
Nowhere == <<"none", 0>>
Place(kind, ordinal) ==
    IF kind = "float" THEN IF ordinal <= 12 THEN <<"f", ordinal + 1>> ELSE Nowhere
    ELSE IF ordinal <= 7 THEN <<"r", ordinal + 3>> ELSE <<"stack", ordinal - 8>>

(* Registers and slots, after values are written to their places in turn.  *)
Placed(places, values) ==
    [place \in Range(places) \ {Nowhere} |->
       values[Max({i \in DOMAIN places : places[i] = place})]]

Read(regs, place) == IF place \in DOMAIN regs THEN regs[place] ELSE Garbage

(* GetValue: a float beyond the registers is 0; an integer or a pointer is *)
(* the low word of its register or slot.                                   *)
GetValue(regs, kind, ordinal) ==
    LET raw == Read(regs, Place(kind, ordinal))
    IN  IF kind = "float" /\ ordinal > 12 THEN 0
        ELSE IF kind = "float" \/ raw = Garbage THEN raw
        ELSE raw % Width32

(* SetValue writes nothing for a null pointer, nor beyond the registers.   *)
SetValue(kind, ordinal, value) ==
    IF (kind = "pointer" /\ value = 0) \/ Place(kind, ordinal)[1] = "stack" THEN Nowhere
    ELSE Place(kind, ordinal)

(* What recompiled code does before a call, and on its entry: floats in    *)
(* the order of the floats, everything else where it stands among all.     *)
ConventionalPlace(kinds, i) ==
    LET floats == Cardinality({j \in 0 .. i - 1 : kinds[j + 1] = "float"})
    IN  CASE kinds[i + 1] = "float" /\ floats < 13 -> <<"f", floats + 1>>
          [] kinds[i + 1] # "float" /\ i < 8 -> <<"r", i + 3>>
          [] OTHER -> <<"stack", i - 8>>

Passed(call) ==
    Placed([i \in DOMAIN call.kinds |-> ConventionalPlace(call.kinds, i - 1)], call.values)

Received(regs, call) ==
    [i \in DOMAIN call.kinds |-> Read(regs, ConventionalPlace(call.kinds, i - 1))]

-----------------------------------------------------------------------------
(* A guest function that begins lowers r1; r1 is not the host's to use.    *)
GuestFrame(r1) == [who |-> "guest", from |-> r1, bottom |-> r1 - FrameSize, variables |-> <<>>]
HostFrame(r1) == [who |-> "host", from |-> r1, bottom |-> r1, variables |-> <<>>]

Moved(what, to, kinds, sent, got) ==
    [what |-> what, to |-> to, kinds |-> kinds, sent |-> sent, got |-> got]

(* The rounding modes, nearest, to zero, up and down in the guest's order, *)
(* and nearest, down, up and to zero in the host's.                        *)
GuestToHost == [round \in 0 .. 3 |-> <<0, 3, 2, 1>>[round + 1]]
HostToGuest == [round \in 0 .. 3 |-> <<0, 3, 2, 1>>[round + 1]]

(* GuestThreadContext: the thread's context, with the mode of the host.    *)
HookInit ==
    /\ mxcsr \in Modes
    /\ asked = [mxcsr EXCEPT !.round = HostToGuest[@]]
    /\ frames = <<GuestFrame(StackTop)>>
    /\ contexts = <<[r1 |-> StackTop - FrameSize, csr |-> mxcsr]>>
    /\ current = 1
    /\ moved = Moved("call", "guest", <<>>, <<>>, <<>>)

(* PPCFPSCRRegister: the flush mode is set only where the cached one is    *)
(* another; the rounding mode always, with the cached flush mode.          *)
FlushMode(flush) ==
    /\ Top.who = "guest"
    /\ IF Context.csr.flush # flush
       THEN /\ contexts' = [contexts EXCEPT ![current].csr.flush = flush]
            /\ mxcsr' = [Context.csr EXCEPT !.flush = flush]
       ELSE UNCHANGED <<contexts, mxcsr>>
    /\ asked' = [asked EXCEPT !.flush = flush]
    /\ UNCHANGED <<frames, current, moved>>

storeFromGuest(round) ==
    /\ Top.who = "guest"
    /\ contexts' = [contexts EXCEPT ![current].csr.round = GuestToHost[round]]
    /\ mxcsr' = [Context.csr EXCEPT !.round = GuestToHost[round]]
    /\ asked' = [asked EXCEPT !.round = round]
    /\ UNCHANGED <<frames, current, moved>>

loadFromHost ==
    /\ Top.who = "guest"
    /\ contexts' = [contexts EXCEPT ![current].csr = mxcsr]
    /\ moved' = Moved("result", "guest", <<"mode">>, <<asked.round>>, <<HostToGuest[mxcsr.round]>>)
    /\ UNCHANGED <<frames, current, mxcsr, asked>>

-----------------------------------------------------------------------------
(* HostToGuestFunction, the body of a hook: the guest calls a host         *)
(* function, which gets its arguments from the caller's context.           *)
HostToGuestFunction(call) ==
    /\ Top.who = "guest"
    /\ Len(frames) < MaxDepth
    /\ frames' = Append(frames, HostFrame(Context.r1))
    /\ LET regs == Passed(call)
           Got(i) == GetValue(regs, call.kinds[i], GatherFunctionArguments(call.kinds, i - 1))
       IN  moved' = Moved("call", "host", call.kinds, call.values,
                          [i \in DOMAIN call.kinds |-> Got(i)])
    /\ UNCHANGED <<contexts, current, mxcsr, asked>>

(* Its return: an integer in r3, a float in f1, a pointer as its offset,   *)
(* and 0 for a null pointer, where the guest looks for them.               *)
HostReturns(result) ==
    /\ Top.who = "host"
    /\ Top.variables = <<>>
    /\ frames' = Front(frames)
    /\ moved' = Moved("result", "guest", <<result.kind>>, <<result.value>>, <<result.value>>)
    /\ UNCHANGED <<contexts, current, mxcsr, asked>>

(* GuestToHostFunction: the host calls a guest function on a new context,  *)
(* of which only r1, r13, the mode and the arguments are written.          *)
GuestToHostFunction(call) ==
    /\ Top.who = "host"
    /\ Len(frames) < MaxDepth
    /\ LET Set(i) == SetValue(call.kinds[i], GatherFunctionArguments(call.kinds, i - 1), call.values[i])
           regs == Placed([i \in DOMAIN call.kinds |-> Set(i)], call.values)
       IN  moved' = Moved("call", "guest", call.kinds, call.values, Received(regs, call))
    /\ frames' = Append(frames, GuestFrame(Context.r1))
    /\ contexts' = Append(contexts, [r1 |-> Context.r1 - FrameSize, csr |-> Context.csr])
    /\ current' = Len(contexts) + 1
    /\ UNCHANGED <<mxcsr, asked>>

(* A null pointer that a guest function returns is translated like any     *)
(* other, to the base of the guest's memory.                               *)
ResultToHost(result) ==
    Moved("result", "host", <<result.kind>>, <<result.value>>,
          <<IF result.kind = "pointer" /\ result.value = 0 THEN NotNull ELSE result.value>>)

(* A bug the code could have: the caller keeps the mode it had.            *)
KeepCallersMode(result) ==
    /\ Top.who = "guest" /\ Len(frames) > 1
    /\ contexts' = Front(contexts)
    /\ current' = Len(contexts) - 1
    /\ frames' = Front(frames)
    /\ moved' = ResultToHost(result)
    /\ UNCHANGED <<mxcsr, asked>>

(* Its return: the caller's context is the current one again, and has the  *)
(* mode that the guest function left.                                      *)
GuestReturns(result) ==
    /\ Top.who = "guest" /\ Len(frames) > 1
    /\ contexts' = [Front(contexts) EXCEPT ![Len(contexts) - 1].csr = Context.csr]
    /\ current' = Len(contexts) - 1
    /\ frames' = Front(frames)
    /\ moved' = ResultToHost(result)
    /\ UNCHANGED <<mxcsr, asked>>

-----------------------------------------------------------------------------
(* A local guest_stack_var of a host function: r1 is lowered for it, and   *)
(* restored in the reverse order, by scope.                                *)
AllocGuestStackMemory(size, align) ==
    /\ Top.who = "host"
    /\ Len(Top.variables) < MaxVars
    /\ LET ptr == ((Context.r1 - size) \div align) * align
       IN  /\ frames' = Under([Top EXCEPT !.variables =
                                 Append(@, [ptr |-> ptr, size |-> size, old |-> Context.r1])])
           /\ contexts' = [contexts EXCEPT ![current].r1 = ptr]
    /\ UNCHANGED <<current, mxcsr, asked, moved>>

ReleaseGuestStackMemory ==
    /\ Top.who = "host"
    /\ Top.variables # <<>>
    /\ frames' = Under([Top EXCEPT !.variables = Front(@)])
    /\ contexts' = [contexts EXCEPT ![current].r1 = Last(Top.variables).old]
    /\ UNCHANGED <<current, mxcsr, asked, moved>>

HookNext ==
    \/ \E flush \in {mode.flush : mode \in Modes} : FlushMode(flush)
    \/ \E round \in DOMAIN GuestToHost : storeFromGuest(round)
    \/ \E call \in Calls : HostToGuestFunction(call) \/ GuestToHostFunction(call)
    \/ \E result \in Results : HostReturns(result) \/ GuestReturns(result)
    \/ \E size \in 1 .. 2, align \in {1, 2} : AllocGuestStackMemory(size, align)
    \/ ReleaseGuestStackMemory
    \/ loadFromHost

HookSpec == HookInit /\ [][HookNext]_hookVars

-----------------------------------------------------------------------------
(* What becomes of argument or result i, of what is sent.                  *)
Expected(what, to, kinds, sent, i) ==
    LET floats == Cardinality({j \in 0 .. i - 2 : kinds[j + 1] = "float"})
    IN  CASE what = "call" /\ to = "host" ->
               IF kinds[i] # "float" THEN sent[i] % Width32 ELSE IF floats > 12 THEN 0 ELSE sent[i]
          [] what = "call" /\ to = "guest" ->
               IF \/ IF kinds[i] = "float" THEN floats > 12 ELSE i > 8
                  \/ kinds[i] = "pointer" /\ sent[i] = 0
               THEN Garbage ELSE sent[i]
          [] what = "result" ->
               IF to = "host" /\ kinds[i] = "pointer" /\ sent[i] = 0 THEN NotNull ELSE sent[i]

(* Whatever the kinds of its arguments, a callee gets what its caller      *)
(* passed, in both directions, except what hook.hpp cannot pass: to the    *)
(* host, floats after the thirteenth, which are 0, and the high half of an *)
(* integer; to the guest, what is beyond the registers, and null pointers, *)
(* in whose place is whatever the new context's register held.  Results    *)
(* arrive, but a null pointer that a guest function returns is not null.   *)
ArgumentsArrive ==
    \A i \in DOMAIN moved.kinds :
        moved.got[i] = Expected(moved.what, moved.to, moved.kinds, moved.sent, i)

(* However calls nest, guest code that runs has the mode it last set, in   *)
(* the processor and in the context it reads; it finds r1 where it left it *)
(* however many variables the functions it called had; and no two frames   *)
(* or variables that are alive share an address.                           *)
Extents ==
    UNION {{[low |-> frames[n].bottom, high |-> frames[n].from, owner |-> <<n, 0>>]}
           \cup {[low |-> frames[n].variables[v].ptr,
                  high |-> frames[n].variables[v].ptr + frames[n].variables[v].size,
                  owner |-> <<n, v>>] : v \in DOMAIN frames[n].variables} : n \in DOMAIN frames}

CallsNest ==
    /\ mxcsr = [asked EXCEPT !.round = GuestToHost[@]]
    /\ Context.csr = mxcsr
    /\ current = Len(contexts)
    /\ Top.who = "guest" => Context.r1 = Top.bottom
    /\ \A a, b \in Extents : a.owner # b.owner => a.high <= b.low \/ b.high <= a.low

=============================================================================
