# TLA+ models of TVGR

TVGR runs a recompiled Xbox 360 game on Windows. The recompiled code (the
*guest*) calls host functions that stand in for the console's kernel, its XAM
library, its file system, audio and graphics. This directory models that
runtime: TLA+ modules, TLC configurations that check them on small instances,
and proofs that TLAPS checks for every value of the constants.

`PROJECT.json` lists components, runs, mutants, the source lines of every
definition, findings, hazards and theorems. All paths below are under `src/`.

- [Inventory](#inventory)
- [Modules and the code](#modules-and-the-code)
- [Runs](#runs)
- [Fairness](#fairness)
- [Proofs](#proofs)
- [What disagrees with the code's own words](#what-disagrees-with-the-codes-own-words)
- [What is not modelled](#what-is-not-modelled)
- [Plan](#plan)

## Inventory

Guest code runs on host threads: one per guest thread, the thread of `main()`,
and the audio thread. There is no scheduler of the runtime's own; guest
threads interleave as the host lets them, and every hooked function runs on the
thread that calls it. Shared state is guest memory (used in place through
`std::atomic_ref`), kernel objects on the physical heap, and globals.

| Component | State | Operations | What is hard | What makes it correct |
|---|---|---|---|---|
| Critical sections, `runtime/kernel/imports.cpp` 695-740 | `OwningThread` (atomic), `RecursionCount` (plain), both in guest memory | Initialize, Enter, Leave | the unlocked count; one notification per release against barging threads; spurious wakes | exclusion, exact nesting, no lost wake-up, a free lock is taken again |
| Events and waits, 16-101, 417-424, 475-522 | a flag per event, one global generation counter | Set, Reset, Wait, wait-any, wait-all | auto-reset takes that race; wait-any sleeps on the generation, not on its events; time-outs against wake-ups | one wait per signal, no lost wake-up, wait-any misses no set, results are true |
| Semaphores, 105-182 | an atomic count, a limit | Wait, Release | exchange races, one release for several sleepers, the limit's assertion | a counting semaphore; the limit holds |
| Mutants, 184-231, 605-617 | one atomic flag, no owner | Wait, Release | no notification, no recursion | one owner; sleepers are woken |
| Guest threads, `runtime/xenon/guest_thread.cpp` | per thread a handle: parameters, `suspended`, `std::thread` | create, resume, suspend, wait, close | joins that race, the handle's life against the thread's, resume against suspend | no thread outlives its handle, no resume is lost, no wait ends early |
| Kernel objects, `runtime/kernel/xdm.*` | signature and pointer in a dispatcher header; objects; `GLOBAL_KERNEL_LOCK` | query or create, destroy, `NtClose` | first use by two threads at once, memory used again with an old signature, close under a waiter | one object per header, of its class, alive while used |
| Spin locks and TLS, `imports.cpp` 339-350, 382-385, 426-472, 535-552 | a word per lock; free list, next index, a vector per thread | acquire, release; alloc, free, get, set | values that survive a free, an index freed twice | exclusion; one owner per index |
| Heaps, `runtime/kernel/heap.cpp` over `dependencies/o1heap.c` | two O1Heaps, two locks, a size word below each block | alloc, alloc_physical, free, size, reallocate | no memory, alignment arithmetic, steps under separate locks, splits and joins of fragments | fragments tile the heap, blocks are disjoint and large enough, contents survive reallocation |
| XAM, `runtime/kernel/xam.cpp` | listeners with queues, content registry, root map | notify, get next, register, create, close, enumerate | no locks; filtered reads; roots opened twice; iterators into a table that grows | order and loss of notifications; a package that is there while it is enumerated comes once |
| File system, `runtime/kernel/file_system.cpp` | `std::fstream` and path per file, an iterator per search | create, read, read at an offset, write, seek, size, search | paths built over several steps by several threads; failure bits that stay, one stream shared by threads; patterns cut by arithmetic | a file is the one that its caller asked for; a read returns what is at its offset; a search returns its directory |
| Audio, `runtime/xaudio` | device, thread, exit flag, callback | register, submit, reconfigure | registration twice, reconfiguration against the callback | one audio thread, one open device |
| Loader, patcher, title database, `utils/xex*.cpp`, `utils/image.cpp`, `utils/xdbf_wrapper.cpp` | files in memory, an image with sections and symbols | load, decrypt, unpack, bind imports; patch; look up | blocks unpacked over themselves, packings that differ, tests and writes in an order, records of varying length | the image is what the file means, a patch makes what its edits mean of the base it was made for, lookups return what was put there |
| Hooks, `runtime/hook.hpp`, `guest_stack_var.hpp` | the context of the thread, r1, the processor's modes | call guest from host and host from guest | arguments numbered across kinds, registers and stack; nested contexts with a cached mode | arguments arrive, nested calls leave stack and modes as they were |
| Vector helpers, `recompiled/ppc/ppc_context.h` | the operands | compare, average, pack, convert, load | host instructions with another rounding or sign | they compute what the guest's processor does |
| Pipelines, `runtime/direct3d9/driver.cpp` | one description under construction | `from_shader_pass` | several parameters in one field | parameters do not disturb one another |
| Conversions, `imports.cpp` 236-337, 715-772 | none | time-outs, texts, settings | units, signs and limits | sizes are exact, relative waits are not lengthened |
| Others | | clock and priority calls, guest memory, logger, tables | | not modelled, with the reason in `PROJECT.json` |

How they meet: `KeWait...` and `KeSet...` find an object through its dispatcher
header (kernel objects) and call the event or semaphore; `NtClose` destroys any
object through its virtual destructor, which for a thread joins it; objects are
blocks of the physical heap; files and content share the root map; the audio
thread calls guest code, which uses all of the above.

## Modules and the code

One module per component; `MC*` modules instantiate them for TLC, `*Proofs`
modules hold the theorems.

**CriticalSection** (implements **ReentrantLock**). `owner` and `recursion` are
the two guest fields; every atomic access of `RtlEnterCriticalSection` and
`RtlLeaveCriticalSection` is one action, and so is the plain increment or
decrement between them. `depth` is the guest's view: returned Enters not yet
left. A thread leaves only what it has entered.

**KernelEvents.** `signaled`, `generation`, and for each thread the call it is
in, the position in its list of objects and the generation it loaded. The loops
of `Event::Wait` are actions for their exchange, their comparison and their
sleep; `KeSetEvent` is store, notify, bump and broadcast, in the code's order.
Which calls each thread makes is the constant `CallsOf`. Four history variables
serve the properties: what let a call through, the balance of sets and waits,
and who was picked by `notify_one`.

**Semaphores** and **Mutants** (both implement **CountingSemaphore**, the
mutant with one unit). The semaphore's count has the width `Modulus` of the
code's unsigned integer; the assertion of `Release` is a step apart from the
addition, as in the code, and can be compiled out (`Asserts`). The mutant's
release only stores.

**GuestThreads.** A thread's way from `ExCreateThread` to its end, the flag it
is suspended by, and the state of its handle and `std::thread`. A wait and a
close (the destructor) are each a test of `joinable` and a join; nothing keeps
two of them apart, and a join of a thread that was joined since the test either
seems to succeed or ends the process.

**KernelObjects.** A dispatcher header's `WaitListHead` (`signed`, `blink`) is
guest memory, the object behind it a block of the heap. `QueryKernelObject` is
one action per access under `GLOBAL_KERNEL_LOCK`: test, sign, create, link.
`KeInitializeSemaphore` leaves the signature of a header's former use; the
guest's own inlined `KeInitializeEvent`, external here, overwrites it. Objects
known by handle are created, used and closed, with or without a call in
progress. The history `stale` and `pulled` records the two ways a call can meet
an object that is not its own. The guest is assumed to initialise a header only
while no call on it is in progress and to close only handles it has open.

**Heap** over **O1Heap**. `O1Heap` is the vendored allocator as operators on a
record: headers with their links, free lists by power of two, the mask of the
bins that are not empty. A call on a heap holds that heap's lock throughout, so
it is one step of `Heap`; `RtlReAllocateHeap` takes the lock twice and copies
in between without it, so it is three. The unit of memory is a word of 16
bytes, half of `O1HEAP_ALIGNMENT`: the size `Heap::size` reads is the word
before a block in both heaps, a field of the fragment's header in one and
written by `alloc_physical` in the other. `memory` says which thread wrote each
word of the user heap, and the guest writes a block full when it gets it.
Without memory the guest gets null, or the code writes through the null pointer
and the process ends (`crashed`). The guest is assumed to free and reallocate
only blocks it has, none that a thread is reallocating, and to ask for
alignments that are powers of two, which the mask in `alloc_physical` needs.

**ThreadServices.** A thread's context is a block of the heap, its address the
value that r13 holds and that a spin lock's word is set to. Indices of
thread-local storage are one step per call, under the code's own mutex; the
thread's vector grows when an index beyond it is used. `owned` and `freedTwice`
are histories of what the guest was given and gave back.

**Notifications**, **Content** and **FileSystem** (over `Content`) use
containers that the code does not lock. Each use has a beginning, which marks
the container as read or changed, and an end with the effect. When two uses
overlap and one is a change, C++ gives the program no meaning: `raced` becomes
true and the model stops there. Properties speak of behaviours without a race,
and the interleavings that remain are those the code allows: a path resolved
before a root is closed and opened after, a loop over listeners that events
arrive in.

`resolve_path` is three steps, and the use of its path a fourth: the call begins
(`BeginResolve`); the root is looked up (`LookUpRoot`, with `XamGetRootPath`), which
leaves the thread with a `view` of the text in the root map; the text is copied and
the name appended (`BuildPath`, to the thread's `builtPath`); and the file or the
search is opened at the path made of that.
`XamContentClose` erases the text, so a view that was taken before and is copied
after is dangling and any path may come out. `asked` is a history: the path that
the root, where it led at the look-up, and the name stand for. `FindHandle` lists
what the host has in the directory (`HostEntries`, external), if the path that is
left of the pattern is one; `fillFindData` gives the guest the name, the kind
and the size, its upper half in the field for the lower one and the other way
round, as the code does; `WordSize` is the range of a half. `Expected`, the history
that a search is compared with, is made of the pattern's meaning and of `asked`,
not of what the code's own path and pattern led to.

A stream of the C++ library is external: one position, a fail and a
bad flag, a buffer that a seek or a close flushes. A read at an offset is two
operations on it, and another thread's may come between.

**AudioDriver.** The device, the thread with its loop, and the calls of
clients, each in the order of its statements; SDL is external and plays what is
queued, may fail to open, and may choose other channels. `misused` says that
the guest registered twice or reconfigured twice at once, which nothing guards.

**Conversions.** Each function as an operator on small words and byte
sequences, with the guest's use of it: a conversion with a buffer too small,
then another with the size it was told. Times keep their wrap.

**Executables** and **Patcher** (over it). A file is a record of headers and a
sequence of words, each with the key it is encrypted with and its byte order.
The two loaders, `LdrLoadModule` and `Xex2LoadImage`, are both modelled.
`XexPatcher::apply` is one action per test, in the code's order, since what it
has written when a test fails is part of the question. AES, SHA-1 and LZX are
external. The code never reads `digestSource`, the digest of the header that a
delta was made for, and LZX has no check of its own: so the delta applied to
another header gives an error or any header (`WrongHeaders`), with the right
key or a garbled one, with an entry for the file's format or none, and with
another image size. A `memcpy` whose ranges overlap leaves what `memmove` would or
words that nobody meant (`Move`), and one past the end of the image ends the
behaviour ("overrun"). What a file means stands beside the code's way through it: an image is
its blocks' words and zeros (`Meaning`), a patched image is what the edits make
of the base, one after the other (`Stages`), in whatever blocks and records they
come.

**HookArguments.** Calls in both directions nest on one thread: contexts,
stack, variables on the guest's stack, and the cached mode of the
floating-point unit against the processor's.

**TitleDatabase**, **VectorOps**, **Pipeline**. Lookups over a file of records
at byte offsets; vectors as functions from lanes to numbers of `Bits` bits;
parameters of a shader pass applied one by one in every order. A database comes
with its `meaning`, the texts, achievements and images its maker put there.
**Powers** has the powers of two and logarithms for `O1Heap` and `VectorOps`.

What the three kinds of files are taken to be is stated once in each module, as
an assumption on its constant: `FormatAssumption` (resources where the tables
say, texts behind one another), `FilesAssumption` (a body of the size its blocks
say, sections and thunks inside the image, no thunk in another's stub) and
`PatchesAssumption` (a chain of blocks whose records are the maker's edits, which
lie inside the image). They are the formats' own rules, which the code relies on
without a test. They do not say that a patch fits its base, that its blocks
arrive undamaged or that its format is one that is supported: those the code
tests, and the files of `MCParts` have each of them wrong.

All waits share one reading of `std::atomic::wait(old)`: it compares and parks
as one step with respect to the notification, may wake for no reason, and
returns only when it has read another value. A weak compare-exchange fails only
when the value differs: the project builds for x86-64 alone, where it is a
`lock cmpxchg`. A time-out is `zero`, `infinite` or `finite`; a finite one may
have elapsed whenever the code looks at the clock. These are the only
distinctions the waits make.

## Runs

| Run | Instance | What it shows |
|---|---|---|
| `critical_section` | 3 threads, nesting to 2 | exclusion with the exact count (`OwnerAlone`), nobody asleep beside a free lock unattended (`NoLostWakeup`), refinement of `ReentrantLock`, and `FreeLockIsTaken` |
| `kernel_events` | 3 threads with 2 to 4 kinds of calls each over an auto-reset header, a manual header and a handle; 2 sets | `OneWaitPerSet`, `ResultsAreTrue`, `WaitAnyMissesNothing`, `NoLostWakeup`, `SignalReachesWaiters` |
| `semaphores` | 3 threads, limit 2, any number of releases of 1 or 2 units | refinement of `CountingSemaphore`; `UnitsReachWaiters`: a thread that waits for ever while units come back does so only because others keep taking them |
| `semaphore_limit` | the same | the count can exceed the limit its assertion states |
| `mutants` | 3 threads | refinement of a semaphore of one unit |
| `mutant_wakeup` | the same | a released mutant wakes nobody |
| `guest_threads` | the main thread and 2 others | `DestroyedMeansOver`, `AwaitedMeansOver`, `SuspendedThreadsWait`, `NoLostResume`, `OnlyContentionCrashes` |
| `kernel_objects` | 2 threads, 2 headers, 3 blocks | `OneObjectPerHeader`, `HeadersOwnTheirObjects`, `CallsFitTheirObjects` |
| `heap` | 2 threads, a user heap of 5 fragments and a physical one of 2, blocks of 0 or 6 words | `FragmentsTile`, `AllocatesWhatFits`, `BlocksFit`, `ContentsAreKept` |
| `storage` | 2 threads, one root besides the game's two, one file handle, one search, one enumerator, 3 files; four parts, see below | `FilesAreWhereTheirRootsLed`: whatever other threads resolve, open and close between the steps of a path, the file that is opened is the one asked for, unless the root was closed between look-up and copy. `ReadsReturnTheFile`. `ListingsAreComplete`: a search returns each name of the directory that was asked for once, an enumerator each package that was there when it was made |
| `parts` | each component that shares no state with the others, by itself | see below |
| `av_region` | every setting the guest asks for | the secured video region is not the one its comment names |

`parts` is one run over one variable more, `part`, which names the component
that a behaviour is about; the others stay as they started. The files, calls,
databases, operands and parameters it starts from are in `MCParts`.

| Part | Property | What it shows |
|---|---|---|
| locks, storage | `IndexHasOneOwner` | an index freed by one thread is given to one other |
| notifications | `EventsArriveOnceInOrder` | every listener gets each event of its areas once, and filters do not reorder a dialogue's |
| audio | `FramesFitTheDevice`, `LatencyIsBounded`, `ReconfigurationEnds` | no frame of the channels before reaches the next device, the queue is bounded, the old thread is joined and a new one serves |
| conversions | `ConversionsAreTrue` | sizes are exact, ASCII comes back, no relative wait gets longer |
| executables | `ImagesAreWhole` | both loaders agree with what the blocks mean, whatever the packing; imports are bound to their own library's names |
| patches | `PatchesAreVerified` | success is for a base with the key that the patch was made for; of the base it was made for, with every block undamaged, it makes what the edits mean; unpacking in place loses nothing; failures leave the output alone |
| calls | `ArgumentsArrive`, `CallsNest` | what each convention can pass arrives, and modes, stack and variables survive nesting |
| titles | `RecordsAreFound` | walks over varying lengths find every record |
| vectors | `VectorsMatch` | the helpers against arithmetic definitions, on every operand of a small width |
| pipelines | `StatesAreIndependent` | three parameters in any order, with the field shared by the filters of a sampler |

Type invariants are not run where `TypeCorrect` proves them for all constants,
and neither are `OneOwner` of the mutants and `NoLostWakeup` of the semaphores;
the heap's is the first conjunct of `FragmentsTile`.

*Bounds.* Three threads are an owner, a sleeper and a barger, or a waiter, a
waker and a competitor: each of these protocols pairs at most one wake-up with
one competitor, and the proofs cover any number. Nesting of two separates the
first entry, re-entry, the inner and the last leave. Two sets let a signal be
set again while the first one's wake-ups are under way, and start two events
signaled. Calls on the semaphore have no bound: its assertion keeps the count
finite, and its `Modulus` of 8 stands for 2^32, above every reachable count.
In `guest_threads` any thread may create, resume, wait for and close any
other, so two threads beside the main one give every overlap of two waits or
closes of a third; symmetry is between those two and used for safety only. In
`kernel_objects` two threads race for a header while another header has or
gets an object, and the third block lets a handle's block be freed and used
again; its threads, headers and blocks are each interchangeable. In `heap`,
five fragments are not a power of two, so splits leave fragments whose bin
rounds down; 0 and 6 words fill one and two fragments to the last word; the
default alignment is scaled from 0x1000 bytes to 4 words, with the minimum of
one word as the other choice, so that a physical heap of two fragments has room
for one block and fails for the next.
`storage` has a variable more, `part`: packages are opened and closed while files are
opened through their roots; packages are registered while they are enumerated;
the game's files are read and written; searches begin while roots are closed.
The theorems of
`StorageProofs` are about `FileSpec`, where all calls meet. One root that is opened and
closed, beside two that are open from the start and lead elsewhere, is enough for
another thread's path to come between any two steps of a path, and for a close
between its look-up and its copy; files of 0, 1 and 2 bytes with reads of 2 meet
the end before, at and after it; a `WordSize` of 2 puts something in both halves of
a size; two packages that are made while an enumerator fetches one or two at a time
go before, between and behind the ones it has passed, and may or may not change
the order of the others. In `parts`, two threads and two indices (`MaxIndex`) hand an index on and
grow a vector past it; two listeners and two events (`MaxEvents`) suffice for
one event to overtake another; a latency of two frames (`MaxLatency`) and three
audio calls (`MaxCalls`) give a registration and two reconfigurations, or
one that is made twice; texts are shorter and longer than the buffer of 5, and
with bytes above 127; times have 9 bits, milliseconds 5 and a unit of 3
for the code's 64, 32 and 10000, so that they wrap and meet the value that
means no limit; images have twelve words packed in blocks that are empty, only
zeros, and overlapping when unpacked in place; two bases have the header of
another, one of them a body of fewer words, and three patches have a move that overlaps itself; there are four levels of calls
(`MaxDepth`), and 23 arguments, which fill both register files; lanes of 4
bits and floats of 5 significant bits in words of 10 overflow, saturate and
round to even; three parameters (`MaxParameters`) are what shares a sampler's
field.
Deadlock is checked except where the system may really stop: in `semaphores`
(an assertion fails, or all threads wait for units), `guest_threads` (the
process ends, or threads wait for one another), `kernel_objects` (nobody
destroys the object of a header, so blocks run out), `heap` (a crashed
process stops), and `storage`, `parts` and `av_region` (a race or a crash ends a
behaviour, and so does work that is done).

`NoLostWakeup` of events excuses one case, `dropped`: a timed wait that
`notify_one` has picked finds its own time elapsed and returns with the signal
left set, while another waiter sleeps on.

## Fairness

Liveness is checked under weak fairness of each thread's `Step`: what a thread
inside a call does by itself. The host schedules every runnable thread, so this
is what the code can count on. Nothing is assumed of the guest (when it calls
and whether it ever leaves), of the clock, or of spurious wakes. Strong
fairness is not used: a thread may lose an exchange for ever to others, so the
properties promise that *some* waiter gets through, or that a waiter does if
the signal stays. `UnitsReachWaiters` promises just that of the semaphore: whoever
waits for ever beside units that come back has lost them to others.

For the audio driver each client's call, the audio thread and SDL's playing are
weakly fair while the process lives: the first two are host threads, and a
device that is not paused plays. That is what `ReconfigurationEnds` needs, as
the thread looks at its exit flag only between frames.

## Proofs

`tlapm` proves, for every value of the constants that the named assumptions
allow:

| Module | Theorems | Argument |
|---|---|---|
| `ServicesProofs`, critical sections | `SectionTypesHold`, `Exclusion`, `WakeupsSuffice`, `Refinement` | `OwnerAlone` speaks of threads in guest code only. `OwnerInv` says what the owner's count is at each place inside a call, `FreeInv` that it is zero when there is no owner, `BoundInv` that Enter starts below the bound; `SeenInv`, that nobody waits for the owner value 0, makes the single `notify_one` suffice |
| `KernelEventsProofs` | `TypeCorrect`, `OneWait`, `WaitAnyIsWoken`, `WakeupsSuffice`, `ResultsTell` | `TypeInv` ties each place to the call in progress; `ResultInv`: what a call has consumed so far at each of its places; `GenerationInv`: an event that a scan has polled without success and that is signaled now was set after the generation was loaded, so the generation differs or a bump is to come; `WakeupInv`: who attends to the sleepers of a signaled event |
| `SemaphoresProofs` | `TypeCorrect`, `WakeupsSuffice`, `Refinement` | no exchange follows the load of a zero, so a successful one takes a unit; a park sees zero |
| `MutantsProofs` | `TypeCorrect`, `Exclusion`, `Refinement` | `TypeOK` with `OneOwner` is inductive: who owns implies locked |
| `GuestCodeProofs` | of `GuestThreads`: `TypeCorrect`, `ClosingIsSafe`, `WaitsAreHonest`, `Suspension`, `ResumesSuffice`, `OrderlyEndsAreSafe`; of `HookArguments`: `NestedCallsAreApart`, `ArgumentsAlwaysArrive`; of `VectorOps`: `VectorsAlwaysMatch` | `Lifecycle`: a thread that is no longer joinable, or whose handle is destroyed or about to be, has finished; `Orderly`: while no two waits overlap, each has its own target, which is open and, at the join, joinable. `HookInv`: frames of guest and host alternate (`TurnsOK`), each frame and each stack variable begins where the one before it ends, and every context's register 1 is where the last frame on it ends (`StackOK`); the processor has the mode that was asked for, as the two tables of rounding modes are inverse (`ModeOK`). Arguments: the places of two different arguments are different, so what is written to a place is what is read there. Vectors: a lemma for each helper, on every lane width and memory (`LoadsMatch` to `WordsRoundToEven`) |
| `HeapProofs` | `FragmentsAlwaysTile`, `AllocationFindsWhatFits`, `BlocksAlwaysFit`, `ContentsStay`, from `HeapsAreSound`; on the way `BinsFindWhatFits`, `AllocationKeepsTheChain`, `AllocationKeepsTheBins`, `FreeKeepsTheChain`, `AllocationIsSound`, `FreeIsSound`, `PhysicalBlockFits` | see below |
| `ServicesProofs`, the rest | of `ThreadServices`: `TypeCorrect`, `IndicesHaveOneOwner`, `SpinLocksExclude`, `ValuesArePrivate`; of `AudioDriver`: `FramesFit`, `QueueIsBounded`; of `Notifications`: `NotificationsArrive`; of `Pipeline`: `ParametersAreApart`; of `Conversions`: `ConversionsAlwaysTrue` | `FreeListOK`: while nobody freed what it did not have, the free list has no index twice, none that is owned and none that was never given; `LocksOK`: a context's block belongs to one live thread, so a lock's word names its holder; growing a vector keeps its values (`GrownKeepsValues`). `AudioInv`: the steps of one orderly call follow one another and the thread is started, stopped and joined in turn (`OrderInv`), the mixing noted is the open device's (`DeviceInv`), and the thread counts and mixes for the device that is open while it loops (`LoopInv`). `NotifyInv`: while nothing races, what a call remembers of the containers is still so and no two calls change the same one (`CallsOK`), a loop delivers its thread's latest event (`SerialsOK`), and what each listener has received, with its queue and what is on the way, has no event twice, lacks none and is in order (`ArrivedOK`). `PipelineInv`: a sampler's number encodes the three filters it was last asked for (`FiltersOK`), and no field has the name of a parameter that writes another one or none (`FieldsOK`), so a parameter bears on its own field only (`ValuesOK`). `ConversionsInv`: what two calls of a conversion leave between them is a text cut off where the buffer ends, and its size (`TextsOK`); times by division of the wrapped number |
| `PowersProofs` | lemmas for the heap, the vectors and the files | `LeastNumber`, `SetInduction` and `Recursion`: a function defined step by step on numbers exists and obeys its steps; with them `pow2` is monotone and turns sums into products; `Division`, `Quotient*` |
| `StorageProofs` | of `FileSystem`: `FilesAreTheOnesAskedFor`, `ReadsAreWhole`, `ListingsAreWhole`; of `KernelObjects`: `TypeCorrect`, `OneObject`, `Ownership`, `CallsFit`; of `TitleDatabase`: `RecordsAreAlwaysFound`; of `Executables`: `ImagesAreAlwaysWhole`; of `Patcher`: `PatchesAreAlwaysVerified` | `FileInv`. `RootsOK`, `UseOK`, `RegistryOK`: a root leads to a directory there is; no file is registered twice. `PathInv`: a view is of a root that is open and leads where it was asked for, or dangles, and what a thread has built of it is the path that was asked for, or lost; so the theorem rests on every other thread's look-ups, copies and closes leaving that as it is. `EnumInv`: the packages of an enumerator's making are still there, and of these it has returned just those behind its position, each once, also when others were put among them, unless it skipped some or the table changed their order. `SearchInv`: the names returned are those expected and not left, each once; that nothing is missing of what is expected needs `PathInv`, since the code lists the path it built. `StreamsOK`: what is flushed is on the disk, and no two streams have one path. `IoInv`: a read that no other call overlaps has its stream for itself, in no error state after the clear and at its offset after the seek. `MarksOK`: the stream is where the last plain read left it unless another read moves it now; an error state spoils the mark until a seek. Kernel objects: `CompleteInv`: what the holder of the kernel lock has not finished is the only signed header without a live object of its own (`HeaderInv`); `CallInv`: a call that has left the lock holds the header's current object; `HandleInv`: handles are live blocks no header or query owns. Files in memory: see below |

Assumptions on the constants are the named `ASSUME`s of the modules
(`NoThreadAssumption`, `MaxDepthAssumption`, `EventsAssumption`,
`CallsAssumption`, `SemaphoreAssumption`, `MutantAssumption`,
`MainAssumption`, `NoneAssumption`, `HeapAssumption`, `ServicesAssumption`,
`AudioAssumption`, `ModesAssumption`, `ContentAssumption`, `FileAssumption`,
`PipelineAssumption`, `ConversionsAssumption`, `VectorAssumption`,
`FormatAssumption`, `FilesAssumption`, `PatchesAssumption`), which TLC evaluates
on every run. Every invariant and every refinement that a run checks is stated by
a theorem. Left to TLC is liveness (`FreeLockIsTaken`, `SignalReachesWaiters`,
`UnitsReachWaiters`, `ReconfigurationEnds`), because fairness and ENABLED are
beyond the prover. The violation runs stay with TLC too: what they show is a
behaviour.

The proof about the heaps goes from the arithmetic of `o1heap.c` to the calls of
the guest. Its invariant, `HeapInv`, is needed in full, because none of the four
properties is inductive alone:

- `Sound` is what a heap is between two calls: the fragments form a chain
  (`Chained`: each says where the next begins, the links agree both ways, none
  begins inside another), no two free ones are neighbours (`Coalesced`), the
  bins hold just the free ones, each once and in the bin of its size, and the
  mask has the bins that hold any (`Binned`), and what the heap counts as
  allocated is the total of the fragments in use. `Chained` needs `Binned`: a
  fragment taken from a bin must be a free one. A lemma for each operation on
  headers and links (`Interlink`, `Take`, `Split`, `Unuse`, `Join`) and on bins
  (`RebinAdds`, `UnbinRemoves`) is put together into the two calls.
- `BlocksOK`: each block of the guest has a fragment in use, of its own, with
  room for it; so blocks are apart and freeing one takes nothing from another.
- `CallsOK`: the two blocks of a reallocation under way exist, are different and
  are in no other thread's reallocation; otherwise a block could be freed, or
  given to another thread, between its allocation, copy and free.
- `MemoryOK`: the filled words of every block are its owner's.
- `PhysicalBlocksOK`: the word in front of each physical block names a fragment
  in use that no other block's word names and that the block lies in.

Powers of two, the logarithms, the total of a set of fragments, and the walks
and loops over files are recursive functions; the facts about them follow from
`LeastNumber` (a set of numbers has a least one), through `SetInduction` and
`Recursion`, which says that such a function exists and obeys its steps. The run `heap` checks the
properties at its bounds; the theorems hold for every capacity, every set of
sizes, alignments that are powers of two, and any set of threads.

The proofs about files in memory (the end of `StorageProofs`) each compare the
code's loops with what the file means:

- *Title databases.* `WalkMeetsTexts`: the pointer that steps over entries of
  varying length is where the maker put each text. Names are given once, so the
  first entry found is the one meant, and an entry with no text gives none.
- *Executables.* `BlockIsWritten`: after `i` blocks, all words up to the end of
  block `i` are what the blocks mean and both pointers are at its end; so the
  loaders agree (`UnpackGivesContents`). `BindOne`: since thunks and their stubs
  are apart, an import that is bound finds its word as the file has it, and one
  bound before stays so; over all imports each word of the image is the one
  meant and the symbols are those of the functions with a name, no more
  (`LibraryIsBound`, `XexIsBound`). `FindOffset` takes the highest section below
  an address, also when Map has dropped one (`XexOffset`).
- *Patches.* `PatchInv` says what holds at each place of `apply`. Before the key
  check nothing is known; after it the base has the key that the patch was
  made for, and nothing more: the header is not verified, so all that `PatchInv` says
  of the image is said of bases whose header is the one the delta was made for, and
  of patches whose moves do not overlap (`MadeFor`). Unpacking in place goes
  from the last block to the first and moves each to a place at or above its
  own, so no block is overwritten before its turn (`BlockIsTurned`). In the loop
  over blocks, a block with the expected digest is the maker's, and it brings
  the digest of the next (`ChainStarts`, `ChainGoesOn`); so the image is always
  one of the `Stages`, and each record is the edit whose turn it is. memset, memcpy
  and decompression are the splices that the edits are made of (`CopyIsSplice`,
  `ClearIsSplice`, `RecordIsWell`).

## What disagrees with the code's own words

- `Semaphore::Release` asserts `count + releaseCount <= max_count` and adds in
  a later step: two releases both pass and exceed the limit (`semaphore_limit`).
- The comment on `Mutant` says it is a copy of the Event implementation with
  the flag reversed; the notification at the end of `Event::Set` was not
  copied, so a thread parked in `Mutant::Wait` is not woken by a release
  (`mutant_wakeup`).

- `ExGetXConfigSetting` sets the secured video region to 0x1000, commented
  `USA/Canada`, but the category's case has no `break`: the user category's,
  where the same number is a time zone's name, sets it to 0, and the answer is 0
  with success (`av_region`).

## What is not modelled

The components marked `not_modelled` in `PROJECT.json`, each with its reason.
Within modelled components: events, semaphores and mutants exist throughout
their runs (`KernelObjects` has their creation, and `NtClose` under a call, but
not what a wait on a destroyed object then does); `TryQueryKernelObject` has no
caller; the guest is assumed to leave only sections it has entered and
to release only mutants it owns, as the console's own kernel demands.
`KeWaitForSingleObject` reports success whatever `Wait` returned; its wait is
modelled, its constant result is not checked.

Of the components in part: statistics and assertions of O1Heap; the words a
context block is filled with, its processor number and the thread's name; the
layouts of ELF and PE headers and of `xbox.h`, which are data; of the processor
context everything that is one host instruction on one register, or a load or a
store; of the video driver the calls of the graphics API, whose results come
back to nobody. Not modelled at all: the clock, priority and query calls and
the calls that return a constant, guest memory (one mapping, one addition),
logger and patches, and tables that only the recompiler reads.

Known behaviour that the models contain and no property judges, because no word
of the code says otherwise: a timed wait on an event sleeps until the next
signal and looks at the time only then; two wait-alls over the same events in
opposite orders may each keep what the other waits for; a poll loses its
exchange to another taker and reports a time-out; an owner that waits for its
mutant again waits for itself; `NtClose` of a running thread's handle waits for
its end; the suspend count is a flag; values of other threads under a freed
index stay until they are overwritten; races on the containers of XAM and the
file system end the model; a root that is opened again without a close keeps its
old directory (`xam.cpp:110`); the text of a root that is closed between its
look-up and its copy is read after it is freed (`file_system.cpp:20`); a search gives
the guest the halves of a file's size in each other's fields
(`file_system.cpp:104-105`), so `ListingsAreComplete` speaks of names only; a plain read
after one that met the end of the file reports success with no bytes; a patch is
applied to a base with another header and the same key (`digestSource`, `xex.h:147`,
is not read by `xex_patcher.cpp:292-320`); and `memcpy` moves data onto itself
(`xex_patcher.cpp:204`, 301 and 444) if a patch says so.

## Plan

What is left, in order:

1. Abstract specifications: a heap as disjoint blocks with contents, a file as
   bytes, a queue of notifications, each refined by its module.
2. The memory of contexts, objects and heap in one composition: `ThreadServices`
   and `KernelObjects` with the blocks that `Heap` gives them.
3. Calls that no other part sees the effect of: priorities and affinity.
