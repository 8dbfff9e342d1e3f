------------------------------ MODULE AudioDriver -----------------------------
(***************************************************************************)
(* runtime/xaudio: the device, the thread that calls the guest's client    *)
(* back, its registration and the reconfiguration of the channels.         *)
(*                                                                         *)
(* SDL is external: a device that opens has the channels it was asked for  *)
(* unless it may choose, plays what is queued when it is not paused, and   *)
(* may fail to open.  A queue is counted in units of XAUDIO_NUM_SAMPLES    *)
(* samples of one channel, so that a frame has as many units as channels.  *)
(* The guest submits frames from the callback, one for each call at most,  *)
(* and its callback returns.  Calls are made by Clients, which are no      *)
(* audio thread: a reconfiguration from the callback would join itself.    *)
(***************************************************************************)
EXTENDS Integers, FiniteSets

CONSTANTS Clients,       \* threads that register or reconfigure
          MaxLatency,    \* MAX_LATENCY
          MaxCalls       \* bound on registrations and reconfigurations

ASSUME AudioAssumption == MaxLatency \in Nat /\ MaxCalls \in Nat

VARIABLES surround,      \* IS_SURROUND, FALSE in the source
          device,        \* g_audioDevice and the state of what it names
          downMix,       \* g_downMixToStereo
          param,         \* g_clientCallbackParam: the call that wrote it
          callback,      \* g_clientCallback: the call that wrote it
          shouldExit,    \* g_audioThreadShouldExit
          thread,        \* g_audioThread
          audio,         \* the audio thread: where it is, and its variables
          client,        \* where each client is
          calls,         \* how many calls were made
          crashed,       \* std::terminate, or a null pointer used
          misused        \* history: calls overlapped, or came in another order
                         \* than one registration and then reconfigurations

driverVars == <<surround, device, downMix, param, callback, shouldExit, thread>>
audioVars == <<driverVars, audio, client, calls, crashed, misused>>

NumChannels == 6    \* XAUDIO_NUM_CHANNELS
NoDevice == [open |-> FALSE, channels |-> 0, playing |-> FALSE, queued |-> 0]
NewDevice(channels) == [open |-> TRUE, channels |-> channels, playing |-> FALSE, queued |-> 0]

(* What SDL_OpenAudioDevice can return with: the device and the channels   *)
(* in `obtained`, which a failed call may have left at 0.                  *)
OpenResults(desired, mayChange) ==
    {[device |-> NewDevice(n), obtained |-> n] :
        n \in IF mayChange THEN {1, 2, NumChannels} ELSE {desired}}
    \cup {[device |-> NoDevice, obtained |-> n] : n \in {0, desired}}

Desired == IF surround THEN NumChannels ELSE 2

(* CreateAudioDevice from its first SDL_OpenAudioDevice on: channels that  *)
(* the driver cannot serve are closed and asked for again.                 *)
OpenDevice ==
    UNION {IF first.obtained \in {2, NumChannels} THEN {first}
           ELSE OpenResults(Desired, FALSE) : first \in OpenResults(Desired, surround)}

(* XAudioInitializeSystem, which main calls before any guest code runs; it *)
(* leaves no device when SDL cannot be initialised.                        *)
AudioInit ==
    /\ surround \in BOOLEAN
    /\ \/ device = NoDevice /\ downMix = FALSE
       \/ \E result \in OpenDevice :
            device = result.device /\ downMix = (result.obtained = 2)
    /\ param = 0 /\ callback = 0
    /\ shouldExit = FALSE
    /\ thread = "none"
    /\ audio = [at |-> "none", channels |-> 0, frame |-> 0]
    /\ client = [c \in Clients |-> "idle"]
    /\ calls = 0
    /\ crashed = FALSE
    /\ misused = FALSE

-----------------------------------------------------------------------------
At(c, place, next) == client[c] = place /\ client' = [client EXCEPT ![c] = next]

Begin(c, place, orderly) ==
    /\ At(c, "idle", place)
    /\ calls < MaxCalls
    /\ calls' = calls + 1
    /\ misused' = (misused \/ ~orderly \/ \E d \in Clients : client[d] # "idle")
    /\ UNCHANGED <<driverVars, audio, crashed>>

(* XAudioRegisterRenderDriverClient, XAudioRegisterClient: the parameter's *)
(* block and the callback are published one after the other.  The guest's  *)
(* XAudioUnregisterRenderDriverClient changes nothing: the thread stays.   *)
XAudioRegisterClient(c) == Begin(c, "param", calls = 0)

SetParam(c) ==
    /\ At(c, "param", "callback")
    /\ param' = calls
    /\ UNCHANGED <<surround, device, downMix, callback, shouldExit, thread>>
    /\ UNCHANGED <<audio, calls, crashed, misused>>

SetCallback(c) ==
    /\ At(c, "callback", "unpause")
    /\ callback' = calls
    /\ UNCHANGED <<surround, device, downMix, param, shouldExit, thread>>
    /\ UNCHANGED <<audio, calls, crashed, misused>>

(* XAudioConfigValueChangedCallback: g_audioThread is used without a test. *)
XAudioConfigValueChangedCallback(c) == Begin(c, "joinable", calls > 0)

TestJoinable(c) ==
    /\ At(c, "joinable", IF thread = "joined" THEN "close" ELSE "exit")
    /\ crashed' = (thread = "none")
    /\ UNCHANGED <<driverVars, audio, calls, misused>>

SetExit(c) ==
    /\ At(c, "exit", "join")
    /\ shouldExit' = TRUE
    /\ UNCHANGED <<surround, device, downMix, param, callback, thread>>
    /\ UNCHANGED <<audio, calls, crashed, misused>>

(* A bug the code could have: the thread is told to stop, not waited for.  *)
DoNotJoin(c) ==
    /\ At(c, "join", "close")
    /\ UNCHANGED <<driverVars, audio, calls, crashed, misused>>

(* A join of a thread that another join has taken throws.                  *)
Join(c) ==
    /\ At(c, "join", "close")
    /\ \/ thread = "running" /\ audio.at = "finished" /\ thread' = "joined" /\ UNCHANGED crashed
       \/ thread = "joined" /\ crashed' = TRUE /\ UNCHANGED thread
    /\ UNCHANGED <<surround, device, downMix, param, callback, shouldExit>>
    /\ UNCHANGED <<audio, calls, misused>>

(* CreateAudioDevice: the old device is closed, a new one is opened, and   *)
(* what it obtained decides on the mixing.                                 *)
CloseDevice(c) ==
    /\ At(c, "close", "open")
    /\ device' = NoDevice
    /\ UNCHANGED <<surround, downMix, param, callback, shouldExit, thread>>
    /\ UNCHANGED <<audio, calls, crashed, misused>>

CreateAudioDevice(c) ==
    /\ At(c, "open", "unpause")
    /\ \E result \in OpenDevice :
         /\ device' = result.device
         /\ downMix' = (result.obtained = 2)
    /\ UNCHANGED <<surround, param, callback, shouldExit, thread>>
    /\ UNCHANGED <<audio, calls, crashed, misused>>

(* CreateAudioThread.                                                      *)
Unpause(c) ==
    /\ At(c, "unpause", "clear")
    /\ device' = [device EXCEPT !.playing = device.open]
    /\ UNCHANGED <<surround, downMix, param, callback, shouldExit, thread>>
    /\ UNCHANGED <<audio, calls, crashed, misused>>

(* A bug the code could have: the flag of the thread before stays set.     *)
KeepExit(c) ==
    /\ At(c, "clear", "spawn")
    /\ UNCHANGED <<driverVars, audio, calls, crashed, misused>>

ClearExit(c) ==
    /\ At(c, "clear", "spawn")
    /\ shouldExit' = FALSE
    /\ UNCHANGED <<surround, device, downMix, param, callback, thread>>
    /\ UNCHANGED <<audio, calls, crashed, misused>>

(* The new thread replaces the old std::thread, whose destructor ends the  *)
(* process if nobody has joined it.                                        *)
CreateAudioThread(c) ==
    /\ At(c, "spawn", "idle")
    /\ IF thread = "running" THEN crashed' = TRUE /\ UNCHANGED <<thread, audio>>
       ELSE /\ thread' = "running"
            /\ audio' = [audio EXCEPT !.at = "start"]
            /\ UNCHANGED crashed
    /\ UNCHANGED <<surround, device, downMix, param, callback, shouldExit, calls, misused>>

ClientStep(c) ==
    \/ SetParam(c) \/ SetCallback(c) \/ TestJoinable(c) \/ SetExit(c) \/ Join(c)
    \/ CloseDevice(c) \/ CreateAudioDevice(c) \/ Unpause(c) \/ ClearExit(c)
    \/ CreateAudioThread(c)

-----------------------------------------------------------------------------
AudioAt(place) == audio.at = place /\ UNCHANGED <<client, calls, misused>>

(* AudioThread: it counts with the channels of the device it started with. *)
ReadChannels ==
    /\ AudioAt("start")
    /\ audio' = [audio EXCEPT !.at = "head",
                              !.channels = IF downMix THEN 2 ELSE NumChannels]
    /\ UNCHANGED <<driverVars, crashed>>

(* A bug the code could have: the latency compared in units, not frames.   *)
LatencyInUnits ==
    /\ AudioAt("head")
    /\ audio' = [audio EXCEPT !.at =
                   IF shouldExit THEN "finished"
                   ELSE IF device.queued <= MaxLatency * NumChannels THEN "callback"
                   ELSE "sleep"]
    /\ UNCHANGED <<driverVars, crashed>>

(* The loop's test and the test of the latency.                            *)
TestLatency ==
    /\ AudioAt("head")
    /\ audio' = [audio EXCEPT !.at =
                   IF shouldExit THEN "finished"
                   ELSE IF device.queued \div audio.channels <= MaxLatency THEN "callback"
                   ELSE "sleep"]
    /\ UNCHANGED <<driverVars, crashed>>

(* The callback runs the client; it submits a frame (XAudioSubmitFrame     *)
(* reads the mixing here) or none.                                         *)
CallClient ==
    /\ AudioAt("callback")
    /\ \/ audio' = [audio EXCEPT !.at = "queue", !.frame = IF downMix THEN 2 ELSE NumChannels]
       \/ audio' = [audio EXCEPT !.at = "sleep"]
    /\ UNCHANGED <<driverVars, crashed>>

(* SDL_QueueAudio; without a device the frame is lost.                     *)
XAudioSubmitFrame ==
    /\ AudioAt("queue")
    /\ audio' = [audio EXCEPT !.at = "sleep"]
    /\ device' = [device EXCEPT !.queued = IF device.open THEN @ + audio.frame ELSE @]
    /\ UNCHANGED <<surround, downMix, param, callback, shouldExit, thread, crashed>>

(* The interval of a frame has passed.                                     *)
EndSleep ==
    /\ AudioAt("sleep")
    /\ audio' = [audio EXCEPT !.at = "head"]
    /\ UNCHANGED <<driverVars, crashed>>

AudioThread ==
    \/ ReadChannels \/ TestLatency \/ CallClient \/ XAudioSubmitFrame \/ EndSleep

(* The device plays samples of all its channels.                           *)
Play ==
    /\ device.playing
    /\ device.queued > 0
    /\ device' = [device EXCEPT !.queued = IF @ > device.channels THEN @ - device.channels ELSE 0]
    /\ UNCHANGED <<surround, downMix, param, callback, shouldExit, thread>>
    /\ UNCHANGED <<audio, client, calls, crashed, misused>>

-----------------------------------------------------------------------------
AudioNext ==
    /\ ~crashed
    /\ \/ \E c \in Clients :
            XAudioRegisterClient(c) \/ XAudioConfigValueChangedCallback(c) \/ ClientStep(c)
       \/ AudioThread
       \/ Play

AudioFairness ==
    /\ \A c \in Clients : WF_audioVars(~crashed /\ ClientStep(c))
    /\ WF_audioVars(~crashed /\ AudioThread)
    /\ WF_audioVars(~crashed /\ Play)

AudioSpec == AudioInit /\ [][AudioNext]_audioVars /\ AudioFairness

-----------------------------------------------------------------------------
(* While there is one registration, followed by reconfigurations one at a  *)
(* time, the process survives, and every frame is queued on a device of    *)
(* the frame's own channels, which are those the thread counts with: none  *)
(* is mixed for the device before and queued on the next.                  *)
FramesFitTheDevice ==
    ~misused =>
       /\ ~crashed
       /\ audio.at = "queue" => /\ param = 1 /\ callback = 1
                                /\ device.open => /\ audio.frame = device.channels
                                                  /\ audio.channels = device.channels

(* Then the queue never holds more than one frame above MAX_LATENCY.       *)
LatencyIsBounded ==
    ~misused => device.queued <= (MaxLatency + 1) * device.channels

(* Then a reconfiguration gets through: the thread sees that it should     *)
(* exit, is joined, and a new one serves the client.                       *)
ReconfigurationEnds ==
    \A c \in Clients :
       client[c] = "exit" ~> \/ misused
                             \/ client[c] = "idle" /\ audio.at = "callback"

=============================================================================
