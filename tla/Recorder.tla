------------------------------ MODULE Recorder ------------------------------
(***************************************************************************)
(* Two programs that use the client library, each with its own main:       *)
(* sampleClient.cpp, which calls check until a key stops it, and           *)
(* portaudio_record.c, which records while it calls check, then writes and *)
(* plays what it recorded.  The network threads of RakPeer, the server and *)
(* the sound device run beside the main thread.                            *)
(***************************************************************************)
EXTENDS ClientConnection, AudioRecord

CONSTANTS
    Startups,    \* bound: how long startclient and Pa_Sleep may take
    MaxMishaps   \* bound: faults while a recorder runs

\* startclient alone sleeps for a second.
ASSUME StartupsAssumption == \A t \in Startups : t \in Nat /\ t >= Buffer
ASSUME MaxMishapsAssumption == MaxMishaps \in 0..MaxFaults

VARIABLES
    stage,     \* where main is; "sample" for the whole of sampleClient
    sleep,     \* time main still sleeps, or spends in one turn of its loop
    late       \* frames recorded when the main loop began

vars == <<connectionVars, audioVars, stage, sleep, late>>

Init ==
    /\ ConnectionInit /\ AudioInit
    /\ stage \in {"sample", "open"} /\ sleep = 0 /\ late = 0
    /\ faults = IF stage = "sample" THEN MaxFaults ELSE MaxMishaps
    /\ stage = "sample" => now = 0

---------------------------------------------------------------------------
(* Both programs.                                                          *)

Awake == sleep = 0

Tick ==
    /\ ~Awake /\ now' = now + Buffer
    /\ sleep' = IF sleep > Buffer THEN sleep - Buffer ELSE 0
    /\ Callback
    /\ UNCHANGED <<connectionVars, seconds, total, stage, late>>

\* check sleeps twice 200 ms around Connect: less than a buffer of the model.
CheckStep ==
    /\ Awake /\ (Receive \/ NoMore \/ Look \/ Push)
    /\ sleep' \in IF stage # "sample" /\ pc \in {"look", "push"} /\ pc' = "out"
                  THEN {0, Buffer} ELSE {0}
    /\ UNCHANGED <<audioVars, stage, late>>

SampleStart == stage = "sample" /\ StartClient /\ UNCHANGED <<audioVars, stage, sleep, late>>
SampleCheck == stage = "sample" /\ Check /\ UNCHANGED <<audioVars, stage, sleep, late>>
SampleQuit == stage = "sample" /\ Stop /\ UNCHANGED <<audioVars, stage, sleep, late>>

---------------------------------------------------------------------------
(* portaudio_record.c.                                                     *)

\* Pa_StartStream, then startclient and Pa_Sleep(100).
StartRecording ==
    /\ stage = "open" /\ stage' = "startup"
    /\ stream' = "recording" /\ StartClient
    /\ sleep' \in Startups
    /\ UNCHANGED <<now, seconds, frame, total, late>>

BeginLoop ==
    /\ stage = "startup" /\ pc = "out" /\ Awake
    /\ stage' = "loop" /\ seconds' = Time /\ late' = frame
    /\ UNCHANGED <<connectionVars, now, frame, total, stream, sleep>>

\* One turn of the loop up to the look at the keys.
Turn ==
    /\ stage = "loop" /\ Awake /\ StreamActive
    /\ Check /\ stage' = "keys"
    /\ UNCHANGED <<audioVars, sleep, late>>

NoKey ==
    /\ stage = "keys" /\ pc = "out" /\ Awake
    /\ stage' = "loop" /\ sleep' = Buffer
    /\ UNCHANGED <<connectionVars, audioVars, late>>

\* The stream may get one more buffer before it is closed.
StopKey ==
    /\ stage = "keys" /\ pc = "out" /\ Awake
    /\ stage' = "close" /\ total' = Kept /\ sleep' \in {0, Buffer}
    /\ UNCHANGED <<connectionVars, now, seconds, frame, stream, late>>

StreamEnded ==
    /\ stage = "loop" /\ Awake /\ ~StreamActive
    /\ stage' = "close"
    /\ UNCHANGED <<connectionVars, audioVars, sleep, late>>

\* Pa_CloseStream; the clock is not read again.
CloseStream ==
    /\ stage = "close" /\ Awake
    /\ stage' = "write" /\ stream' = "off" /\ now' = 0 /\ seconds' = 0
    /\ UNCHANGED <<connectionVars, frame, total, sleep, late>>

\* The file is written and the playback stream started.
StartPlayback ==
    /\ stage = "write" /\ stage' = "play"
    /\ frame' = 0 /\ late' = 0 /\ stream' = "playing"
    /\ UNCHANGED <<connectionVars, now, seconds, total, sleep>>

PlaybackTurn ==
    /\ stage = "play" /\ Awake /\ StreamActive /\ sleep' = Buffer
    /\ UNCHANGED <<connectionVars, audioVars, stage, late>>

\* The end of the playback, by itself or by a key, and of the program.
Finish ==
    /\ stage = "play" /\ Awake /\ Stop
    /\ stage' = "done" /\ stream' = "off"
    /\ UNCHANGED <<now, seconds, frame, total, sleep, late>>

\* An error of the device, of the file or of malloc: main returns without stop.
Error ==
    /\ stage \in {"close", "write", "play"} /\ Awake /\ Die
    /\ stage' = "failed" /\ stream' = "off"
    /\ UNCHANGED <<now, seconds, frame, total, sleep, late>>

NoDevice ==
    /\ stage = "open" /\ stage' = "failed" /\ NeverStarted
    /\ UNCHANGED <<audioVars, sleep, late>>

RecorderStep ==
    \/ StartRecording \/ BeginLoop \/ Turn \/ NoKey \/ StopKey \/ StreamEnded
    \/ CloseStream \/ StartPlayback \/ PlaybackTurn \/ Finish \/ Error \/ NoDevice

Beside(A) == A /\ UNCHANGED <<audioVars, stage, sleep, late>>
Network == Beside(Elsewhere)

Next == SampleStart \/ SampleCheck \/ SampleQuit \/ CheckStep \/ RecorderStep
          \/ Tick \/ Network

\* The threads run and what is sent arrives, as long as the network works; keys,
\* errors, other clients and faults are left to chance.
Fairness ==
    /\ WF_vars(SampleStart \/ SampleCheck \/ CheckStep) /\ WF_vars(Tick)
    /\ WF_vars(StartRecording \/ BeginLoop \/ Turn \/ NoKey \/ StreamEnded
                 \/ CloseStream \/ StartPlayback \/ PlaybackTurn \/ Finish)
    /\ WF_vars(Beside(SendRequest)) /\ WF_vars(Beside(GiveUp))
    /\ WF_vars(Beside(ClientOnReply)) /\ WF_vars(Beside(ClientOnRefusal))
    /\ WF_vars(Beside(ClientOnAccepted)) /\ WF_vars(Beside(ClientDead))
    /\ WF_vars(Beside(ServerOnOpen)) /\ WF_vars(Beside(ServerOnAsk))
    /\ WF_vars(Beside(ServerOnNewIncoming)) /\ WF_vars(Beside(ServerDead))

Spec == Init /\ [][Next]_vars /\ Fairness

---------------------------------------------------------------------------
TypeOK ==
    /\ ConnectionTypes /\ AudioTypes
    /\ stage \in {"sample", "open", "startup", "loop", "keys", "close", "write",
                  "play", "done", "failed"}
    /\ sleep \in Nat /\ late \in Nat

\* What is kept of a recording: all of it when the program came to its loop
\* within Extra - 1 seconds, less a buffer, of the start of the stream, and
\* never more than Extra seconds beyond the samples that were allocated.
TakeFits ==
    stage \in {"close", "write"} =>
        /\ late + Buffer <= (Extra - 1) * Rate => frame <= total
        /\ total <= Alloc + Extra * Rate

\* A lost connection is made anew when the network, the server and a slot of it
\* are there again and stay, as long as the program calls check; only a goodbye
\* of the server, or an attempt queued beside a connection, ends it for good.
Calling == stage \in {"sample", "loop", "keys"} /\ pc # "ended"
Reconnects ==
    <>[](Reaches /\ others + knocking < Slots) =>
        [](connection_lost =>
             <>(\/ peer = "connected" /\ ~connection_lost
                \/ Told("bye") \/ doubled \/ ~Calling))

\* "Attempting reconnection ..." (client.cpp:121): a client that is told that an
\* attempt failed, and goes on calling check, makes another.
FailedIsRetried == Told("failed") ~> (attempt \/ peer # "none" \/ ~Calling)
=============================================================================
