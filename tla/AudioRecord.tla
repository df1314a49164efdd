---------------------------- MODULE AudioRecord ----------------------------
(***************************************************************************)
(* The sound device of portaudio_record.c: a stream calls recordCallback,  *)
(* then playCallback, in a thread of its own, once per buffer.  The        *)
(* callbacks and the main thread share frameIndex and maxFrameIndex        *)
(* without a lock.  Time is counted in frames.                             *)
(***************************************************************************)
EXTENDS Integers

CONSTANTS
    Rate,          \* frames per second of the clock (SAMPLE_RATE)
    Buffer,        \* frames per call (FRAMES_PER_BUFFER)
    NumSeconds,    \* length of recordedSamples (NUM_SECONDS)
    Extra,         \* seconds added when the recording is stopped
    Width          \* framesLeft is unsigned: it counts modulo this

ASSUME RatesAssumption ==
    /\ Rate \in Nat \ {0} /\ Buffer \in 1..Rate
    /\ NumSeconds \in Nat \ {0} /\ Extra \in Nat
    /\ Width \in Nat /\ Width > (NumSeconds + Extra + 2) * Rate + Buffer

VARIABLES
    now,       \* the clock
    seconds,   \* time(NULL) when the main loop began
    frame,     \* frameIndex
    total,     \* maxFrameIndex and totalFrames, which are always set together
    stream     \* what the stream does, "finished" once a callback said so

audioVars == <<now, seconds, frame, total, stream>>

Alloc == NumSeconds * Rate
Time == now \div Rate
Elapsed == Time - seconds
StreamActive == stream \in {"recording", "playing"}

AudioInit ==
    /\ now \in 0..(Rate - 1) /\ seconds = 0
    /\ frame = 0 /\ total = Alloc /\ stream = "off"

\* Both callbacks: once frame has passed total, what is left is huge.
FramesLeft == (total - frame) % Width

\* (Wrong on purpose: the last buffer is taken whole.)
FinishedLate == FramesLeft = 0

Finished == FramesLeft < Buffer

Frames == IF Finished THEN FramesLeft ELSE Buffer

Callback ==
    /\ frame' = IF StreamActive THEN frame + Frames ELSE frame
    /\ stream' = IF StreamActive /\ Finished THEN "finished" ELSE stream

\* (Wrong on purpose: nothing is added for what was recorded before the loop.)
KeptBare == Elapsed * Rate

\* The frames that are kept when the recording is stopped by a key.
Kept == (Elapsed + Extra) * Rate

AudioTypes ==
    /\ now \in Nat /\ seconds \in Nat
    /\ total \in 0..((NumSeconds + Extra + 2) * Rate)
    /\ frame \in 0..(Alloc + (Extra + 1) * Rate)
    /\ stream \in {"off", "recording", "playing", "finished"}
=============================================================================
