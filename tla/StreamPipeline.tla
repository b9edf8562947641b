--------------------------- MODULE StreamPipeline --------------------------
(***************************************************************************)
(* src/agent/src/pipeline/StreamPipeline.cpp and FrameQueue.hpp, driven by *)
(* features/StreamControl.cpp and the end of runAgent: the three threads   *)
(* of the agent's screen stream, the bounded queue between two of them,    *)
(* and the thread that starts and stops them.                              *)
(*                                                                         *)
(* A frame is the session it was captured in and its number there; pixels, *)
(* sizes and codecs are left out.  updateTransportStats has no caller, so  *)
(* round-trip time and packet loss are always zero and only the processor  *)
(* load changes the quality; the bitrate stays at its first step.          *)
(***************************************************************************)
EXTENDS Naturals, Sequences

CONSTANTS
    Capacity,           \* of the frame queue: 4
    ThresholdChecks,    \* checks in cpuThresholdSec: 2
    LastStep,           \* last index of fpsSteps and resolutionSteps: 2
    MaxFrames,          \* bound: frames captured in one session
    MaxSessions         \* bound: starts of the pipeline

ASSUME StreamPipelineAssumption ==
    /\ Capacity \in Nat \ {0} /\ ThresholdChecks \in Nat \ {0}
    /\ LastStep \in Nat /\ MaxFrames \in Nat /\ MaxSessions \in Nat

VARIABLES
    m_running, m_stopFlag,
    m_activePath,
    m_encoder,      \* encoder and colour converter are there
    m_q, m_stopped, \* the frame queue
    control,        \* where the thread of start and stop is
    capture, encode, quality,   \* where the three threads are
    inHand,         \* the frame the encode thread has popped
    session, pts,   \* number of this session, and of its next frame
    sent,           \* the newest frame handed to the producer
    fpsIdx, resolutionIdx,      \* m_qualityState
    highFor, lowFor             \* checks since the load went high, or low

queueVars    == <<m_q, m_stopped>>
qualityVars  == <<fpsIdx, resolutionIdx, highFor, lowFor>>
streamVars   == <<m_running, m_stopFlag, m_activePath, m_encoder>>
threadVars   == <<control, capture, encode, quality>>
frameVars    == <<inHand, session, pts, sent>>
pipelineVars == <<queueVars, qualityVars, streamVars, threadVars, frameVars>>

NoFrame == <<0, 0>>

PipelineInit ==
    /\ m_running = FALSE /\ m_stopFlag = FALSE
    /\ m_activePath = "kNone"
    /\ m_encoder = FALSE
    /\ m_q = << >> /\ m_stopped = FALSE
    /\ control = "idle"
    /\ capture = "none" /\ encode = "none" /\ quality = "none"
    /\ inHand = NoFrame /\ sent = NoFrame
    /\ session = 0 /\ pts = 0
    /\ fpsIdx = 0 /\ resolutionIdx = 0 /\ highFor = 0 /\ lowFor = 0

----------------------------------------------------------------------------
(* Wrong versions, one slip each. *)

\* The queue is not reset for the next session.
ResetQueueForgotten == UNCHANGED queueVars

\* pop waits for a frame only.
PopIgnoresStop ==
    /\ encode = "pop" /\ m_q # << >>
    /\ inHand' = Head(m_q)
    /\ m_q' = Tail(m_q)
    /\ encode' = "popped"
    /\ UNCHANGED <<m_stopped, qualityVars, streamVars, control, capture,
                   quality, session, pts, sent>>

\* The encoder is released before the quality thread is joined.
JoinEncodeReleases ==
    /\ control = "joinEncode" /\ encode = "exited"
    /\ encode' = "none" /\ control' = "joinQuality"
    /\ m_encoder' = FALSE
    /\ UNCHANGED <<queueVars, qualityVars, m_running, m_stopFlag, m_activePath,
                   capture, quality, frameVars>>

\* The frame rate is restored before the resolution.
RestoreFpsFirst ==
    IF fpsIdx > 0 THEN fpsIdx' = fpsIdx - 1 /\ UNCHANGED resolutionIdx
    ELSE resolutionIdx' = resolutionIdx - 1 /\ UNCHANGED fpsIdx

----------------------------------------------------------------------------
(* BoundedQueue *)

\* push drops the oldest frame of a full queue.
Push(frame) ==
    m_q' = Append(IF Len(m_q) >= Capacity THEN Tail(m_q) ELSE m_q, frame)

StopQueue  == m_stopped' = TRUE /\ UNCHANGED m_q
ResetQueue == m_q' = << >> /\ m_stopped' = FALSE

----------------------------------------------------------------------------
(* start *)

\* createBestEncoder and createBestConverter find what the machine has at the
\* time: NVENC with a GPU converter, NVENC with the other one, any encoder.
ProbePipeline(nvenc, encoder, converter) ==
    CASE nvenc /\ converter = "d3d11" -> "kFullGpu"
      [] nvenc /\ converter = "cpu"   -> "kMixedGpu"
      [] ~nvenc /\ encoder /\ converter # "none" -> "kCpuOnly"
      [] OTHER -> "kNone"

\* StreamControl "start", or the automatic start of runAgent, once the
\* producer is connected.  Without a path the start fails.
StartPipeline(nvenc, encoder, converter) ==
    LET path == ProbePipeline(nvenc, encoder, converter)
    IN  /\ control = "idle" /\ ~m_running /\ session < MaxSessions
        /\ m_stopFlag' = FALSE
        /\ IF path = "kNone"
           THEN UNCHANGED <<queueVars, qualityVars, m_running, m_activePath,
                            m_encoder, threadVars, frameVars>>
           ELSE /\ m_encoder' = TRUE
                /\ m_activePath' = path
                /\ fpsIdx' = 0 /\ resolutionIdx' = 0
                /\ highFor' = 0 /\ lowFor' = 0
                /\ ResetQueue
                /\ m_running' = TRUE
                /\ session' = session + 1 /\ pts' = 0
                /\ capture' = "loop" /\ encode' = "pop" /\ quality' = "sleep"
                /\ UNCHANGED <<control, inHand, sent>>

----------------------------------------------------------------------------
(* captureLoop *)

\* A turn of the loop: the flag is tested and the screen captured, which may
\* fail; the thread then waits and tries again.
CaptureFrame ==
    /\ capture = "loop" /\ ~m_stopFlag /\ pts < MaxFrames
    /\ capture' = "captured"
    /\ UNCHANGED <<queueVars, qualityVars, streamVars, control, encode, quality,
                   frameVars>>

CapturePush ==
    /\ capture = "captured"
    /\ Push(<<session, pts + 1>>)
    /\ pts' = pts + 1
    /\ capture' = "loop"
    /\ UNCHANGED <<m_stopped, qualityVars, streamVars, control, encode, quality,
                   inHand, session, sent>>

\* The loop is left and the queue stopped.
CaptureExit ==
    /\ capture = "loop" /\ m_stopFlag
    /\ StopQueue
    /\ capture' = "exited"
    /\ UNCHANGED <<qualityVars, streamVars, control, encode, quality, frameVars>>

----------------------------------------------------------------------------
(* encodeLoop *)

\* pop returns a frame, or, stopped and empty, ends the loop.
Pop ==
    /\ encode = "pop"
    /\ m_q # << >> \/ m_stopped
    /\ IF m_q = << >>
       THEN encode' = "exited" /\ UNCHANGED <<m_q, inHand>>
       ELSE /\ inHand' = Head(m_q)
            /\ m_q' = Tail(m_q)
            /\ encode' = "popped"
    /\ UNCHANGED <<m_stopped, qualityVars, streamVars, control, capture,
                   quality, session, pts, sent>>

\* The flag and the encoder are tested, then the frame is converted, which may
\* fail, and goes into the encoder.
EncodeBegin ==
    /\ encode = "popped"
    /\ encode' \in IF m_stopFlag \/ ~m_encoder THEN {"exited"}
                   ELSE {"encoding", "pop"}
    /\ UNCHANGED <<queueVars, qualityVars, streamVars, control, capture,
                   quality, frameVars>>

\* The encoder's callback hands the packet to a connected producer.
EncodeEnd ==
    /\ encode = "encoding"
    /\ sent' \in {sent, inHand}
    /\ encode' = "pop"
    /\ UNCHANGED <<queueVars, qualityVars, streamVars, control, capture,
                   quality, inHand, session, pts>>

----------------------------------------------------------------------------
(* qualityLoop and checkAdaptiveQuality *)

QualityWake ==
    /\ quality = "sleep"
    /\ quality' = IF m_stopFlag THEN "exited" ELSE "check"
    /\ UNCHANGED <<queueVars, qualityVars, streamVars, control, capture, encode,
                   frameVars>>

\* One step down: the frame rate first; the encoder gets its bitrate again
\* and a request for a key frame.
ReduceQuality ==
    IF fpsIdx < LastStep THEN fpsIdx' = fpsIdx + 1 /\ UNCHANGED resolutionIdx
    ELSE resolutionIdx' = resolutionIdx + 1 /\ UNCHANGED fpsIdx

\* One step up: the resolution first.
RestoreQuality ==
    IF resolutionIdx > 0
    THEN resolutionIdx' = resolutionIdx - 1 /\ UNCHANGED fpsIdx
    ELSE fpsIdx' = fpsIdx - 1 /\ UNCHANGED resolutionIdx

CanReduce  == fpsIdx < LastStep \/ resolutionIdx < LastStep
CanRestore == resolutionIdx > 0 \/ fpsIdx > 0

\* since is 0 when its timer is not running, and 1 at the check that starts it.
Sustained(since) == since > ThresholdChecks
Longer(since)    == IF Sustained(since) THEN since ELSE since + 1

CheckAdaptiveQuality(load) ==
    /\ quality = "check"
    /\ quality' = "sleep"
    /\ \/ /\ load = "high"
          /\ lowFor' = 0
          /\ IF Sustained(Longer(highFor)) /\ CanReduce
             THEN ReduceQuality /\ highFor' = 0
             ELSE highFor' = Longer(highFor) /\ UNCHANGED <<fpsIdx, resolutionIdx>>
       \/ /\ load = "low"
          /\ highFor' = 0
          /\ IF Sustained(Longer(lowFor)) /\ CanRestore
             THEN RestoreQuality /\ lowFor' = 0
             ELSE lowFor' = Longer(lowFor) /\ UNCHANGED <<fpsIdx, resolutionIdx>>
       \/ /\ load = "normal"
          /\ highFor' = 0 /\ lowFor' = 0
          /\ UNCHANGED <<fpsIdx, resolutionIdx>>
    /\ UNCHANGED <<queueVars, streamVars, control, capture, encode, frameVars>>

----------------------------------------------------------------------------
(* stop: StreamControl "stop", the end of runAgent, the destructor *)

StopSignal ==
    /\ control = "idle" /\ m_running
    /\ m_stopFlag' = TRUE /\ m_running' = FALSE
    /\ control' = "stopQueue"
    /\ UNCHANGED <<queueVars, qualityVars, m_activePath, m_encoder, capture,
                   encode, quality, frameVars>>

StopFrameQueue ==
    /\ control = "stopQueue"
    /\ StopQueue
    /\ control' = "joinCapture"
    /\ UNCHANGED <<qualityVars, streamVars, capture, encode, quality, frameVars>>

JoinCapture ==
    /\ control = "joinCapture" /\ capture = "exited"
    /\ capture' = "none" /\ control' = "joinEncode"
    /\ UNCHANGED <<queueVars, qualityVars, streamVars, encode, quality,
                   frameVars>>

JoinEncode ==
    /\ control = "joinEncode" /\ encode = "exited"
    /\ encode' = "none" /\ control' = "joinQuality"
    /\ UNCHANGED <<queueVars, qualityVars, streamVars, capture, quality,
                   frameVars>>

JoinQuality ==
    /\ control = "joinQuality" /\ quality = "exited"
    /\ quality' = "none" /\ control' = "release"
    /\ UNCHANGED <<queueVars, qualityVars, streamVars, capture, encode,
                   frameVars>>

\* Encoder and converter are shut down.
Release ==
    /\ control = "release"
    /\ m_encoder' = FALSE
    /\ m_activePath' = "kNone"
    /\ control' = "idle"
    /\ UNCHANGED <<queueVars, qualityVars, m_running, m_stopFlag, capture,
                   encode, quality, frameVars>>

----------------------------------------------------------------------------

CaptureThread == CaptureFrame \/ CapturePush \/ CaptureExit
EncodeThread  == Pop \/ EncodeBegin \/ EncodeEnd
QualityThread ==
    QualityWake \/ \E load \in {"high", "normal", "low"} :
                      CheckAdaptiveQuality(load)
StopThread ==
    StopFrameQueue \/ JoinCapture \/ JoinEncode \/ JoinQuality \/ Release

PipelineNext ==
    \/ \E nvenc, encoder \in BOOLEAN, converter \in {"d3d11", "cpu", "none"} :
          StartPipeline(nvenc, encoder, converter)
    \/ StopSignal
    \/ StopThread
    \/ CaptureThread
    \/ EncodeThread
    \/ QualityThread

\* The threads run: their waits are timed, or for the queue, and the calls of
\* the operating system and the codec return.  No command need come.
PipelineFairness ==
    /\ WF_pipelineVars(StopThread)
    /\ WF_pipelineVars(CaptureThread)
    /\ WF_pipelineVars(EncodeThread)
    /\ WF_pipelineVars(QualityThread)

PipelineSpec == PipelineInit /\ [][PipelineNext]_pipelineVars /\ PipelineFairness

----------------------------------------------------------------------------
(* Properties *)

\* Whatever the encode thread, slower than the capture thread, has missed: the
\* queue holds the newest frames of this session, without a gap and no older
\* one.  A stop and a start leave no frame of an earlier session, and what the
\* producer was handed of this one is older than all that waits.
FreshestKept ==
    m_running => /\ Len(m_q) <= Capacity
                 /\ \A i \in 1..Len(m_q) :
                       m_q[i] = <<session, pts - Len(m_q) + i>>
                 /\ sent[1] = session => sent[2] <= pts - Len(m_q)

\* Encoder and converter are not released while the encode thread is in them
\* or the quality thread may set the bitrate.
EncoderOutlivesUsers == encode = "encoding" \/ quality = "check" => m_encoder

\* Steps down and up use one ladder: the resolution is reduced only below the
\* last frame rate, the indices stay within their arrays, and at most one of
\* the timers runs.
QualityLadder ==
    /\ fpsIdx \in 0..LastStep /\ resolutionIdx \in 0..LastStep
    /\ resolutionIdx > 0 => fpsIdx = LastStep
    /\ highFor = 0 \/ lowFor = 0

\* stop returns: no thread waits for the queue, or for another thread, for
\* ever, wherever the stop finds them.
PipelineStops == control # "idle" ~> control = "idle"
============================================================================
