----------------------------- MODULE FrameReader -----------------------------
(***************************************************************************)
(* Serial bytes become frames: SerialManager._read_frame and                *)
(* _process_frame (serial_manager.py), in discrete time.                    *)
(*                                                                         *)
(* Bytes are numbered in the order the reader sends them, so what is in     *)
(* the driver's buffer and what is in `data` are intervals of numbers:      *)
(* data is first+1 .. taken, the driver holds taken+1 .. arrived.  Scan k   *)
(* is the k-th run of ScanBytes bytes; the reader sends the bytes of a scan *)
(* at most MaxGap ticks apart and leaves at least MinPause between scans.   *)
(* The loop polls once per tick (wait(0.01)).                               *)
(***************************************************************************)
EXTENDS Naturals, Sequences

CONSTANTS
    Idle,      \* idle_seconds: silence that opens the stabilisation window
    Settle,    \* settle_seconds: further silence that closes the frame
    Timeout,   \* frame_timeout of one call of _read_frame
    MaxBytes,  \* max_bytes
    MinBytes,  \* min_bytes
    Scans,     \* bound: scans the reader sends
    ScanBytes, \* bytes of a scan
    MaxGap,    \* longest gap inside a scan
    MinPause,  \* shortest gap between scans
    MayStop    \* stop() may come while a frame is read

\* The constructor refuses other times.
ASSUME FrameAssumption ==
    /\ {Idle, Settle, Timeout, MaxBytes, MinBytes, Scans, ScanBytes, MaxGap, MinPause}
         \subseteq Nat
    /\ Idle > 0 /\ Timeout > Idle + Settle
    /\ MaxBytes > 0 /\ ScanBytes > 0 /\ MinPause > 0
    /\ MayStop \in BOOLEAN

Total    == Scans * ScanBytes
NotQuiet == Timeout + 1     \* quiet_started is None
AtScanEnd(i) == i % ScanBytes = 0

VARIABLES
    arrived,  \* bytes the reader has sent
    gap,      \* ticks since the last of them, up to a bound
    first,    \* bytes before those of `data`
    taken,    \* bytes read so far
    elapsed,  \* ticks since _read_frame was called
    silence,  \* ticks since last_data
    quiet,    \* ticks since quiet_started, or NotQuiet
    polled,   \* the loop has polled in this tick
    stopped,  \* stop_event
    ending,   \* why the loop ended: none, quiet, full, time, stop
    frames    \* frames submitted, in order: from, to, why they ended

streamVars == <<arrived, gap>>
loopVars   == <<first, taken, elapsed, silence, quiet, ending>>
frVars == <<streamVars, loopVars, polled, stopped, frames>>

Length  == taken - first
GapSeen == IF MinPause > MaxGap THEN MinPause ELSE MaxGap + 1

FRInit ==
    /\ arrived = 0 /\ gap = GapSeen
    /\ first = 0 /\ taken = 0 /\ elapsed = 0 /\ silence = 0 /\ quiet = NotQuiet
    /\ polled = FALSE /\ stopped = FALSE /\ ending = "none" /\ frames = <<>>

-----------------------------------------------------------------------------
(* The reader's hardware and the clock.                                     *)

\* Several bytes may arrive within a tick.
ByteArrives ==
    /\ arrived < Total
    /\ AtScanEnd(arrived) => gap >= MinPause
    /\ arrived' = arrived + 1 /\ gap' = 0
    /\ UNCHANGED <<loopVars, polled, stopped, frames>>

\* A scan under way goes on in time; and the loop polls in every tick.
Tick ==
    /\ polled /\ ending = "none"
    /\ gap < MaxGap \/ AtScanEnd(arrived)
    /\ polled' = FALSE
    /\ gap' = IF gap < GapSeen THEN gap + 1 ELSE gap
    /\ elapsed' = elapsed + 1
    /\ silence' = IF silence < Timeout THEN silence + 1 ELSE silence
    /\ quiet' = IF quiet < Timeout THEN quiet + 1 ELSE quiet
    /\ UNCHANGED <<arrived, first, taken, ending, stopped, frames>>

Stop ==
    /\ MayStop /\ stopped' = TRUE
    /\ UNCHANGED <<streamVars, loopVars, polled, frames>>

-----------------------------------------------------------------------------
(* One iteration of the loop of _read_frame.                                *)

Polling == ~polled /\ ending = "none"

InTime  == ~stopped /\ elapsed < Timeout
Waiting == arrived - taken

\* The loop's condition fails.
TimeIsUp ==
    /\ Polling /\ ~InTime
    /\ ending' = IF stopped THEN "stop" ELSE "time"
    /\ UNCHANGED <<streamVars, first, taken, elapsed, silence, quiet, polled, stopped,
                   frames>>

\* serial_port.read(min(waiting, remaining)): what waits, up to the room left.
ReadChunk ==
    /\ Polling /\ InTime /\ Waiting > 0
    /\ LET room == MaxBytes - Length
           n    == IF Waiting < room THEN Waiting ELSE room
       IN  /\ taken' = taken + n
           /\ ending' = IF Length + n >= MaxBytes THEN "full" ELSE "none"
    /\ silence' = 0 /\ quiet' = NotQuiet
    /\ polled' = FALSE
    /\ UNCHANGED <<streamVars, first, elapsed, stopped, frames>>

\* Regression: the first window of silence closes the frame.
CloseAtOnce ==
    /\ Polling /\ InTime /\ Waiting = 0 /\ polled' = TRUE
    /\ ending' = IF Length > 0 /\ silence >= Idle THEN "quiet" ELSE "none"
    /\ UNCHANGED <<streamVars, first, taken, elapsed, silence, quiet, stopped, frames>>

\* Regression: the windows are not looked at, only the timeout closes a frame.
NeverClose ==
    /\ Polling /\ InTime /\ Waiting = 0 /\ polled' = TRUE
    /\ UNCHANGED <<streamVars, loopVars, stopped, frames>>

\* Nothing waits: the first window of silence, then the second, then the end.
AwaitQuiet ==
    /\ Polling /\ InTime /\ Waiting = 0
    /\ LET silent == Length > 0 /\ silence >= Idle
       IN  /\ quiet' = IF silent /\ quiet = NotQuiet THEN 0 ELSE quiet
           /\ ending' = IF silent /\ quiet # NotQuiet /\ quiet >= Settle
                        THEN "quiet" ELSE "none"
    /\ polled' = TRUE
    /\ UNCHANGED <<streamVars, first, taken, elapsed, silence, stopped, frames>>

\* Regression: a frame that is too short is kept, to be completed.
KeepShortFrame ==
    /\ ending # "none" /\ ~stopped
    /\ IF Length >= MinBytes
       THEN /\ frames' = Append(frames, [from |-> first, to |-> taken, why |-> ending])
            /\ first' = taken
       ELSE UNCHANGED <<frames, first>>
    /\ elapsed' = 0 /\ silence' = 0 /\ quiet' = NotQuiet
    /\ ending' = "none" /\ polled' = FALSE
    /\ UNCHANGED <<streamVars, taken, stopped>>

\* _connected_loop: the frame, if there is one of at least MinBytes, is handed
\* on, and _read_frame is called again unless the manager is to stop.
NextFrame ==
    /\ ending # "none" /\ ~stopped
    /\ frames' = IF Length > 0 /\ Length >= MinBytes
                 THEN Append(frames, [from |-> first, to |-> taken, why |-> ending])
                 ELSE frames
    /\ first' = taken /\ elapsed' = 0 /\ silence' = 0 /\ quiet' = NotQuiet
    /\ ending' = "none" /\ polled' = FALSE
    /\ UNCHANGED <<streamVars, taken, stopped>>

LastFrame ==
    /\ ending # "none" /\ stopped /\ first < taken
    /\ frames' = IF Length >= MinBytes
                 THEN Append(frames, [from |-> first, to |-> taken, why |-> ending])
                 ELSE frames
    /\ first' = taken
    /\ UNCHANGED <<streamVars, taken, elapsed, silence, quiet, ending, polled, stopped>>

Loop == TimeIsUp \/ ReadChunk \/ AwaitQuiet \/ NextFrame \/ LastFrame

FRNext == ByteArrives \/ Tick \/ Stop \/ Loop

FRSpec == FRInit /\ [][FRNext]_frVars

\* Time passes and the loop runs; the reader finishes a scan it has begun, which
\* Tick's guard enforces.
FRFairSpec == FRSpec /\ WF_frVars(Tick) /\ WF_frVars(Loop) /\ WF_frVars(ByteArrives)

-----------------------------------------------------------------------------
ScanOf(byte) == (byte - 1) \div ScanBytes

\* The two windows never close a frame inside a scan, as long as the gaps of the
\* scan are shorter than both together.
QuietMeansScanEnd ==
    \A k \in DOMAIN frames :
        frames[k].why = "quiet" => AtScanEnd(frames[k].to)

\* Two scans with a pause longer than both windows never share a frame.
OneScanPerFrame ==
    \A k \in DOMAIN frames : ScanOf(frames[k].from + 1) = ScanOf(frames[k].to)

\* Documented: a frame is closed by a second window of silence.
ClosedByQuiet ==
    \A k \in DOMAIN frames : frames[k].why \in {"quiet", "full"}

\* Every byte the reader sends ends up in a frame, or in one too short to hand on.
EveryByteIsFramed ==
    \A i \in 1..Total : arrived >= i ~> first >= i \/ stopped

=============================================================================
