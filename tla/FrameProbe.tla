----------------------------- MODULE FrameProbe -----------------------------
(***************************************************************************)
(* The frame probe of FrameProbe.cpp and FrameSpike.h: while debug logging *)
(* is on, four rings keep the last frames' durations and what of them went *)
(* to the native rebuild and to InvalidateListData; a few frames after a   *)
(* list refresh one line with the slowest of them is logged.               *)
(*                                                                         *)
(* The main thread runs the game's update (in it list rebuilds, the list   *)
(* scripts and the processList hook) and then OnFrame.  Time is counted in *)
(* whole units; the unit conversions of the code are exact.                *)
(*                                                                         *)
(* Operators whose comment begins with "Faulty:" are wrong on purpose.     *)
(***************************************************************************)
EXTENDS Integers, Sequences, FiniteSetsExt

CONSTANTS
  Window,      \* kWindow
  PostFrames,  \* kPostFrames
  Menus,       \* menu tags
  Nil,         \* no refresh; no line
  Costs,       \* how long a rebuild or an InvalidateListData takes
  MaxMs,       \* bound: how long a frame takes
  MaxCalls     \* bound: calls of InvalidateListData in a frame

ASSUME ProbeConstants ==
  /\ Window \in Nat \ {0}
  /\ PostFrames \in 1..Window
  /\ Costs \subseteq Nat /\ MaxMs \in Nat /\ MaxCalls \in Nat
  /\ Nil \notin Menus

Series == {"ms", "native", "invldMs", "invldCount"}

-----------------------------------------------------------------------------
(* FrameRing *)

Slot == 0..Window - 1
Ring == [buf : [Slot -> Nat], head : Slot, count : 0..Window]

EmptyRing == [buf |-> [i \in Slot |-> 0], head |-> 0, count |-> 0]

Push(r, x) ==
  [buf |-> [r.buf EXCEPT ![r.head] = x],
   head |-> (r.head + 1) % Window,
   count |-> IF r.count < Window THEN r.count + 1 ELSE r.count]

\* The slots keep their values.
Clear(r) == [buf |-> r.buf, head |-> 0, count |-> 0]

\* Faulty: the oldest frame is taken to be in the slot of the head.
SnapshotFromHead(r) == [i \in 1..r.count |-> r.buf[(r.head + i - 1) % Window]]

\* Oldest first.
Snapshot(r) ==
  LET start == (r.head + Window - r.count) % Window IN
  [i \in 1..r.count |-> r.buf[(start + i - 1) % Window]]

-----------------------------------------------------------------------------
(* ComputeSpike, ComputeSplit, ComputeInvalidate *)

\* Faulty: the last frame is taken for the slow one.
LastFrame(frames) == Len(frames)

\* The first of the slowest frames.
PeakIndex(frames) ==
  Min({i \in DOMAIN frames : \A j \in DOMAIN frames : frames[j] <= frames[i]})

\* The k-th smallest (from 0) of the frames at the given positions.
Ranked(frames, at, k) ==
  CHOOSE v \in {frames[i] : i \in at} :
    /\ Cardinality({i \in at : frames[i] < v}) <= k
    /\ k < Cardinality({i \in at : frames[i] <= v})

\* Twice the median of the frames other than the peak.
TwiceBaseline(frames) ==
  LET rest == DOMAIN frames \ {PeakIndex(frames)}
      size == Cardinality(rest)
      mid == size \div 2
  IN IF rest = {} THEN 0
     ELSE IF size % 2 = 0
          THEN Ranked(frames, rest, mid - 1) + Ranked(frames, rest, mid)
          ELSE 2 * Ranked(frames, rest, mid)

\* What the logged line says of the rings.  A window with no frame has no
\* peak: everything is zero.
Report(rings, menu) ==
  LET frames == Snapshot(rings["ms"])
      native == Snapshot(rings["native"])
      counts == Snapshot(rings["invldCount"])
      times == Snapshot(rings["invldMs"])
      peak == PeakIndex(frames)
      peakMs == IF frames = <<>> THEN 0 ELSE frames[peak]
      twiceSpike == IF frames = <<>> THEN 0 ELSE 2 * peakMs - TwiceBaseline(frames)
      nativeMs == IF frames # <<>> /\ peak <= Len(native) THEN native[peak] ELSE 0
      shared == 1..Min({Len(counts), Len(times)})
  IN [menu |-> menu, frames |-> frames, peak |-> peakMs,
      twiceBaseline |-> 2 * peakMs - twiceSpike,
      native |-> nativeMs,
      twiceFlash |-> Max({0, twiceSpike - 2 * nativeMs}),
      calls |-> SumFunctionOnSet(counts, shared),
      total |-> SumFunctionOnSet(times, shared)]

-----------------------------------------------------------------------------
VARIABLES
  debug,        \* spdlog::should_log(debug)
  rings,        \* ProbeState::ring, nativeRing, invldMsRing, invldCountRing
  timing,       \* ProbeState::lastFrame is set
  tally,        \* the tallies of this frame, and its duration so far ("ms")
  pending,      \* ProbeState::pending
  framesAfter,  \* ProbeState::framesAfter
  menu,         \* ProbeState::menu (and count, which is set along with it)
  printed,      \* the line the last step logged
  refreshed,    \* the menu whose list was refreshed in this frame (history)
  log           \* the true last frames since timing began (history)

historyVars == <<refreshed, log>>
probeVars == <<debug, rings, timing, tally, pending, framesAfter, menu, printed,
               refreshed, log>>

NoTally == [s \in Series |-> 0]

\* A frame as it was: its duration, its shares, the refresh it contained.
Frame == [ms : Nat, native : Nat, invldMs : Nat, invldCount : Nat,
          menu : Menus \cup {Nil}]

ProbeTypeOK ==
  /\ debug \in BOOLEAN /\ timing \in BOOLEAN /\ pending \in BOOLEAN
  /\ rings \in [Series -> Ring]
  /\ tally \in [Series -> Nat]
  /\ framesAfter \in 0..PostFrames
  /\ menu \in Menus \cup {Nil}
  /\ refreshed \in Menus \cup {Nil}
  /\ log \in Seq(Frame) /\ Len(log) <= Window

ProbeInit ==
  /\ debug = FALSE /\ timing = FALSE
  /\ rings = [s \in Series |-> EmptyRing]
  /\ tally = NoTally
  /\ pending = FALSE /\ framesAfter = 0 /\ menu = Nil
  /\ printed = Nil
  /\ refreshed = Nil /\ log = <<>>

-----------------------------------------------------------------------------
(* What happens during the game's update *)

Tick ==
  /\ tally["ms"] < MaxMs
  /\ tally' = [tally EXCEPT !["ms"] = @ + 1]
  /\ printed' = Nil
  /\ UNCHANGED <<debug, rings, timing, pending, framesAfter, menu, historyVars>>

\* A native rebuild that took d has returned.
UpdateImpl(d) ==
  /\ debug
  /\ tally["native"] + d <= tally["ms"]
  /\ tally' = [tally EXCEPT !["native"] = @ + d]
  /\ printed' = Nil
  /\ UNCHANGED <<debug, rings, timing, pending, framesAfter, menu, historyVars>>

\* A fast InvalidateListData that took d has returned; it may have been part
\* of a native rebuild.
NoteInvalidateListData(d) ==
  /\ debug
  /\ tally["invldCount"] < MaxCalls
  /\ tally["invldMs"] + d <= tally["ms"]
  /\ tally' = [tally EXCEPT !["invldMs"] = @ + d, !["invldCount"] = @ + 1]
  /\ printed' = Nil
  /\ UNCHANGED <<debug, rings, timing, pending, framesAfter, menu, historyVars>>

\* Faulty: the frames of an earlier refresh go on counting.
NoteRefreshCounting(m) ==
  /\ debug
  /\ menu' = m /\ pending' = TRUE
  /\ framesAfter' = IF pending THEN framesAfter ELSE 0
  /\ refreshed' = m
  /\ printed' = Nil
  /\ UNCHANGED <<debug, rings, timing, tally, log>>

\* processList has refreshed the list of menu m.
NoteRefresh(m) ==
  /\ debug
  /\ menu' = m /\ pending' = TRUE /\ framesAfter' = 0
  /\ refreshed' = m
  /\ printed' = Nil
  /\ UNCHANGED <<debug, rings, timing, tally, log>>

\* "i5 debug on|off".
SetDebugLogging(on) ==
  /\ debug' = on
  /\ printed' = Nil
  /\ UNCHANGED <<rings, timing, tally, pending, framesAfter, menu, historyVars>>

-----------------------------------------------------------------------------
(* OnFrame *)

\* Faulty: the native ring keeps its frames.
FrameOffKeepingNative ==
  /\ ~debug
  /\ pending' = FALSE /\ framesAfter' = 0 /\ timing' = FALSE
  /\ tally' = NoTally
  /\ rings' = [s \in Series |-> IF s = "native" THEN rings[s] ELSE Clear(rings[s])]
  /\ printed' = Nil
  /\ refreshed' = Nil /\ log' = <<>>
  /\ UNCHANGED <<debug, menu>>

\* Debug logging is off: everything but the menu is dropped.
FrameOff ==
  /\ ~debug
  /\ pending' = FALSE /\ framesAfter' = 0 /\ timing' = FALSE
  /\ tally' = NoTally
  /\ rings' = [s \in Series |-> Clear(rings[s])]
  /\ printed' = Nil
  /\ refreshed' = Nil /\ log' = <<>>
  /\ UNCHANGED <<debug, menu>>

\* The frame that ends, as it was.
ThisFrame ==
  [ms |-> tally["ms"], native |-> tally["native"], invldMs |-> tally["invldMs"],
   invldCount |-> tally["invldCount"], menu |-> refreshed]

\* The frames of log, with one more, that fit the window.
Logged(frame) ==
  LET longer == Append(log, frame)
  IN IF Len(longer) > Window THEN Tail(longer) ELSE longer

\* Faulty: the native tally is pushed even when the frame is not timed.
RecordFrameUnaligned ==
  /\ rings' = [s \in Series |->
                 IF timing \/ s = "native" THEN Push(rings[s], tally[s]) ELSE rings[s]]
  /\ log' = IF timing THEN Logged(ThisFrame) ELSE log

\* The first frame after debug logging came on has no start to be timed from.
RecordFrame ==
  /\ rings' = [s \in Series |->
                 IF timing THEN Push(rings[s], tally[s]) ELSE rings[s]]
  /\ log' = IF timing THEN Logged(ThisFrame) ELSE log

\* A frame of a pending refresh.
CountFrame == pending /\ framesAfter' = framesAfter + 1

\* No line is due yet, or none at all.
FrameOn ==
  /\ debug
  /\ RecordFrame
  /\ tally' = NoTally /\ timing' = TRUE /\ refreshed' = Nil
  /\ IF pending THEN CountFrame /\ framesAfter' < PostFrames ELSE UNCHANGED framesAfter
  /\ printed' = Nil
  /\ UNCHANGED <<debug, pending, menu>>

\* Faulty: the refresh stays pending after its line.
FrameDumpPending ==
  /\ debug
  /\ RecordFrame
  /\ tally' = NoTally /\ timing' = TRUE /\ refreshed' = Nil
  /\ CountFrame /\ framesAfter' >= PostFrames
  /\ printed' = Report(rings', menu)
  /\ UNCHANGED <<debug, pending, menu>>

\* The line of a refresh is due.
FrameDump ==
  /\ debug
  /\ RecordFrame
  /\ tally' = NoTally /\ timing' = TRUE /\ refreshed' = Nil
  /\ CountFrame /\ framesAfter' >= PostFrames
  /\ pending' = FALSE
  /\ printed' = Report(rings', menu)
  /\ UNCHANGED <<debug, menu>>

OnFrame == FrameOff \/ FrameOn \/ FrameDump

ProbeNext ==
  \/ Tick
  \/ \E d \in Costs : UpdateImpl(d) \/ NoteInvalidateListData(d)
  \/ \E m \in Menus : NoteRefresh(m)
  \/ \E on \in BOOLEAN : SetDebugLogging(on)
  \/ OnFrame

ProbeSpec == ProbeInit /\ [][ProbeNext]_probeVars

-----------------------------------------------------------------------------
(* Properties *)

\* The four rings agree: read oldest first, each holds its own share of the
\* very same last frames, all of them timed since debug logging last came
\* on.  Neither wrapping around, nor slots that Clear left filled, nor the
\* untimed first frame ever shifts one ring against another.
RingsHoldTheLastFrames ==
  \A s \in Series : Snapshot(rings[s]) = [i \in 1..Len(log) |-> log[i][s]]

\* A logged line tells the truth of the frames it shows: its peak is their
\* longest, its native time is that of a frame that took as long, its
\* baseline is a median of the others, native and flash time make up the
\* spike (or native alone exceeds it), and its totals are those of the
\* window.
ReportIsTrue ==
  printed # Nil =>
    LET frames == DOMAIN log
        twiceSpike == 2 * printed.peak - printed.twiceBaseline
        half(S) == 2 * Cardinality(S) >= Len(log) - 1
    IN /\ printed.frames = [i \in frames |-> log[i].ms]
       /\ frames # {} => \E p \in frames :
            /\ \A i \in frames : log[i].ms <= log[p].ms
            /\ printed.peak = log[p].ms /\ printed.native = log[p].native
            /\ frames # {p} =>
                 /\ half({i \in frames \ {p} : 2 * log[i].ms <= printed.twiceBaseline})
                 /\ half({i \in frames \ {p} : 2 * log[i].ms >= printed.twiceBaseline})
       /\ \/ 2 * printed.native + printed.twiceFlash = twiceSpike
          \/ 2 * printed.native > twiceSpike /\ printed.twiceFlash = 0
       /\ printed.total = SumFunction([i \in frames |-> log[i].invldMs])
       /\ printed.calls = SumFunction([i \in frames |-> log[i].invldCount])

\* A line is about the latest refresh: the frame of that refresh is in the
\* window, PostFrames from its end, and no later frame refreshed a list.
\* (Only the frame in which debug logging came on is not in the window.)
DumpCoversRefresh ==
  printed # Nil =>
    LET n == Len(log) IN
    /\ n >= PostFrames - 1
    /\ \A i \in n - PostFrames + 2..n : log[i].menu = Nil
    /\ n >= PostFrames => log[n - PostFrames + 1].menu = printed.menu

=============================================================================
