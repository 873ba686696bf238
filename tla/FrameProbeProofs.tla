-------------------------- MODULE FrameProbeProofs --------------------------
(***************************************************************************)
(* Theorems about FrameProbe, for rings of every size: the rings hold the  *)
(* last frames, and a logged line covers its refresh and is true of them.  *)
(***************************************************************************)
EXTENDS FrameProbe, FiniteSetTheorems, TLAPS

\* The only use of %: positions run at most once past the end.
LEMMA WrapOnce ==
  ASSUME NEW a \in 0..2 * Window - 1
  PROVE a % Window = IF a < Window THEN a ELSE a - Window
<1>1. Window \in Nat \ {0}
  BY ProbeConstants
<1>2. CASE a < Window
  BY <1>1, <1>2, SMT
<1>3. CASE ~(a < Window)
  <2>1. a - Window \in 0..Window - 1
    BY <1>1, <1>3, SMT
  <2>2. a = 1 * Window + (a - Window)
    BY <1>1, SMT
  <2> QED
    BY <1>1, <1>3, <2>1, <2>2, SMTT(30)
<1> QED
  BY <1>2, <1>3

\* Sequences with the same elements are the same.
LEMMA SameSeq ==
  ASSUME NEW S, NEW a \in Seq(S), NEW b \in Seq(S), Len(a) = Len(b),
         \A i \in 1..Len(a) : a[i] = b[i]
  PROVE a = b
OBVIOUS

\* A sequence is the function that has its elements.
LEMMA SeqIsFunction ==
  ASSUME NEW S, NEW a \in Seq(S), NEW f, f = [i \in DOMAIN f |-> f[i]],
         DOMAIN f = 1..Len(a), \A i \in 1..Len(a) : a[i] = f[i]
  PROVE a = f
<1>1. a = [i \in 1..Len(a) |-> a[i]]
  OBVIOUS
<1> QED
  BY <1>1

\* The slot of the i-th oldest frame of a ring.
Place(r, i) == (((r.head + Window - r.count) % Window) + i - 1) % Window

\* The parts of a ring and their types.
LEMMA RingFields ==
  ASSUME NEW r \in Ring
  PROVE /\ r = [buf |-> r.buf, head |-> r.head, count |-> r.count]
        /\ r.buf \in [Slot -> Nat] /\ r.head \in Slot /\ r.count \in 0..Window
BY DEF Ring

\* What a push does to each part of a ring.
LEMMA PushRing ==
  ASSUME NEW r \in Ring, NEW x \in Nat
  PROVE /\ Push(r, x) \in Ring
        /\ Push(r, x).buf = [r.buf EXCEPT ![r.head] = x]
        /\ Push(r, x).head = IF r.head + 1 < Window THEN r.head + 1 ELSE 0
        /\ Push(r, x).count = IF r.count < Window THEN r.count + 1 ELSE r.count
<1> DEFINE q == Push(r, x)
<1>1. Window \in Nat \ {0} /\ r.head \in Slot /\ r.count \in 0..Window
  BY ProbeConstants, RingFields
<1>2. r.head + 1 \in 0..2 * Window - 1
  BY <1>1 DEF Slot
<1>3. (r.head + 1) % Window = IF r.head + 1 < Window THEN r.head + 1 ELSE 0
  BY <1>1, <1>2, WrapOnce DEF Slot
<1>4. /\ q.buf = [r.buf EXCEPT ![r.head] = x]
      /\ q.head = (r.head + 1) % Window
      /\ q.count = IF r.count < Window THEN r.count + 1 ELSE r.count
  BY DEF Push
<1>5. q.buf \in [Slot -> Nat]
  BY <1>4, RingFields
<1>6. q.head \in Slot
  BY <1>1, <1>3, <1>4 DEF Slot
<1>7. q.count \in 0..Window
  BY <1>1, <1>4
<1>8. q \in Ring
  BY <1>5, <1>6, <1>7 DEF Push, Ring
<1> QED
  BY <1>3, <1>4, <1>8

\* Where frame i is: positions, without the remainders.
LEMMA PlaceOf ==
  ASSUME NEW r \in Ring, NEW i \in 1..r.count
  PROVE /\ Place(r, i) \in Slot
        /\ Place(r, i) = IF r.head - r.count + i - 1 >= 0
                         THEN r.head - r.count + i - 1
                         ELSE r.head - r.count + i - 1 + Window
<1> DEFINE a == r.head + Window - r.count
           start == a % Window
<1>1. Window \in Nat \ {0} /\ r.head \in 0..Window - 1 /\ r.count \in 0..Window
  BY ProbeConstants, RingFields DEF Slot
<1>2. a \in 0..2 * Window - 1
  BY <1>1
<1>3. start = IF a < Window THEN a ELSE a - Window
  BY <1>2, WrapOnce
<1>4. start \in 0..Window - 1
  BY <1>1, <1>2, <1>3
<1>5. start + i - 1 \in 0..2 * Window - 1
  BY <1>1, <1>4
<1> HIDE DEF start
<1>6. Place(r, i) = IF start + i - 1 < Window THEN start + i - 1 ELSE start + i - 1 - Window
  <2>1. PICK b \in 0..2 * Window - 1 : b = start + i - 1
    BY <1>5
  <2>2. b % Window = IF b < Window THEN b ELSE b - Window
    BY WrapOnce
  <2>3. Place(r, i) = b % Window
    BY <2>1 DEF Place, start
  <2>4. Place(r, i) = IF b < Window THEN b ELSE b - Window
    BY <2>2, <2>3, Zenon
  <2> QED
    BY <1>1, <1>4, <2>1, <2>4
<1>7. Place(r, i) \in Slot
  BY <1>1, <1>4, <1>5, <1>6 DEF Slot
<1>8. Place(r, i) = IF r.head - r.count + i - 1 >= 0
                    THEN r.head - r.count + i - 1
                    ELSE r.head - r.count + i - 1 + Window
  BY <1>1, <1>3, <1>4, <1>6
<1> QED
  BY <1>7, <1>8

\* What a ring shows: as many frames as it counts, each from its place.
LEMMA SnapshotOf ==
  ASSUME NEW r \in Ring
  PROVE /\ Snapshot(r) \in Seq(Nat) /\ Len(Snapshot(r)) = r.count
        /\ \A i \in 1..r.count : Snapshot(r)[i] = r.buf[Place(r, i)]
<1>1. Snapshot(r) = [i \in 1..r.count |-> r.buf[Place(r, i)]]
  BY DEF Snapshot, Place
<1>2. r.count \in Nat
  BY ProbeConstants, RingFields
<1>3. \A i \in 1..r.count : r.buf[Place(r, i)] \in Nat
  BY PlaceOf, RingFields
<1> QED
  BY <1>1, <1>2, <1>3

\* What pushing does to the frames a ring holds: one more at the end, and
\* none lost but the oldest of a full ring.
LEMMA PushAppends ==
  ASSUME NEW r \in Ring, NEW x \in Nat
  PROVE Snapshot(Push(r, x)) =
          IF r.count < Window THEN Append(Snapshot(r), x)
          ELSE Tail(Append(Snapshot(r), x))
<1> DEFINE q == Push(r, x)
           s == Snapshot(r)
           t == Snapshot(q)
<1>1. Window \in Nat \ {0} /\ r.head \in 0..Window - 1 /\ r.count \in 0..Window
  BY ProbeConstants, RingFields DEF Slot
<1>2. /\ q \in Ring
      /\ q.buf = [r.buf EXCEPT ![r.head] = x]
      /\ q.head = IF r.head + 1 < Window THEN r.head + 1 ELSE 0
      /\ q.count = IF r.count < Window THEN r.count + 1 ELSE r.count
  BY PushRing
<1>3. /\ s \in Seq(Nat) /\ Len(s) = r.count
      /\ \A i \in 1..r.count : s[i] = r.buf[Place(r, i)]
  BY SnapshotOf
<1>4. /\ t \in Seq(Nat) /\ Len(t) = q.count
      /\ \A i \in 1..q.count : t[i] = q.buf[Place(q, i)]
  BY <1>2, SnapshotOf
<1>5. r.buf \in [Slot -> Nat]
  BY RingFields
<1> HIDE DEF q, s, t
<1>6. CASE r.count < Window
  <2>1. q.count = r.count + 1
    BY <1>2, <1>6
  <2>2. ASSUME NEW i \in 1..r.count PROVE t[i] = s[i]
    <3>1. i \in 1..q.count
      BY <1>1, <2>1
    <3>2. Place(q, i) = Place(r, i)
      BY <1>1, <1>2, <1>6, <2>1, <3>1, PlaceOf
    <3>3. Place(r, i) \in Slot /\ Place(r, i) # r.head
      BY <1>1, <1>6, PlaceOf
    <3> QED
      BY <1>2, <1>3, <1>4, <1>5, <3>1, <3>2, <3>3
  <2>3. t[r.count + 1] = x
    <3>1. Place(q, r.count + 1) = r.head
      <4>1. r.count + 1 \in 1..q.count
        BY <1>1, <2>1
      <4> QED
        BY <1>1, <1>2, <2>1, <4>1, PlaceOf
    <3>2. r.count + 1 \in 1..q.count
      BY <1>1, <2>1
    <3>3. t[r.count + 1] = q.buf[r.head]
      BY <1>4, <3>1, <3>2
    <3> QED
      BY <1>1, <1>2, <1>5, <3>3 DEF Slot
  <2>4. t = Append(s, x)
    <3>1. /\ Append(s, x) \in Seq(Nat) /\ Len(Append(s, x)) = r.count + 1
          /\ Append(s, x)[r.count + 1] = x
          /\ \A i \in 1..r.count : Append(s, x)[i] = s[i]
      BY <1>1, <1>3
    <3>2. ASSUME NEW i \in 1..r.count + 1 PROVE t[i] = Append(s, x)[i]
      <4>1. i \in 1..r.count \/ i = r.count + 1
        BY <1>1
      <4> QED
        BY <2>2, <2>3, <3>1, <4>1
    <3> QED
      BY <1>4, <2>1, <3>1, <3>2, SameSeq
  <2> QED
    BY <1>6, <2>4 DEF s, t, q
<1>7. CASE ~(r.count < Window)
  <2>1. q.count = Window /\ r.count = Window
    BY <1>1, <1>2, <1>7
  <2>2. ASSUME NEW i \in 1..Window - 1 PROVE t[i] = s[i + 1]
    <3>1. i \in 1..q.count /\ i + 1 \in 1..r.count
      BY <1>1, <2>1
    <3>2. Place(q, i) = Place(r, i + 1)
      <4>1. Place(r, i + 1) = IF r.head - r.count + (i + 1) - 1 >= 0
                              THEN r.head - r.count + (i + 1) - 1
                              ELSE r.head - r.count + (i + 1) - 1 + Window
        BY <3>1, PlaceOf
      <4>2. Place(q, i) = IF q.head - q.count + i - 1 >= 0
                          THEN q.head - q.count + i - 1
                          ELSE q.head - q.count + i - 1 + Window
        BY <1>2, <3>1, PlaceOf
      <4> QED
        BY <1>1, <1>2, <2>1, <4>1, <4>2
    <3>3. Place(r, i + 1) \in Slot
      BY <3>1, PlaceOf
    <3>4. Place(r, i + 1) # r.head
      BY <1>1, <2>1, <3>1, PlaceOf
    <3> QED
      BY <1>2, <1>3, <1>4, <1>5, <3>1, <3>2, <3>3, <3>4
  <2>3. t[Window] = x
    <3>1. Window \in 1..q.count
      BY <1>1, <2>1
    <3>2. Place(q, Window) = r.head
      BY <1>1, <1>2, <2>1, <3>1, PlaceOf
    <3> QED
      BY <1>1, <1>2, <1>4, <1>5, <3>1, <3>2 DEF Slot
  <2>4. t = Tail(Append(s, x))
    <3>1. /\ Append(s, x) \in Seq(Nat) /\ Len(Append(s, x)) = Window + 1
          /\ Append(s, x)[Window + 1] = x
          /\ \A i \in 1..Window : Append(s, x)[i] = s[i]
      BY <1>1, <1>3, <2>1
    <3>2. /\ Tail(Append(s, x)) \in Seq(Nat) /\ Len(Tail(Append(s, x))) = Window
          /\ \A i \in 1..Window : Tail(Append(s, x))[i] = Append(s, x)[i + 1]
      BY <1>1, <3>1
    <3>3. \A i \in 1..Window : Tail(Append(s, x))[i] = t[i]
      <4> TAKE i \in 1..Window
      <4>1. CASE i = Window
        <5>1. Window \in 1..Window
          BY <1>1
        <5>2. Tail(Append(s, x))[Window] = Append(s, x)[Window + 1]
          BY <3>2, <5>1
        <5>3. Tail(Append(s, x))[Window] = t[Window]
          BY <2>3, <3>1, <5>2
        <5> QED
          BY <4>1, <5>3, Zenon
      <4>2. CASE i \in 1..Window - 1
        <5>1. t[i] = s[i + 1]
          BY <2>2, <4>2
        <5>2. i + 1 \in 1..Window
          BY <1>1, <4>2
        <5> QED
          BY <3>1, <3>2, <5>1, <5>2
      <4>3. i = Window \/ i \in 1..Window - 1
        BY <1>1
      <4> QED
        BY <4>1, <4>2, <4>3, Zenon
    <3> QED
      BY <1>4, <2>1, <3>2, <3>3, SameSeq
  <2> QED
    BY <1>7, <2>4 DEF s, t, q
<1> QED
  BY <1>6, <1>7

-----------------------------------------------------------------------------
(* Type correctness *)

\* The frame that ends is made of the tallies.
LEMMA ThisFrameType ==
  ASSUME ProbeTypeOK
  PROVE ThisFrame \in Frame /\ \A s \in Series : ThisFrame[s] = tally[s]
BY DEF ProbeTypeOK, ThisFrame, Frame, Series

\* The frames that are kept fit the window.
LEMMA LoggedType ==
  ASSUME ProbeTypeOK, NEW f \in Frame
  PROVE Logged(f) \in Seq(Frame) /\ Len(Logged(f)) <= Window
<1>1. Window \in Nat \ {0} /\ log \in Seq(Frame) /\ Len(log) <= Window
  BY ProbeConstants DEF ProbeTypeOK
<1>2. Append(log, f) \in Seq(Frame) /\ Len(Append(log, f)) = Len(log) + 1
  BY <1>1
<1>3. CASE Len(Append(log, f)) > Window
  <2>1. Append(log, f) # <<>>
    BY <1>1, <1>2, <1>3
  <2>2. Tail(Append(log, f)) \in Seq(Frame) /\ Len(Tail(Append(log, f))) = Len(log)
    BY <1>1, <1>2, <2>1
  <2> QED
    BY <1>1, <1>3, <2>2 DEF Logged
<1>4. CASE ~(Len(Append(log, f)) > Window)
  BY <1>1, <1>2, <1>4 DEF Logged
<1> QED
  BY <1>3, <1>4

\* Recording a frame keeps the types of rings and log.
LEMMA RecordFrameType ==
  ASSUME ProbeTypeOK, RecordFrame
  PROVE /\ rings' \in [Series -> Ring]
        /\ log' \in Seq(Frame) /\ Len(log') <= Window
<1>1. rings \in [Series -> Ring] /\ tally \in [Series -> Nat]
  BY DEF ProbeTypeOK
<1>2. \A s \in Series : Push(rings[s], tally[s]) \in Ring
  BY <1>1, PushRing
<1>3. rings' \in [Series -> Ring]
  BY <1>1, <1>2 DEF RecordFrame
<1>4. log' \in Seq(Frame) /\ Len(log') <= Window
  BY ThisFrameType, LoggedType DEF RecordFrame, ProbeTypeOK
<1> QED
  BY <1>3, <1>4

\* No line is due before PostFrames frames, and none is pending after.
PendingCounts == pending => framesAfter < PostFrames

\* The probe starts well typed, with no dump pending.
LEMMA InitType == ProbeInit => ProbeTypeOK /\ PendingCounts
<1> SUFFICES ASSUME ProbeInit PROVE ProbeTypeOK /\ PendingCounts
  OBVIOUS
<1>1. Window \in Nat \ {0} /\ PostFrames \in 1..Window
  BY ProbeConstants
<1>2. EmptyRing \in Ring
  BY <1>1 DEF EmptyRing, Ring, Slot
<1>3. rings \in [Series -> Ring] /\ tally \in [Series -> Nat]
  BY <1>2 DEF ProbeInit, NoTally
<1>4. log \in Seq(Frame) /\ Len(log) <= Window
  BY <1>1 DEF ProbeInit
<1>5. framesAfter \in 0..PostFrames
  BY <1>1 DEF ProbeInit
<1> QED
  BY <1>3, <1>4, <1>5 DEF ProbeInit, ProbeTypeOK, PendingCounts

\* Every step keeps the types, and no pending dump is overdue.
LEMMA NextType ==
  ASSUME ProbeTypeOK, PendingCounts, [ProbeNext]_probeVars
  PROVE ProbeTypeOK' /\ PendingCounts'
<1>0. Window \in Nat \ {0} /\ PostFrames \in 1..Window
  BY ProbeConstants
<1>1. CASE Tick
  <2>1. tally' \in [Series -> Nat]
    BY <1>1 DEF Tick, ProbeTypeOK, Series
  <2> QED
    BY <1>1, <2>1 DEF Tick, ProbeTypeOK, PendingCounts, historyVars
<1>2. ASSUME NEW d \in Costs, UpdateImpl(d) PROVE ProbeTypeOK' /\ PendingCounts'
  <2>0. d \in Nat
    BY ProbeConstants
  <2>1. tally' \in [Series -> Nat]
    BY <1>2, <2>0 DEF UpdateImpl, ProbeTypeOK, Series
  <2> QED
    BY <1>2, <2>1 DEF UpdateImpl, ProbeTypeOK, PendingCounts, historyVars
<1>3. ASSUME NEW d \in Costs, NoteInvalidateListData(d) PROVE ProbeTypeOK' /\ PendingCounts'
  <2>0. d \in Nat
    BY ProbeConstants
  <2>1. tally' \in [Series -> Nat]
    BY <1>3, <2>0 DEF NoteInvalidateListData, ProbeTypeOK, Series
  <2> QED
    BY <1>3, <2>1 DEF NoteInvalidateListData, ProbeTypeOK, PendingCounts, historyVars
<1>4. ASSUME NEW m \in Menus, NoteRefresh(m) PROVE ProbeTypeOK' /\ PendingCounts'
  BY <1>0, <1>4 DEF NoteRefresh, ProbeTypeOK, PendingCounts
<1>5. ASSUME NEW on \in BOOLEAN, SetDebugLogging(on) PROVE ProbeTypeOK' /\ PendingCounts'
  BY <1>5 DEF SetDebugLogging, ProbeTypeOK, PendingCounts, historyVars
<1>6. CASE FrameOff
  <2>1. \A s \in Series : Clear(rings[s]) \in Ring
    BY <1>0 DEF ProbeTypeOK, Clear, Ring, Slot
  <2>2. rings' \in [Series -> Ring] /\ tally' \in [Series -> Nat]
    BY <1>6, <2>1 DEF FrameOff, NoTally
  <2>3. log' \in Seq(Frame) /\ Len(log') <= Window
    BY <1>0, <1>6 DEF FrameOff
  <2>4. 0 \in 0..PostFrames
    BY <1>0
  <2> QED
    BY <1>6, <2>2, <2>3, <2>4 DEF FrameOff, ProbeTypeOK, PendingCounts
<1>7. CASE FrameOn
  <2>1. rings' \in [Series -> Ring] /\ log' \in Seq(Frame) /\ Len(log') <= Window
    BY <1>7, RecordFrameType DEF FrameOn
  <2>2. tally' \in [Series -> Nat]
    BY <1>7 DEF FrameOn, NoTally
  <2>3. framesAfter' \in 0..PostFrames /\ (pending' => framesAfter' < PostFrames)
    BY <1>0, <1>7 DEF FrameOn, CountFrame, ProbeTypeOK, PendingCounts
  <2> QED
    BY <1>7, <2>1, <2>2, <2>3 DEF FrameOn, ProbeTypeOK, PendingCounts
<1>8. CASE FrameDump
  <2>1. rings' \in [Series -> Ring] /\ log' \in Seq(Frame) /\ Len(log') <= Window
    BY <1>8, RecordFrameType DEF FrameDump
  <2>2. tally' \in [Series -> Nat]
    BY <1>8 DEF FrameDump, NoTally
  <2>3. framesAfter' \in 0..PostFrames
    BY <1>0, <1>8 DEF FrameDump, CountFrame, ProbeTypeOK, PendingCounts
  <2> QED
    BY <1>8, <2>1, <2>2, <2>3 DEF FrameDump, ProbeTypeOK, PendingCounts
<1>9. CASE UNCHANGED probeVars
  BY <1>9 DEF probeVars, ProbeTypeOK, PendingCounts
<1> QED
  BY <1>1, <1>2, <1>3, <1>4, <1>5, <1>6, <1>7, <1>8, <1>9 DEF ProbeNext, OnFrame

\* The probe's state has its types: no ring leaves its buffer, and a pending
\* refresh never misses the frame its line is due at.
THEOREM TypeCorrect == ProbeSpec => [](ProbeTypeOK /\ PendingCounts)
<1>1. ProbeTypeOK /\ PendingCounts /\ [ProbeNext]_probeVars => (ProbeTypeOK /\ PendingCounts)'
  BY NextType
<1> QED
  BY InitType, <1>1, PTL DEF ProbeSpec

-----------------------------------------------------------------------------
(* The rings hold the last frames *)

\* The end of a timed frame goes into every ring alike, that of an untimed one
\* into none.
LEMMA RecordFrameRings ==
  ASSUME ProbeTypeOK, RingsHoldTheLastFrames, RecordFrame
  PROVE RingsHoldTheLastFrames'
<1>1. CASE ~timing
  BY <1>1 DEF RecordFrame, RingsHoldTheLastFrames, ProbeTypeOK
<1>2. CASE timing
  <2> SUFFICES ASSUME NEW s \in Series
               PROVE Snapshot(rings'[s]) = [i \in 1..Len(log') |-> log'[i][s]]
    BY DEF RingsHoldTheLastFrames
  <2> DEFINE r == rings[s]
             x == tally[s]
             old == Snapshot(r)
             longer == Append(log, ThisFrame)
  <2>1. /\ Window \in Nat \ {0} /\ r \in Ring /\ x \in Nat
        /\ log \in Seq(Frame) /\ Len(log) <= Window
    BY ProbeConstants DEF ProbeTypeOK
  <2>2. ThisFrame \in Frame /\ ThisFrame[s] = x
    BY ThisFrameType
  <2>3. old \in Seq(Nat) /\ Len(old) = r.count /\ r.count \in 0..Window
    BY <2>1, SnapshotOf, RingFields
  <2>4. old = [i \in 1..Len(log) |-> log[i][s]]
    BY DEF RingsHoldTheLastFrames
  <2>5. Len(log) = r.count /\ \A i \in 1..Len(log) : old[i] = log[i][s]
    <3>1. DOMAIN old = 1..Len(old) /\ DOMAIN old = 1..Len(log)
      BY <2>3, <2>4
    <3>2. Len(old) = Len(log)
      BY <2>1, <2>3, <3>1
    <3> QED
      BY <2>3, <2>4, <3>2
  <2>6. rings'[s] = Push(r, x) /\ log' = Logged(ThisFrame)
    BY <1>2 DEF RecordFrame
  <2>7. Snapshot(rings'[s]) = IF r.count < Window THEN Append(old, x)
                              ELSE Tail(Append(old, x))
    BY <2>1, <2>6, PushAppends
  <2> HIDE DEF old, r, x
  <2>8. /\ longer \in Seq(Frame) /\ Len(longer) = Len(log) + 1
        /\ longer[Len(log) + 1] = ThisFrame
        /\ \A i \in 1..Len(log) : longer[i] = log[i]
    BY <2>1, <2>2
  <2>9. /\ Append(old, x) \in Seq(Nat) /\ Len(Append(old, x)) = Len(log) + 1
        /\ Append(old, x)[Len(log) + 1] = x
        /\ \A i \in 1..Len(log) : Append(old, x)[i] = old[i]
    BY <2>1, <2>3, <2>5
  <2>10. \A i \in 1..Len(log) + 1 : Append(old, x)[i] = longer[i][s]
    <3> TAKE i \in 1..Len(log) + 1
    <3>1. i \in 1..Len(log) \/ i = Len(log) + 1
      BY <2>1
    <3> QED
      BY <2>2, <2>5, <2>8, <2>9, <3>1
  <2> HIDE DEF longer
  <2>11. CASE r.count < Window
    <3>1. log' = longer
      <4>1. ~(Len(longer) > Window)
        BY <2>1, <2>3, <2>5, <2>8, <2>11
      <4> QED
        BY <2>6, <4>1 DEF Logged, longer
    <3>2. Append(old, x) = [i \in 1..Len(longer) |-> longer[i][s]]
      <4> DEFINE f == [i \in 1..Len(longer) |-> longer[i][s]]
      <4>1. /\ DOMAIN f = 1..Len(Append(old, x))
            /\ \A i \in 1..Len(Append(old, x)) : Append(old, x)[i] = f[i]
            /\ f = [i \in DOMAIN f |-> f[i]]
        BY <2>8, <2>9, <2>10
      <4> HIDE DEF f
      <4>2. Append(old, x) = f
        BY <2>9, <4>1, SeqIsFunction
      <4> QED
        BY <4>2 DEF f
    <3> QED
      BY <2>7, <2>11, <3>1, <3>2
  <2>12. CASE ~(r.count < Window)
    <3>0. Len(log) = Window
      BY <2>1, <2>3, <2>5, <2>12
    <3>1. log' = Tail(longer)
      BY <2>1, <2>6, <2>8, <3>0 DEF Logged, longer
    <3>2. /\ Tail(longer) \in Seq(Frame) /\ Len(Tail(longer)) = Window
          /\ \A i \in 1..Window : Tail(longer)[i] = longer[i + 1]
      BY <2>1, <2>8, <3>0
    <3>3. /\ Tail(Append(old, x)) \in Seq(Nat) /\ Len(Tail(Append(old, x))) = Window
          /\ \A i \in 1..Window : Tail(Append(old, x))[i] = Append(old, x)[i + 1]
      BY <2>1, <2>9, <3>0
    <3>4. \A i \in 1..Window : Tail(Append(old, x))[i] = Tail(longer)[i][s]
      <4> TAKE i \in 1..Window
      <4>1. i + 1 \in 1..Len(log) + 1
        BY <2>1, <3>0
      <4> QED
        BY <2>10, <3>2, <3>3, <4>1
    <3>5. Tail(Append(old, x)) = [i \in 1..Len(Tail(longer)) |-> Tail(longer)[i][s]]
      <4> DEFINE f == [i \in 1..Len(Tail(longer)) |-> Tail(longer)[i][s]]
                 a == Tail(Append(old, x))
      <4>1. /\ DOMAIN f = 1..Len(a)
            /\ \A i \in 1..Len(a) : a[i] = f[i]
            /\ f = [i \in DOMAIN f |-> f[i]]
            /\ a \in Seq(Nat)
        BY <3>2, <3>3, <3>4
      <4> HIDE DEF f, a
      <4>2. a = f
        BY <4>1, SeqIsFunction
      <4> QED
        BY <4>2 DEF f, a
    <3> QED
      BY <2>7, <2>12, <3>1, <3>5
  <2> QED
    BY <2>11, <2>12
<1> QED
  BY <1>1, <1>2

\* Only OnFrame touches the rings, and it keeps them aligned.
LEMMA NextRings ==
  ASSUME ProbeTypeOK, RingsHoldTheLastFrames, [ProbeNext]_probeVars
  PROVE RingsHoldTheLastFrames'
<1>1. CASE UNCHANGED <<rings, log>>
  BY <1>1 DEF RingsHoldTheLastFrames
<1>2. CASE FrameOff
  <2>1. log' = <<>> /\ Len(<<>>) = 0
    BY <1>2 DEF FrameOff
  <2> SUFFICES ASSUME NEW s \in Series
               PROVE Snapshot(rings'[s]) = [i \in 1..Len(log') |-> log'[i][s]]
    BY DEF RingsHoldTheLastFrames
  <2>2. rings'[s] = Clear(rings[s]) /\ rings[s] \in Ring
    BY <1>2 DEF FrameOff, ProbeTypeOK
  <2>3. rings'[s].count = 0
    BY <2>2 DEF Clear, Ring
  <2>4. Snapshot(rings'[s]) = [i \in 1..0 |-> rings'[s].buf[Place(rings'[s], i)]]
    BY <2>3 DEF Snapshot, Place
  <2> QED
    BY <2>1, <2>4
<1>3. CASE FrameOn
  BY <1>3, RecordFrameRings DEF FrameOn
<1>4. CASE FrameDump
  BY <1>4, RecordFrameRings DEF FrameDump
<1>5. CASE Tick
  BY <1>1, <1>5 DEF Tick, historyVars
<1>6. CASE \E d \in Costs : UpdateImpl(d) \/ NoteInvalidateListData(d)
  BY <1>1, <1>6 DEF UpdateImpl, NoteInvalidateListData, historyVars
<1>7. CASE \E m \in Menus : NoteRefresh(m)
  BY <1>1, <1>7 DEF NoteRefresh
<1>8. CASE \E on \in BOOLEAN : SetDebugLogging(on)
  BY <1>1, <1>8 DEF SetDebugLogging, historyVars
<1>9. CASE UNCHANGED probeVars
  BY <1>1, <1>9 DEF probeVars
<1> QED
  BY <1>2, <1>3, <1>4, <1>5, <1>6, <1>7, <1>8, <1>9 DEF ProbeNext, OnFrame

\* Whatever the size of the window, the four rings of the frame probe hold,
\* oldest first, exactly the last frames timed since debug logging came on.
THEOREM RingsAligned == ProbeSpec => []RingsHoldTheLastFrames
<1>1. ProbeInit => RingsHoldTheLastFrames
  <2> SUFFICES ASSUME ProbeInit, NEW s \in Series
               PROVE Snapshot(rings[s]) = [i \in 1..Len(log) |-> log[i][s]]
    BY DEF RingsHoldTheLastFrames
  <2>1. rings[s].count = 0 /\ Len(log) = 0
    BY DEF ProbeInit, EmptyRing
  <2>2. Snapshot(rings[s]) = [i \in 1..0 |-> rings[s].buf[Place(rings[s], i)]]
    BY <2>1 DEF Snapshot, Place
  <2> QED
    BY <2>1, <2>2
<1>2. ProbeTypeOK /\ RingsHoldTheLastFrames /\ [ProbeNext]_probeVars => RingsHoldTheLastFrames'
  BY NextRings
<1> QED
  BY <1>1, <1>2, TypeCorrect, PTL DEF ProbeSpec

-----------------------------------------------------------------------------
(* A line covers its refresh *)

\* The frame of the refresh of menu m is the k-th from the end of the frames
\* (or was the untimed first one), and no later frame refreshed a list.
Behind(frames, k, m) ==
  LET n == Len(frames) IN
  /\ n >= k - 1
  /\ \A i \in n - k + 2..n : frames[i].menu = Nil
  /\ n >= k => frames[n - k + 1].menu = m

\* A refresh of this frame is the one pending, with no frame counted; once a
\* frame ended, the frames counted are those since the refresh.
RefreshInv ==
  /\ refreshed # Nil => pending /\ framesAfter = 0 /\ menu = refreshed
  /\ pending /\ refreshed = Nil => framesAfter >= 1
  /\ pending /\ framesAfter >= 1 => timing /\ Behind(log, framesAfter, menu)
  /\ ~timing => log = <<>>

\* What a timed frame does to the frames of the window.
LEMMA LogGrows ==
  ASSUME ProbeTypeOK, RecordFrame, timing
  PROVE /\ log' \in Seq(Frame)
        /\ Len(log') \in 1..Window
        /\ log'[Len(log')] = ThisFrame
        /\ \/ /\ Len(log') = Len(log) + 1
              /\ \A i \in 1..Len(log) : log'[i] = log[i]
           \/ /\ Len(log) = Window /\ Len(log') = Window
              /\ \A i \in 1..Window - 1 : log'[i] = log[i + 1]
<1> DEFINE longer == Append(log, ThisFrame)
<1>1. Window \in Nat \ {0} /\ log \in Seq(Frame) /\ Len(log) <= Window
  BY ProbeConstants DEF ProbeTypeOK
<1>2. ThisFrame \in Frame
  BY ThisFrameType
<1>3. log' = Logged(ThisFrame)
  BY DEF RecordFrame
<1>4. /\ longer \in Seq(Frame) /\ Len(longer) = Len(log) + 1
      /\ longer[Len(log) + 1] = ThisFrame
      /\ \A i \in 1..Len(log) : longer[i] = log[i]
  BY <1>1, <1>2
<1> HIDE DEF longer
<1>5. CASE Len(log) < Window
  <2>1. log' = longer
    BY <1>1, <1>3, <1>4, <1>5 DEF Logged, longer
  <2> QED
    BY <1>1, <1>4, <1>5, <2>1
<1>6. CASE Len(log) = Window
  <2>1. log' = Tail(longer)
    BY <1>1, <1>3, <1>4, <1>6 DEF Logged, longer
  <2>2. /\ Tail(longer) \in Seq(Frame) /\ Len(Tail(longer)) = Window
        /\ \A i \in 1..Window : Tail(longer)[i] = longer[i + 1]
    BY <1>1, <1>4, <1>6
  <2>3. Tail(longer)[Window] = ThisFrame
    BY <1>1, <1>4, <1>6, <2>2
  <2>4. \A i \in 1..Window - 1 : Tail(longer)[i] = log[i + 1]
    BY <1>1, <1>4, <1>6, <2>2
  <2> QED
    BY <1>1, <1>6, <2>1, <2>2, <2>3, <2>4
<1> QED
  BY <1>1, <1>5, <1>6

\* The frame of the refresh itself ends.
LEMMA BehindStarts ==
  ASSUME ProbeTypeOK, RecordFrame, timing \/ log = <<>>
  PROVE Behind(log', 1, refreshed)
<1>1. CASE timing
  <2>1. log'[Len(log')].menu = refreshed
    BY <1>1, LogGrows DEF ThisFrame
  <2>2. Len(log') \in 1..Window /\ Window \in Nat
    BY <1>1, LogGrows, ProbeConstants
  <2> QED
    BY <2>1, <2>2 DEF Behind
<1>2. CASE ~timing
  <2>1. log' = <<>> /\ Len(<<>>) = 0
    BY <1>2 DEF RecordFrame
  <2> QED
    BY <2>1 DEF Behind
<1> QED
  BY <1>1, <1>2

\* A later frame ends, without a refresh.
LEMMA BehindGrows ==
  ASSUME ProbeTypeOK, RecordFrame, timing, refreshed = Nil,
         NEW k \in 1..PostFrames - 1, NEW m, Behind(log, k, m)
  PROVE Behind(log', k + 1, m)
<1> DEFINE n == Len(log)
           p == Len(log')
<1>1. Window \in Nat \ {0} /\ PostFrames \in 1..Window /\ n \in 0..Window /\ p \in 1..Window
  BY LogGrows, ProbeConstants DEF ProbeTypeOK
<1>2. log'[p].menu = Nil
  BY LogGrows DEF ThisFrame
<1>3. /\ n >= k - 1
      /\ \A i \in n - k + 2..n : log[i].menu = Nil
      /\ n >= k => log[n - k + 1].menu = m
  BY DEF Behind
<1>4. CASE p = n + 1 /\ \A i \in 1..n : log'[i] = log[i]
  <2>1. p >= (k + 1) - 1
    BY <1>1, <1>3, <1>4
  <2>2. ASSUME NEW i \in p - (k + 1) + 2..p PROVE log'[i].menu = Nil
    <3>1. i = p \/ (i \in n - k + 2..n /\ i \in 1..n)
      BY <1>1, <1>3, <1>4
    <3> QED
      BY <1>2, <1>3, <1>4, <3>1
  <2>3. ASSUME p >= k + 1 PROVE log'[p - (k + 1) + 1].menu = m
    <3>1. n >= k /\ p - (k + 1) + 1 = n - k + 1 /\ n - k + 1 \in 1..n
      BY <1>1, <1>4, <2>3
    <3> QED
      BY <1>3, <1>4, <3>1
  <2> QED
    BY <2>1, <2>2, <2>3 DEF Behind
<1>5. CASE n = Window /\ p = Window /\ \A i \in 1..Window - 1 : log'[i] = log[i + 1]
  <2>1. p >= (k + 1) - 1
    BY <1>1, <1>5
  <2>2. ASSUME NEW i \in p - (k + 1) + 2..p PROVE log'[i].menu = Nil
    <3>1. i = p \/ (i + 1 \in n - k + 2..n /\ i \in 1..Window - 1)
      BY <1>1, <1>5
    <3> QED
      BY <1>2, <1>3, <1>5, <3>1
  <2>3. log'[p - (k + 1) + 1].menu = m
    <3>1. /\ n >= k /\ p - (k + 1) + 1 = n - k /\ n - k \in 1..Window - 1
          /\ (n - k) + 1 = n - k + 1
      BY <1>1, <1>5
    <3> QED
      BY <1>3, <1>5, <3>1
  <2> QED
    BY <2>1, <2>2, <2>3 DEF Behind
<1> HIDE DEF n, p
<1>6. \/ p = n + 1 /\ \A i \in 1..n : log'[i] = log[i]
      \/ n = Window /\ p = Window /\ \A i \in 1..Window - 1 : log'[i] = log[i + 1]
  BY LogGrows DEF n, p
<1> QED
  BY <1>4, <1>5, <1>6

\* A frame of a pending refresh ends.
LEMMA CountedFrame ==
  ASSUME ProbeTypeOK, PendingCounts, RefreshInv, RecordFrame, CountFrame
  PROVE framesAfter' >= 1 /\ Behind(log', framesAfter', menu)
<1>1. framesAfter \in 0..PostFrames /\ framesAfter < PostFrames /\ PostFrames \in Nat
      /\ pending /\ framesAfter' = framesAfter + 1
  BY ProbeConstants DEF ProbeTypeOK, PendingCounts, CountFrame
<1>2. CASE framesAfter = 0
  <2>1. refreshed # Nil /\ menu = refreshed
    BY <1>1, <1>2 DEF RefreshInv
  <2>2. timing \/ log = <<>>
    BY DEF RefreshInv
  <2>3. Behind(log', 1, refreshed)
    BY <2>2, BehindStarts
  <2> QED
    BY <1>1, <1>2, <2>1, <2>3
<1>3. CASE framesAfter >= 1
  <2>1. timing /\ Behind(log, framesAfter, menu)
    BY <1>1, <1>3 DEF RefreshInv
  <2>2. refreshed = Nil
    BY <1>1, <1>3 DEF RefreshInv
  <2>3. framesAfter \in 1..PostFrames - 1
    BY <1>1, <1>3
  <2>4. Behind(log', framesAfter + 1, menu)
    BY <2>1, <2>2, <2>3, BehindGrows
  <2> QED
    BY <1>1, <2>4
<1> QED
  BY <1>1, <1>2, <1>3

\* Every step keeps the frames counted those since the pending refresh.
LEMMA RefreshStep ==
  ASSUME ProbeTypeOK, PendingCounts, RefreshInv, [ProbeNext]_probeVars
  PROVE RefreshInv'
<1>0. Nil \notin Menus
  BY ProbeConstants
<1>1. CASE UNCHANGED <<timing, pending, framesAfter, menu, refreshed, log>>
  BY <1>1 DEF RefreshInv
<1>2. CASE \E m \in Menus : NoteRefresh(m)
  <2> PICK m \in Menus : NoteRefresh(m)
    BY <1>2
  <2>1. pending' /\ framesAfter' = 0 /\ menu' = m /\ refreshed' = m
        /\ timing' = timing /\ log' = log
    BY DEF NoteRefresh
  <2> QED
    BY <1>0, <2>1 DEF RefreshInv
<1>3. CASE FrameOff
  BY <1>3 DEF FrameOff, RefreshInv
<1>4. CASE FrameOn
  <2>1. RecordFrame /\ timing' /\ refreshed' = Nil /\ pending' = pending /\ menu' = menu
    BY <1>4 DEF FrameOn
  <2>2. CASE pending
    <3>1. CountFrame
      BY <1>4, <2>2 DEF FrameOn
    <3>2. framesAfter' >= 1 /\ Behind(log', framesAfter', menu')
      BY <2>1, <3>1, CountedFrame
    <3> QED
      BY <2>1, <3>2 DEF RefreshInv
  <2>3. CASE ~pending
    BY <2>1, <2>3 DEF RefreshInv
  <2> QED
    BY <2>2, <2>3
<1>5. CASE FrameDump
  BY <1>5 DEF FrameDump, RefreshInv
<1>6. CASE Tick
  BY <1>1, <1>6 DEF Tick, historyVars
<1>7. CASE \E d \in Costs : UpdateImpl(d) \/ NoteInvalidateListData(d)
  BY <1>1, <1>7 DEF UpdateImpl, NoteInvalidateListData, historyVars
<1>8. CASE \E on \in BOOLEAN : SetDebugLogging(on)
  BY <1>1, <1>8 DEF SetDebugLogging, historyVars
<1>9. CASE UNCHANGED probeVars
  BY <1>1, <1>9 DEF probeVars
<1> QED
  BY <1>2, <1>3, <1>4, <1>5, <1>6, <1>7, <1>8, <1>9 DEF ProbeNext, OnFrame

\* Only OnFrame logs a line.
LEMMA OnlyDumpPrints ==
  ASSUME [ProbeNext]_probeVars
  PROVE printed' = Nil \/ FrameDump \/ UNCHANGED probeVars
<1>1. CASE Tick \/ FrameOff \/ FrameOn
  BY <1>1 DEF Tick, FrameOff, FrameOn
<1>2. CASE \E d \in Costs : UpdateImpl(d) \/ NoteInvalidateListData(d)
  BY <1>2 DEF UpdateImpl, NoteInvalidateListData
<1>3. CASE \E m \in Menus : NoteRefresh(m)
  BY <1>3 DEF NoteRefresh
<1>4. CASE \E on \in BOOLEAN : SetDebugLogging(on)
  BY <1>4 DEF SetDebugLogging
<1> QED
  BY <1>1, <1>2, <1>3, <1>4 DEF ProbeNext, OnFrame

\* The line of a refresh is logged when its frame is where the line has it.
LEMMA DumpStep ==
  ASSUME ProbeTypeOK, PendingCounts, RefreshInv, DumpCoversRefresh, [ProbeNext]_probeVars
  PROVE DumpCoversRefresh'
<1>1. CASE printed' = Nil
  BY <1>1 DEF DumpCoversRefresh
<1>2. CASE FrameDump
  <2>1. RecordFrame /\ CountFrame /\ framesAfter' >= PostFrames
    BY <1>2 DEF FrameDump
  <2>2. Behind(log', framesAfter', menu)
    BY <2>1, CountedFrame
  <2>3. framesAfter' = PostFrames
    BY <2>1, ProbeConstants DEF ProbeTypeOK, PendingCounts, CountFrame
  <2>4. printed'.menu = menu
    BY <1>2 DEF FrameDump, Report
  <2> QED
    BY <2>2, <2>3, <2>4 DEF Behind, DumpCoversRefresh
<1>3. CASE UNCHANGED probeVars
  BY <1>3 DEF probeVars, DumpCoversRefresh
<1> QED
  BY <1>1, <1>2, <1>3, OnlyDumpPrints

\* Every line the probe logs shows the frame of the latest refresh at its
\* place, and no refresh after it: whatever the window, however many
\* refreshes follow each other, and however debug logging is switched.
THEOREM LinesCoverTheirRefresh == ProbeSpec => []DumpCoversRefresh
<1>1. ProbeInit => RefreshInv /\ DumpCoversRefresh
  BY DEF ProbeInit, RefreshInv, DumpCoversRefresh
<1>2. ProbeTypeOK /\ PendingCounts /\ RefreshInv /\ DumpCoversRefresh /\ [ProbeNext]_probeVars
        => (RefreshInv /\ DumpCoversRefresh)'
  BY RefreshStep, DumpStep
<1> QED
  BY <1>1, <1>2, TypeCorrect, PTL DEF ProbeSpec

-----------------------------------------------------------------------------
(* A line is true *)

\* The least of some numbers.
LEMMA LeastNumber ==
  ASSUME NEW S \in SUBSET Nat, S # {}
  PROVE \E n \in S : \A m \in S : n <= m
<1>1. IsWellFoundedOn(OpToRel(<, Nat), Nat)
  BY NatLessThanWellFounded, Zenon
<1>2. PICK n \in S : \A m \in S : <<m, n>> \notin OpToRel(<, Nat)
  BY <1>1, WFMin, Zenon
<1>3. \A m \in S : ~(m < n)
  BY <1>2 DEF OpToRel
<1> QED
  BY <1>3

\* One of finitely many positions has the greatest value.
LEMMA GreatestValue ==
  ASSUME NEW at, IsFiniteSet(at), at # {}, NEW f, \A i \in at : f[i] \in Nat
  PROVE \E p \in at : \A i \in at : f[i] <= f[p]
<1> DEFINE Above(i) == {j \in at : f[i] < f[j]}
           Aboves == {Above(i) : i \in at}
<1>1. IsWellFoundedOn(StrictSubsetOrdering(at), SUBSET at)
  BY FS_StrictSubsetOrderingWellFounded, FS_FiniteSubsetsOfFinite
<1>2. Aboves \subseteq SUBSET at /\ Aboves # {}
  OBVIOUS
<1> HIDE DEF Aboves
<1>3. PICK A \in Aboves : \A B \in Aboves : <<B, A>> \notin StrictSubsetOrdering(at)
  BY <1>1, <1>2, WFMin
<1>4. PICK p \in at : A = Above(p)
  BY DEF Aboves
<1>5. ASSUME NEW i \in at, f[p] < f[i] PROVE FALSE
  <2>1. Above(i) \in Aboves
    BY DEF Aboves
  <2>2. Above(i) \subseteq Above(p) /\ i \in Above(p) /\ i \notin Above(i)
    BY <1>5
  <2> HIDE DEF Above
  <2>3. Above(i) \in SUBSET at /\ Above(p) \in SUBSET at /\ Above(i) # Above(p)
    BY <1>2, <1>4, <2>1, <2>2
  <2>4. <<Above(i), Above(p)>> \in StrictSubsetOrdering(at)
    BY <2>2, <2>3 DEF StrictSubsetOrdering
  <2> QED
    BY <1>3, <1>4, <2>1, <2>4
<1> QED
  BY <1>5

\* The peak is one of the frames, and none is longer.
LEMMA PeakIsLongest ==
  ASSUME NEW n \in Nat \ {0}, NEW f \in [1..n -> Nat]
  PROVE PeakIndex(f) \in 1..n /\ \A i \in 1..n : f[i] <= f[PeakIndex(f)]
<1> DEFINE S == {i \in DOMAIN f : \A j \in DOMAIN f : f[j] <= f[i]}
<1>1. IsFiniteSet(1..n) /\ 1..n # {} /\ DOMAIN f = 1..n
  <2>1. 1 \in Int /\ n \in Int /\ 1..n # {} /\ DOMAIN f = 1..n
    OBVIOUS
  <2> QED
    BY <2>1, FS_Interval, Zenon
<1>2. \A i \in 1..n : f[i] \in Nat
  OBVIOUS
<1>3. \E p \in 1..n : \A i \in 1..n : f[i] <= f[p]
  BY <1>1, <1>2, GreatestValue
<1>4. S \in SUBSET Nat /\ S # {}
  BY <1>1, <1>3
<1> HIDE DEF S
<1>5. \E i \in S : \A j \in S : i <= j
  BY <1>4, LeastNumber
<1>6. Min(S) \in S
  BY <1>5 DEF Min
<1> QED
  BY <1>1, <1>6 DEF PeakIndex, S

\* The positions of the values less than v, and of those no greater.
Below(f, at, v) == {i \in at : f[i] < v}
UpTo(f, at, v) == {i \in at : f[i] <= v}

\* The k-th smallest value has at most k smaller ones, and more than k that
\* are no greater.
LEMMA RankedSplits ==
  ASSUME NEW at, IsFiniteSet(at), NEW f, \A i \in at : f[i] \in Nat,
         NEW k \in Nat, k < Cardinality(at), NEW u, u = Ranked(f, at, k)
  PROVE /\ u \in Nat
        /\ Cardinality(Below(f, at, u)) <= k
        /\ k < Cardinality(UpTo(f, at, u))
<1> DEFINE Values == {f[i] : i \in at}
           Enough == {v \in Values : k < Cardinality(UpTo(f, at, v))}
<1>0. \A v : /\ IsFiniteSet(Below(f, at, v)) /\ Cardinality(Below(f, at, v)) \in Nat
             /\ IsFiniteSet(UpTo(f, at, v)) /\ Cardinality(UpTo(f, at, v)) \in Nat
  <2> TAKE v
  <2>1. Below(f, at, v) \in SUBSET at /\ UpTo(f, at, v) \in SUBSET at
    BY DEF Below, UpTo
  <2> QED
    BY <2>1, FS_Subset, FS_CardinalityType
<1>1. at # {}
  BY FS_EmptySet
<1>2. PICK p \in at : \A i \in at : f[i] <= f[p]
  BY <1>1, GreatestValue
<1>3. f[p] \in Enough
  <2>1. UpTo(f, at, f[p]) = at
    BY <1>2 DEF UpTo
  <2> QED
    BY <2>1
<1>4. Enough \in SUBSET Nat /\ Enough # {}
  BY <1>3
<1> HIDE DEF Enough
<1>5. PICK v \in Enough : \A w \in Enough : v <= w
  BY <1>4, LeastNumber
<1>6. v \in Values /\ v \in Nat /\ k < Cardinality(UpTo(f, at, v))
  BY <1>4, <1>5 DEF Enough
<1>7. Cardinality(Below(f, at, v)) <= k
  <2>1. CASE Below(f, at, v) = {}
    BY <2>1, FS_EmptySet
  <2>2. CASE Below(f, at, v) # {}
    <3>1. PICK q \in Below(f, at, v) : \A i \in Below(f, at, v) : f[i] <= f[q]
      <4>1. \A i \in Below(f, at, v) : f[i] \in Nat
        BY DEF Below
      <4> QED
        BY <1>0, <2>2, <4>1, GreatestValue
    <3>2. UpTo(f, at, f[q]) = Below(f, at, v)
      <4>1. q \in at /\ f[q] < v /\ f[q] \in Nat
        BY DEF Below
      <4> QED
        BY <1>6, <3>1, <4>1 DEF Below, UpTo
    <3>3. f[q] \in Values /\ f[q] < v /\ f[q] \in Nat
      BY DEF Below
    <3>4. f[q] \notin Enough
      BY <1>5, <1>6, <3>3
    <3>5. ~(k < Cardinality(UpTo(f, at, f[q])))
      BY <3>3, <3>4 DEF Enough
    <3>6. ~(k < Cardinality(Below(f, at, v)))
      BY <3>2, <3>5
    <3> QED
      BY <1>0, <3>6
  <2> QED
    BY <2>1, <2>2
<1>8. \E w \in Values : Cardinality(Below(f, at, w)) <= k /\ k < Cardinality(UpTo(f, at, w))
  BY <1>6, <1>7
<1>9. u \in Values /\ Cardinality(Below(f, at, u)) <= k /\ k < Cardinality(UpTo(f, at, u))
  BY <1>8 DEF Ranked, Below, UpTo
<1>10. Values \subseteq Nat
  OBVIOUS
<1> QED
  BY <1>9, <1>10

\* The baseline: at least half of the other frames are no longer than it, and
\* at least half are no shorter.
LEMMA BaselineIsMedian ==
  ASSUME NEW n \in Nat \ {0}, NEW f \in [1..n -> Nat]
  PROVE LET rest == (1..n) \ {PeakIndex(f)} IN
        /\ TwiceBaseline(f) \in Nat
        /\ rest = {} => TwiceBaseline(f) = 0
        /\ rest # {} =>
             /\ 2 * Cardinality({i \in rest : 2 * f[i] <= TwiceBaseline(f)}) >= n - 1
             /\ 2 * Cardinality({i \in rest : 2 * f[i] >= TwiceBaseline(f)}) >= n - 1
<1> DEFINE rest == (1..n) \ {PeakIndex(f)}
           b == TwiceBaseline(f)
           low(v) == Below(f, rest, v)
           upTo(v) == UpTo(f, rest, v)
           from(v) == {i \in rest : f[i] >= v}
           short == {i \in rest : 2 * f[i] <= b}
           long == {i \in rest : 2 * f[i] >= b}
<1>1. IsFiniteSet(rest) /\ Cardinality(rest) = n - 1 /\ DOMAIN f = 1..n
  <2>1. 1 \in Int /\ n \in Int /\ ~(1 > n) /\ n - 1 + 1 = n
    OBVIOUS
  <2>2. IsFiniteSet(1..n) /\ Cardinality(1..n) = n
    BY <2>1, FS_Interval, Zenon
  <2>3. PeakIndex(f) \in 1..n
    BY PeakIsLongest
  <2>4. IsFiniteSet(rest) /\ Cardinality(rest) = n - 1
    BY <2>2, <2>3, FS_RemoveElement
  <2> QED
    BY <2>4
<1>2. \A i \in rest : f[i] \in Nat
  OBVIOUS
<1>3. ASSUME NEW T, T \subseteq rest
      PROVE IsFiniteSet(T) /\ Cardinality(T) \in Nat
  BY <1>1, <1>3, FS_Subset, FS_CardinalityType
<1>4. ASSUME NEW T, NEW U, T \subseteq U, U \subseteq rest
      PROVE Cardinality(T) <= Cardinality(U)
  BY <1>3, <1>4, FS_Subset
<1>5. ASSUME NEW v \in Nat
      PROVE Cardinality(low(v)) + Cardinality(from(v)) = n - 1
  <2>1. low(v) \cap from(v) = {} /\ low(v) \cup from(v) = rest
    BY <1>2 DEF Below
  <2>2. low(v) \subseteq rest /\ from(v) \subseteq rest
    BY DEF Below
  <2> HIDE DEF low, from, rest
  <2>3. /\ IsFiniteSet(low(v)) /\ IsFiniteSet(from(v))
        /\ Cardinality(low(v)) \in Nat /\ Cardinality(from(v)) \in Nat
    BY <1>3, <2>2
  <2>4. Cardinality(rest) = Cardinality(low(v)) + Cardinality(from(v)) - Cardinality({})
    BY <2>1, <2>3, FS_Union
  <2>5. Cardinality({}) = 0
    BY FS_EmptySet
  <2> QED
    BY <1>1, <2>3, <2>4, <2>5
<1>6. ASSUME NEW k \in Nat, k < n - 1, NEW u, u = Ranked(f, rest, k)
      PROVE u \in Nat /\ Cardinality(low(u)) <= k /\ k < Cardinality(upTo(u))
  <2> HIDE DEF rest
  <2>1. k < Cardinality(rest)
    BY <1>1, <1>6
  <2> QED
    BY <1>1, <1>2, <1>6, <2>1, RankedSplits
<1>7. CASE rest = {}
  <2>1. b = 0
    BY <1>1, <1>7 DEF TwiceBaseline
  <2> QED
    BY <1>7, <2>1
<1>8. CASE rest # {}
  <2> DEFINE mid == (n - 1) \div 2
             v == Ranked(f, rest, mid)
             w == Ranked(f, rest, mid - 1)
  <2>0. n - 1 \in Nat \ {0}
    <3> HIDE DEF rest
    <3>1. Cardinality(rest) # 0
      BY <1>1, <1>8, FS_EmptySet
    <3> QED
      BY <1>1, <3>1
  <2>1. mid \in Nat /\ mid < n - 1
        /\ (2 * mid = n - 1 \/ 2 * mid = n - 2)
        /\ ((n - 1) % 2 = 0 => 2 * mid = n - 1 /\ mid >= 1)
        /\ ((n - 1) % 2 # 0 => 2 * mid = n - 2)
    BY <2>0
  <2> HIDE DEF mid
  <2>2. v \in Nat /\ Cardinality(low(v)) <= mid /\ mid < Cardinality(upTo(v))
    BY <1>6, <2>1
  <2>3. b = IF (n - 1) % 2 = 0 THEN w + v ELSE 2 * v
    BY <1>1, <1>8 DEF TwiceBaseline, mid
  <2>4. short \subseteq rest /\ long \subseteq rest /\ low(v) \subseteq rest
        /\ upTo(v) \subseteq rest /\ from(v) \subseteq rest
    BY DEF Below, UpTo
  <2> HIDE DEF b, v, w
  <2>5. CASE (n - 1) % 2 # 0
    <3>1. b = 2 * v /\ 2 * mid = n - 2
      BY <2>1, <2>3, <2>5
    <3>2. upTo(v) \subseteq short /\ from(v) \subseteq long
      BY <1>2, <2>2, <3>1 DEF UpTo
    <3> HIDE DEF short, long, upTo, from, low, rest
    <3>3. /\ Cardinality(upTo(v)) <= Cardinality(short)
          /\ Cardinality(from(v)) <= Cardinality(long)
      BY <1>4, <2>4, <3>2
    <3>4. /\ Cardinality(upTo(v)) \in Nat /\ Cardinality(short) \in Nat
          /\ Cardinality(from(v)) \in Nat /\ Cardinality(long) \in Nat
          /\ Cardinality(low(v)) \in Nat
      BY <1>3, <2>4
    <3>5. Cardinality(low(v)) + Cardinality(from(v)) = n - 1
      BY <1>5, <2>2
    <3>6. 2 * Cardinality(short) >= n - 1 /\ 2 * Cardinality(long) >= n - 1
      BY <2>1, <2>2, <3>1, <3>3, <3>4, <3>5
    <3>7. b \in Nat
      BY <2>2, <3>1
    <3> QED
      BY <1>8, <3>6, <3>7 DEF rest, b, short, long
  <2>6. CASE (n - 1) % 2 = 0
    <3>1. b = w + v /\ 2 * mid = n - 1 /\ mid >= 1
      BY <2>1, <2>3, <2>6
    <3>2. w \in Nat /\ Cardinality(low(w)) <= mid - 1 /\ mid - 1 < Cardinality(upTo(w))
      <4>1. mid - 1 \in Nat /\ mid - 1 < n - 1
        BY <2>1, <3>1
      <4> QED
        BY <1>6, <4>1 DEF w
    <3>3. w <= v
      <4> SUFFICES ASSUME v < w PROVE FALSE
        BY <2>2, <3>2
      <4>1. upTo(v) \subseteq low(w) /\ low(w) \subseteq rest
        BY <1>2, <2>2, <3>2 DEF Below, UpTo
      <4> HIDE DEF upTo, low, rest
      <4>2. Cardinality(upTo(v)) <= Cardinality(low(w))
        BY <1>4, <4>1
      <4>3. Cardinality(upTo(v)) \in Nat /\ Cardinality(low(w)) \in Nat
        BY <1>3, <2>4, <4>1
      <4> QED
        BY <2>1, <2>2, <3>2, <4>2, <4>3
    <3>4. upTo(w) \subseteq short /\ from(v) \subseteq long /\ upTo(w) \subseteq rest
      BY <1>2, <2>2, <3>1, <3>2, <3>3 DEF UpTo
    <3> HIDE DEF short, long, upTo, from, low, rest
    <3>5. /\ Cardinality(upTo(w)) <= Cardinality(short)
          /\ Cardinality(from(v)) <= Cardinality(long)
      BY <1>4, <2>4, <3>4
    <3>6. /\ Cardinality(upTo(w)) \in Nat /\ Cardinality(short) \in Nat
          /\ Cardinality(from(v)) \in Nat /\ Cardinality(long) \in Nat
          /\ Cardinality(low(v)) \in Nat
      BY <1>3, <2>4, <3>4
    <3>7. Cardinality(low(v)) + Cardinality(from(v)) = n - 1
      BY <1>5, <2>2
    <3>8. 2 * Cardinality(short) >= n - 1 /\ 2 * Cardinality(long) >= n - 1
      BY <2>1, <2>2, <3>1, <3>2, <3>5, <3>6, <3>7
    <3>9. b \in Nat
      BY <2>2, <3>1, <3>2
    <3> QED
      BY <1>8, <3>8, <3>9 DEF rest, b, short, long
  <2> QED
    BY <2>5, <2>6
<1> QED
  BY <1>7, <1>8

\* What the last step logged is a report of the rings as they are.
LineIsCurrent == printed # Nil => printed = Report(rings, menu)

\* The rings, aligned, say what the frames were.
LEMMA ReportOfFrames ==
  ASSUME ProbeTypeOK, RingsHoldTheLastFrames, LineIsCurrent
  PROVE ReportIsTrue
<1> SUFFICES ASSUME printed # Nil PROVE ReportIsTrue
  BY DEF ReportIsTrue
<1> DEFINE n == Len(log)
           frames == Snapshot(rings["ms"])
           native == Snapshot(rings["native"])
           counts == Snapshot(rings["invldCount"])
           times == Snapshot(rings["invldMs"])
           peak == PeakIndex(frames)
           peakMs == IF frames = <<>> THEN 0 ELSE frames[peak]
           twiceSpike == IF frames = <<>> THEN 0 ELSE 2 * peakMs - TwiceBaseline(frames)
           nativeMs == IF frames # <<>> /\ peak <= Len(native) THEN native[peak] ELSE 0
           shared == 1..Min({Len(counts), Len(times)})
           line == [menu |-> menu, frames |-> frames, peak |-> peakMs,
                    twiceBaseline |-> 2 * peakMs - twiceSpike,
                    native |-> nativeMs,
                    twiceFlash |-> Max({0, twiceSpike - 2 * nativeMs}),
                    calls |-> SumFunctionOnSet(counts, shared),
                    total |-> SumFunctionOnSet(times, shared)]
<1>1. printed = line
  BY DEF LineIsCurrent, Report
<1>2. n \in Nat /\ log \in Seq(Frame) /\ DOMAIN log = 1..n
  BY DEF ProbeTypeOK
<1>3. /\ frames = [i \in 1..n |-> log[i].ms]
      /\ native = [i \in 1..n |-> log[i].native]
      /\ times = [i \in 1..n |-> log[i].invldMs]
      /\ counts = [i \in 1..n |-> log[i].invldCount]
  BY DEF RingsHoldTheLastFrames, Series
<1>4. \A i \in 1..n : log[i].ms \in Nat /\ log[i].native \in Nat
  <2>1. \A i \in 1..n : log[i] \in Frame
    BY <1>2
  <2> QED
    BY <2>1 DEF Frame
<1>5. Len(native) = n /\ Len(counts) = n /\ Len(times) = n /\ (frames = <<>> <=> n = 0)
  <2> HIDE DEF frames, native, counts, times, n
  <2>1. /\ DOMAIN native = 1..n /\ DOMAIN counts = 1..n /\ DOMAIN times = 1..n
        /\ DOMAIN frames = 1..n
    BY <1>3
  <2>2. native \in Seq(Nat) /\ counts \in Seq(Nat) /\ times \in Seq(Nat) /\ frames \in Seq(Nat)
    BY <1>2, SnapshotOf DEF native, counts, times, frames, ProbeTypeOK, Series
  <2>3. ASSUME NEW q \in Seq(Nat), DOMAIN q = 1..n
        PROVE Len(q) = n /\ (q = <<>> <=> n = 0)
    BY <1>2, <2>3
  <2> QED
    BY <2>1, <2>2, <2>3
<1> HIDE DEF frames, native, counts, times, n
<1>6. shared = 1..n
  <2>1. Min({n, n}) = n
    BY <1>2 DEF Min
  <2> QED
    BY <1>5, <2>1
<1>7. ASSUME NEW x \in Int
      PROVE Max({0, x}) \in {0, x} /\ Max({0, x}) >= 0 /\ Max({0, x}) >= x
  <2>1. \E m \in {0, x} : \A y \in {0, x} : m >= y
    OBVIOUS
  <2> QED
    BY <2>1 DEF Max
<1>8. /\ line.total = SumFunction([i \in 1..n |-> log[i].invldMs])
      /\ line.calls = SumFunction([i \in 1..n |-> log[i].invldCount])
  BY <1>3, <1>6 DEF SumFunction
<1>9. line.frames = [i \in 1..n |-> log[i].ms]
  BY <1>3
<1>10. /\ peakMs \in Nat /\ twiceSpike \in Int /\ nativeMs \in Nat
       /\ n # 0 =>
            /\ peak \in 1..n /\ \A i \in 1..n : log[i].ms <= log[peak].ms
            /\ peakMs = log[peak].ms /\ nativeMs = log[peak].native
            /\ 2 * peakMs - twiceSpike = TwiceBaseline(frames)
  <2>1. CASE n = 0
    BY <1>5, <2>1
  <2>2. CASE n # 0
    <3>1. n \in Nat \ {0} /\ frames \in [1..n -> Nat]
      BY <1>2, <1>3, <1>4, <2>2
    <3>2. peak \in 1..n /\ \A i \in 1..n : frames[i] <= frames[peak]
      BY <3>1, PeakIsLongest
    <3>3. TwiceBaseline(frames) \in Nat
      BY <3>1, BaselineIsMedian
    <3> HIDE DEF peak
    <3>4. peakMs = log[peak].ms /\ nativeMs = log[peak].native
      BY <1>2, <1>3, <1>5, <2>2, <3>2
    <3>5. \A i \in 1..n : log[i].ms <= log[peak].ms
      BY <1>3, <3>2
    <3>6. twiceSpike = 2 * peakMs - TwiceBaseline(frames)
      BY <1>5, <2>2
    <3> HIDE DEF peakMs, nativeMs, twiceSpike
    <3>7. peakMs \in Nat /\ nativeMs \in Nat
      BY <1>4, <3>2, <3>4
    <3>8. twiceSpike \in Int /\ 2 * peakMs - twiceSpike = TwiceBaseline(frames)
      BY <3>3, <3>6, <3>7
    <3> QED
      BY <3>2, <3>4, <3>5, <3>7, <3>8
  <2> QED
    BY <2>1, <2>2
<1>11. n # 0 =>
         LET rest == (1..n) \ {peak} IN
         rest # {} =>
           /\ 2 * Cardinality({i \in rest : 2 * log[i].ms <= TwiceBaseline(frames)}) >= n - 1
           /\ 2 * Cardinality({i \in rest : 2 * log[i].ms >= TwiceBaseline(frames)}) >= n - 1
  <2> SUFFICES ASSUME n # 0, (1..n) \ {peak} # {}
               PROVE LET rest == (1..n) \ {peak} IN
           /\ 2 * Cardinality({i \in rest : 2 * log[i].ms <= TwiceBaseline(frames)}) >= n - 1
           /\ 2 * Cardinality({i \in rest : 2 * log[i].ms >= TwiceBaseline(frames)}) >= n - 1
    OBVIOUS
  <2>1. n \in Nat \ {0} /\ frames \in [1..n -> Nat]
    BY <1>2, <1>3, <1>4
  <2>2. LET rest == (1..n) \ {peak} IN
           /\ 2 * Cardinality({i \in rest : 2 * frames[i] <= TwiceBaseline(frames)}) >= n - 1
           /\ 2 * Cardinality({i \in rest : 2 * frames[i] >= TwiceBaseline(frames)}) >= n - 1
    BY <2>1, BaselineIsMedian
  <2>3. \A i \in (1..n) \ {peak} : frames[i] = log[i].ms
    BY <1>3
  <2>4. /\ {i \in (1..n) \ {peak} : 2 * frames[i] <= TwiceBaseline(frames)}
             = {i \in (1..n) \ {peak} : 2 * log[i].ms <= TwiceBaseline(frames)}
        /\ {i \in (1..n) \ {peak} : 2 * frames[i] >= TwiceBaseline(frames)}
             = {i \in (1..n) \ {peak} : 2 * log[i].ms >= TwiceBaseline(frames)}
    BY <2>3
  <2> QED
    BY <2>2, <2>4
<1> HIDE DEF shared, peak, peakMs, twiceSpike, nativeMs
<1>12. /\ line.peak = peakMs /\ line.native = nativeMs
       /\ line.twiceBaseline = 2 * peakMs - twiceSpike
       /\ 2 * line.peak - line.twiceBaseline = twiceSpike
       /\ line.twiceFlash = Max({0, twiceSpike - 2 * nativeMs})
  BY <1>10
<1>13. \/ 2 * line.native + line.twiceFlash = twiceSpike
       \/ 2 * line.native > twiceSpike /\ line.twiceFlash = 0
  <2>1. PICK x \in Int : x = twiceSpike - 2 * nativeMs
    BY <1>10
  <2>2. PICK y : y = line.twiceFlash /\ y \in {0, x} /\ y >= 0 /\ y >= x
    BY <1>7, <1>12, <2>1
  <2> QED
    BY <1>10, <1>12, <2>1, <2>2
<1> HIDE DEF line
<1>14. n # 0 => \E p \in 1..n :
            /\ \A i \in 1..n : log[i].ms <= log[p].ms
            /\ line.peak = log[p].ms /\ line.native = log[p].native
            /\ 1..n # {p} =>
                 /\ 2 * Cardinality({i \in (1..n) \ {p} : 2 * log[i].ms <= line.twiceBaseline}) >= n - 1
                 /\ 2 * Cardinality({i \in (1..n) \ {p} : 2 * log[i].ms >= line.twiceBaseline}) >= n - 1
  <2> SUFFICES ASSUME n # 0 PROVE \E p \in 1..n :
            /\ \A i \in 1..n : log[i].ms <= log[p].ms
            /\ line.peak = log[p].ms /\ line.native = log[p].native
            /\ 1..n # {p} =>
                 /\ 2 * Cardinality({i \in (1..n) \ {p} : 2 * log[i].ms <= line.twiceBaseline}) >= n - 1
                 /\ 2 * Cardinality({i \in (1..n) \ {p} : 2 * log[i].ms >= line.twiceBaseline}) >= n - 1
    OBVIOUS
  <2>1. peak \in 1..n
    BY <1>10
  <2>2. 1..n # {peak} => (1..n) \ {peak} # {}
    BY <2>1
  <2>3. line.twiceBaseline = TwiceBaseline(frames)
    BY <1>10, <1>12
  <2> QED
    BY <1>10, <1>11, <1>12, <2>1, <2>2, <2>3, Zenon
<1>15. 1..n # {} => n # 0
  BY <1>2
<1> QED
  BY <1>1, <1>2, <1>8, <1>9, <1>12, <1>13, <1>14, <1>15 DEF ReportIsTrue, n

\* Only a dump makes a line, of the rings it leaves.
LEMMA LineStep ==
  ASSUME LineIsCurrent, [ProbeNext]_probeVars
  PROVE LineIsCurrent'
<1>1. CASE FrameDump
  BY <1>1 DEF FrameDump, LineIsCurrent
<1>2. CASE UNCHANGED probeVars
  BY <1>2 DEF probeVars, LineIsCurrent
<1> QED
  BY <1>1, <1>2, OnlyDumpPrints DEF LineIsCurrent

\* Every number of a logged line is true of the frames of the window, of any
\* size: the peak, the native time of that frame, the median of the others,
\* what is left for Flash, and the totals.
THEOREM LinesAreTrue == ProbeSpec => []ReportIsTrue
<1>1. ProbeInit => LineIsCurrent
  BY DEF ProbeInit, LineIsCurrent
<1> QED
  BY <1>1, LineStep, ReportOfFrames, TypeCorrect, RingsAligned, PTL DEF ProbeSpec

=============================================================================
