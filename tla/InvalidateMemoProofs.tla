------------------------- MODULE InvalidateMemoProofs -------------------------
(***************************************************************************)
(* A skipped InvalidateData is a harmless one, for every list, filter and  *)
(* nesting depth, unless a callback picked a filter or started a pass that *)
(* failed; and right after a whole pass the next call is a skipped one.    *)
(***************************************************************************)
EXTENDS InvalidateMemo, SequenceTheorems, TLAPS

\* Steps on the call stack, by what they do to its elements.
LEMMA GotoFacts ==
  ASSUME calls \in Seq(Call), calls # <<>>, NEW p \in Phase, Goto(p)
  PROVE  /\ calls' \in Seq(Call) /\ Len(calls') = Len(calls)
         /\ calls'[Len(calls)].phase = p
         /\ \A k \in 1..Len(calls) : calls'[k].memo = calls[k].memo
         /\ \A k \in 1..(Len(calls) - 1) : calls'[k] = calls[k]
<1> DEFINE n == Len(calls)
           rec == [phase |-> p, memo |-> calls[n].memo]
<1>1. n \in 1..n /\ n \in Nat /\ calls[n] \in Call
  OBVIOUS
<1>2. rec \in Call /\ rec.phase = p /\ rec.memo = calls[n].memo
  BY <1>1 DEF Call
<1>3. calls' = [calls EXCEPT ![n] = rec]
  BY DEF Goto, WithPhase, Top
<1>. QED
  BY <1>1, <1>2, <1>3

\* What is left when the innermost call returns.
LEMMA PopFacts ==
  ASSUME calls \in Seq(Call), calls # <<>>, Pop
  PROVE  /\ calls' \in Seq(Call) /\ Len(calls') = Len(calls) - 1
         /\ \A k \in 1..Len(calls') : calls'[k] = calls[k]
<1> DEFINE n == Len(calls) - 1
<1>1. n \in Nat /\ n + 1 = Len(calls) /\ \A k \in 1..n : k + 0 \in 1..Len(calls)
  OBVIOUS
<1>2. calls' = SubSeq(calls, 1, n)
  BY DEF Pop
<1>3. /\ SubSeq(calls, 1, n) \in Seq(Call)
      /\ Len(SubSeq(calls, 1, n)) = n
      /\ \A k \in 1..n : SubSeq(calls, 1, n)[k] = calls[k]
  BY <1>1
<1>. QED
  BY <1>1, <1>2, <1>3

\* What answering a callback changes: at most the phase of the innermost call.
LEMMA AnsweredFacts ==
  ASSUME calls \in Seq(Call)
  PROVE  /\ Answered \in Seq(Call) /\ Len(Answered) = Len(calls)
         /\ \A k \in 1..Len(calls) : Answered[k].memo = calls[k].memo
         /\ \A k \in 1..(Len(calls) - 1) : Answered[k] = calls[k]
         /\ InPhase("picked") => Answered[Len(calls)].phase = "notify"
         /\ ~InPhase("picked") => Answered = calls
<1>1. CASE InPhase("picked")
  <2> DEFINE n == Len(calls)
             rec == [phase |-> "notify", memo |-> calls[n].memo]
  <2>1. n \in 1..n /\ n \in Nat /\ calls[n] \in Call
    BY <1>1 DEF InPhase, Idle
  <2>2. rec \in Call /\ rec.phase = "notify" /\ rec.memo = calls[n].memo
    BY <2>1 DEF Call, Phase
  <2>3. Answered = [calls EXCEPT ![n] = rec]
    BY <1>1 DEF Answered, WithPhase, Top
  <2>. QED
    BY <1>1, <2>1, <2>2, <2>3
<1>2. CASE ~InPhase("picked")
  BY <1>2 DEF Answered
<1>. QED
  BY <1>1, <1>2

\* A call that begins is put on top of those that run.
LEMMA StartFacts ==
  ASSUME calls \in Seq(Call), NEW memo \in BOOLEAN, Start(memo)
  PROVE  /\ calls' \in Seq(Call) /\ Len(calls') = Len(calls) + 1
         /\ \A k \in 1..Len(calls) : calls'[k] = Answered[k]
         /\ calls'[Len(calls')] = [phase |-> "process", memo |-> memo]
<1>1. [phase |-> "process", memo |-> memo] \in Call
  BY DEF Call, Phase
<1>2. Answered \in Seq(Call) /\ Len(Answered) = Len(calls)
  BY AnsweredFacts
<1>. QED
  BY <1>1, <1>2 DEF Start

-----------------------------------------------------------------------------
(* The invariant *)

\* Callers below the innermost call wait in their callbacks, a picked filter
\* disturbs the pass, and a call records its outcome if and only if the memo
\* was in charge when it started.
StackInv ==
  /\ \A k \in 1..(Len(calls) - 1) : calls[k].phase = "notify"
  /\ InPhase("picked") => disturbed
  /\ \A k \in 1..Len(calls) : calls[k].memo = (hooked /\ features /\ enabled)
  /\ ~Idle /\ hooked /\ ~(features /\ enabled) => lastFp = Nothing

\* Between calls, a remembered fingerprint is that of the display; after a
\* draw, the list as it is is.
DisplayInv ==
  /\ Idle /\ ~disturbed /\ hooked /\ lastFp # Nothing =>
       shown = [content |-> lastFp.content, config |-> lastFp.config]
  /\ InPhase("notify") /\ ~disturbed => shown = [content |-> content, config |-> config]

\* An invalidated icon is not forgotten: it is forced, or no fingerprint is
\* left to match.
StaleInv ==
  /\ Idle /\ ~disturbed /\ stale /\ ~forced /\ hooked => lastFp = Nothing
  /\ (InPhase("draw") \/ InPhase("notify")) /\ ~disturbed /\ stale => forced

MemoInv == TypeOK /\ StackInv /\ DisplayInv /\ StaleInv

\* The invariant holds before the first call.
LEMMA MemoInit == Init => MemoInv
<1> SUFFICES ASSUME Init PROVE MemoInv
  OBVIOUS
<1>1. TypeOK
  <2>1. calls \in Seq(Call) /\ Len(calls) <= MaxDepth
    BY MemoConstants DEF Init
  <2>. QED
    BY <2>1 DEF Init, TypeOK
<1>2. calls = <<>> /\ Len(calls) = 0
  BY DEF Init
<1>3. StackInv
  BY <1>2 DEF StackInv, Idle, InPhase
<1>4. DisplayInv /\ StaleInv
  BY <1>2 DEF Init, DisplayInv, StaleInv, Idle, InPhase
<1>. QED
  BY <1>1, <1>3, <1>4 DEF MemoInv

\* What is hashed is a fingerprint.
LEMMA FpType == TypeOK => Fp \in Fingerprint
BY DEF TypeOK, Fp, Fingerprint

\* A call that starts is typed and counted.
LEMMA StartType ==
  ASSUME TypeOK, CanCall, NEW memo \in BOOLEAN, Start(memo)
  PROVE  calls' \in Seq(Call) /\ Len(calls') <= MaxDepth /\ disturbed' \in BOOLEAN
<1>1. [phase |-> "process", memo |-> memo] \in Call
  BY DEF Call, Phase
<1>2. Answered \in Seq(Call) /\ Len(Answered) = Len(calls)
  BY AnsweredFacts DEF TypeOK
<1>3. calls' \in Seq(Call) /\ Len(calls') <= MaxDepth
  BY <1>1, <1>2, MemoConstants DEF Start, CanCall, TypeOK
<1>4. disturbed' \in BOOLEAN
  BY Zenon DEF Start
<1>. QED
  BY <1>3, <1>4

\* Every step keeps the types.
LEMMA TypeStep == TypeOK /\ [Next]_vars => TypeOK'
<1> SUFFICES ASSUME TypeOK, [Next]_vars PROVE TypeOK'
  OBVIOUS
<1> USE DEF listVars, switchVars, memoVars
<1>0. Answered \in Seq(Call) /\ Len(Answered) = Len(calls)
  BY AnsweredFacts DEF TypeOK
<1>1. CASE CallUnhooked
  BY <1>1, StartType DEF CallUnhooked, TypeOK
<1>2. CASE CallOff
  BY <1>0, <1>2, StartType DEF CallOff, Note, TypeOK
<1>3. CASE CallSkip
  BY <1>0, <1>3 DEF CallSkip, TypeOK
<1>4. CASE CallProcess
  BY <1>4, StartType DEF CallProcess, TypeOK
<1>5. CASE RunProcessors
  BY <1>5, GotoFacts, MemoConstants DEF RunProcessors, TypeOK, InPhase, Idle, Phase
<1>6. CASE Draw
  BY <1>6, GotoFacts DEF Draw, TypeOK, InPhase, Idle, Phase, Display
<1>7. CASE FireCallback
  BY <1>7 DEF FireCallback, TypeOK
<1>8. CASE PickFilter
  BY <1>8, GotoFacts DEF PickFilter, TypeOK, InPhase, Idle, Phase
<1>9. CASE Return
  <2>1. fresh' \in BOOLEAN
    BY <1>9, Zenon DEF Return
  <2>2. calls' \in Seq(Call) /\ Len(calls') <= MaxDepth
    BY <1>9, PopFacts, MemoConstants DEF Return, TypeOK, InPhase, Idle
  <2>3. lastFp' \in Fingerprint \cup {Nothing} /\ tally' \in {"none", "skipped", "processed"}
    BY <1>9, FpType DEF Return, TypeOK
  <2>. QED
    BY <1>9, <2>1, <2>2, <2>3 DEF Return, TypeOK
<1>10. CASE ReturnFailed
  <2>1. calls' \in Seq(Call) /\ Len(calls') <= MaxDepth
    BY <1>10, PopFacts, MemoConstants DEF ReturnFailed, TypeOK, Idle
  <2>2. lastFp' \in {lastFp, Nothing} /\ tally' \in {tally, "processed"}
    BY <1>10 DEF ReturnFailed
  <2>3. shown' \in {shown, Nothing} /\ fresh' = FALSE
    BY <1>10 DEF ReturnFailed
  <2>4. disturbed' \in BOOLEAN
    BY <1>10, Zenon DEF ReturnFailed
  <2>. QED
    BY <1>10, <2>1, <2>2, <2>3, <2>4 DEF ReturnFailed, TypeOK
<1>11. CASE Install \/ ForceReprocess
  BY <1>11 DEF Install, ForceReprocess, TypeOK
<1>12. ASSUME NEW on \in BOOLEAN, SetFeatures(on) \/ SetEnabled(on) PROVE TypeOK'
  BY <1>12 DEF SetFeatures, SetEnabled, TypeOK
<1>13. CASE OpenMenu
  BY <1>13 DEF OpenMenu, TypeOK
<1>14. CASE Rebuild \/ EditList
  BY <1>14 DEF Rebuild, EditList, TypeOK
<1>15. CASE UNCHANGED vars
  BY <1>15 DEF vars, TypeOK
<1>. QED
  BY <1>1, <1>2, <1>3, <1>4, <1>5, <1>6, <1>7, <1>8, <1>9, <1>10, <1>11,
     <1>12, <1>13, <1>14, <1>15 DEF Next

\* The state keeps its shape.
THEOREM MemoTypeCorrect == Spec => []TypeOK
<1>1. Init => TypeOK
  BY MemoInit DEF MemoInv
<1>. QED
  BY <1>1, TypeStep, PTL DEF Spec

-----------------------------------------------------------------------------
(* A skip is safe *)

\* One more call on the stack, by the switches as they are.
LEMMA StackStart ==
  ASSUME MemoInv, CanCall, NEW memo \in BOOLEAN, Start(memo),
         memo = (hooked /\ features /\ enabled),
         hooked /\ ~memo => lastFp' = Nothing,
         UNCHANGED <<hooked, features, enabled>>
  PROVE  /\ StackInv'
         /\ calls' # <<>> /\ calls'[Len(calls')].phase = "process"
<1> DEFINE n == Len(calls)
<1>1. n \in Nat /\ calls \in Seq(Call) /\ (calls = <<>> <=> n = 0)
  BY DEF MemoInv, TypeOK
<1>2. /\ calls' \in Seq(Call) /\ Len(calls') = n + 1
      /\ \A k \in 1..n : calls'[k] = Answered[k]
      /\ calls'[n + 1].phase = "process" /\ calls'[n + 1].memo = memo
  <2>1. /\ calls' \in Seq(Call) /\ Len(calls') = n + 1
        /\ \A k \in 1..n : calls'[k] = Answered[k]
        /\ calls'[Len(calls')] = [phase |-> "process", memo |-> memo]
    BY <1>1, StartFacts
  <2>. QED
    BY <2>1
<1>3. /\ \A k \in 1..n : Answered[k].memo = calls[k].memo
      /\ \A k \in 1..(n - 1) : Answered[k] = calls[k]
      /\ InPhase("picked") => Answered[n].phase = "notify"
      /\ ~InPhase("picked") => Answered = calls
  BY <1>1, AnsweredFacts
<1>4. \A k \in 1..n : Answered[k].phase = "notify"
  <2>1. CASE n = 0
    BY <2>1
  <2>2. CASE n # 0
    <3>1. Answered[n].phase = "notify"
      BY <2>2, <1>1, <1>3 DEF CanCall, MayCall, InPhase, Top, Idle
    <3>2. \A k \in 1..(n - 1) : Answered[k].phase = "notify"
      BY <1>1, <1>3 DEF MemoInv, StackInv
    <3>. QED
      BY <3>1, <3>2, <1>1
  <2>. QED
    BY <2>1, <2>2
<1>5. calls' # <<>>
  BY <1>1, <1>2
<1>6. \A k \in 1..(Len(calls') - 1) : calls'[k].phase = "notify"
  BY <1>1, <1>2, <1>4
<1>7. \A k \in 1..Len(calls') : calls'[k].memo = (hooked /\ features /\ enabled)'
  BY <1>1, <1>2, <1>3 DEF MemoInv, StackInv
<1>8. (hooked /\ ~(features /\ enabled) => lastFp = Nothing)'
  OBVIOUS
<1>9. ~InPhase("picked")'
  BY <1>1, <1>2 DEF InPhase, Top
<1>. QED
  BY <1>1, <1>2, <1>5, <1>6, <1>7, <1>8, <1>9 DEF StackInv

\* A caller that picked a filter is answered without a pass.
LEMMA StackAnswered ==
  ASSUME MemoInv, calls' = Answered,
         lastFp' \in {lastFp, Nothing},
         UNCHANGED <<hooked, features, enabled, disturbed>>
  PROVE  /\ StackInv'
         /\ Idle' <=> Idle
         /\ InPhase("draw")' => InPhase("draw")
         /\ InPhase("notify")' => InPhase("notify") \/ disturbed
<1> DEFINE n == Len(calls)
<1>1. n \in Nat /\ calls \in Seq(Call) /\ (calls = <<>> <=> n = 0)
  BY DEF MemoInv, TypeOK
<1>2. /\ calls' \in Seq(Call) /\ Len(calls') = n
      /\ \A k \in 1..n : calls'[k].memo = calls[k].memo
      /\ \A k \in 1..(n - 1) : calls'[k] = calls[k]
      /\ InPhase("picked") => calls'[n].phase = "notify"
      /\ ~InPhase("picked") => calls' = calls
  BY <1>1, AnsweredFacts
<1>3. (Idle' <=> Idle) /\ ~InPhase("picked")'
  BY <1>1, <1>2 DEF Idle, InPhase, Top
<1>4. \A k \in 1..(Len(calls') - 1) : calls'[k].phase = "notify"
  BY <1>1, <1>2 DEF MemoInv, StackInv
<1>5. \A k \in 1..Len(calls') : calls'[k].memo = (hooked /\ features /\ enabled)'
  BY <1>1, <1>2 DEF MemoInv, StackInv
<1>6. (~Idle /\ hooked /\ ~(features /\ enabled) => lastFp = Nothing)'
  BY <1>3 DEF MemoInv, StackInv
<1>7. StackInv'
  BY <1>3, <1>4, <1>5, <1>6 DEF StackInv
<1>8. CASE InPhase("picked")
  BY <1>2, <1>3, <1>7, <1>8 DEF MemoInv, StackInv, InPhase, Top
<1>9. CASE ~InPhase("picked")
  BY <1>2, <1>3, <1>7, <1>9 DEF InPhase, Top, Idle
<1>. QED
  BY <1>8, <1>9

\* The innermost call moves on.
LEMMA StackGoto ==
  ASSUME MemoInv, ~Idle, NEW p \in {"draw", "notify", "picked"}, Goto(p),
         p = "picked" => disturbed',
         UNCHANGED <<hooked, features, enabled, lastFp>>
  PROVE  /\ StackInv'
         /\ calls' # <<>> /\ calls'[Len(calls')].phase = p
<1> DEFINE n == Len(calls)
<1>1. n \in Nat \ {0} /\ calls \in Seq(Call)
  BY DEF MemoInv, TypeOK, Idle
<1>2. /\ calls' \in Seq(Call) /\ Len(calls') = n
      /\ calls'[n].phase = p
      /\ \A k \in 1..n : calls'[k].memo = calls[k].memo
      /\ \A k \in 1..(n - 1) : calls'[k] = calls[k]
  BY <1>1, GotoFacts DEF Phase, Idle
<1>3. calls' # <<>>
  BY <1>1, <1>2
<1>4. /\ \A k \in 1..(Len(calls') - 1) : calls'[k].phase = "notify"
      /\ InPhase("picked")' => disturbed'
  BY <1>1, <1>2 DEF MemoInv, StackInv, InPhase, Top
<1>5. \A k \in 1..Len(calls') : calls'[k].memo = (hooked /\ features /\ enabled)'
  BY <1>1, <1>2 DEF MemoInv, StackInv
<1>6. (hooked /\ ~(features /\ enabled) => lastFp = Nothing)'
  BY DEF MemoInv, StackInv
<1>. QED
  BY <1>2, <1>3, <1>4, <1>5, <1>6 DEF StackInv

\* The innermost call is over; its caller, if any, waits in its callback.
LEMMA StackPop ==
  ASSUME MemoInv, ~Idle, Pop,
         lastFp' = Nothing \/ Top.memo \/ lastFp' = lastFp,
         UNCHANGED <<hooked, features, enabled>>
  PROVE  /\ StackInv'
         /\ calls' # <<>> => calls'[Len(calls')].phase = "notify"
         /\ Len(calls) <= 1 => calls' = <<>>
         /\ Top.memo = (hooked /\ features /\ enabled)
<1> DEFINE n == Len(calls)
<1>1. n \in Nat \ {0} /\ calls \in Seq(Call)
  BY DEF MemoInv, TypeOK, Idle
<1>2. /\ calls' \in Seq(Call) /\ Len(calls') = n - 1
      /\ \A k \in 1..(n - 1) : calls'[k] = calls[k]
  BY <1>1, PopFacts DEF Idle
<1>3. n <= 1 => calls' = <<>>
  <2>1. n <= 1 => Len(calls') = 0
    BY <1>1, <1>2
  <2>. QED
    BY <1>2, <2>1
<1>4. Top.memo = (hooked /\ features /\ enabled)
  BY <1>1 DEF Top, MemoInv, StackInv
<1>5. \A k \in 1..Len(calls') : calls'[k].phase = "notify"
  BY <1>1, <1>2 DEF MemoInv, StackInv
<1>6. \A k \in 1..Len(calls') : calls'[k].memo = (hooked /\ features /\ enabled)'
  BY <1>1, <1>2 DEF MemoInv, StackInv
<1>7. (hooked /\ ~(features /\ enabled) => lastFp = Nothing)'
  BY <1>4 DEF MemoInv, StackInv
<1>9. StackInv'
  <2>1. ~InPhase("picked")'
    BY <1>1, <1>2, <1>5 DEF InPhase, Top, Idle
  <2>2. \A k \in 1..(Len(calls') - 1) : calls'[k].phase = "notify"
    BY <1>1, <1>2, <1>5
  <2>. QED
    BY <1>6, <1>7, <2>1, <2>2 DEF StackInv
<1>10. calls' # <<>> => calls'[Len(calls')].phase = "notify"
  BY <1>1, <1>2, <1>5
<1>. QED
  BY <1>3, <1>4, <1>9, <1>10

\* Between calls: nothing on the stack, so no call and no duty to one.
LEMMA StackIdle ==
  ASSUME Idle, calls' = calls
  PROVE  StackInv' /\ Idle'
<1>1. calls' = <<>> /\ Len(calls') = 0
  BY DEF Idle
<1>. QED
  BY <1>1 DEF StackInv, Idle, InPhase

\* A step that touches neither the stack nor what it depends on.
LEMMA StackSame ==
  ASSUME StackInv, UNCHANGED <<calls, hooked, features, enabled, disturbed>>,
         lastFp' \in {lastFp, Nothing}
  PROVE  StackInv'
BY DEF StackInv, Idle, InPhase, Top

\* Every step keeps the recorded fingerprint that of the display, the stack in
\* order and stale icons under the forced flag.
LEMMA MemoStep == MemoInv /\ [Next]_vars => StackInv' /\ DisplayInv' /\ StaleInv'
<1> SUFFICES ASSUME MemoInv, [Next]_vars
             PROVE  StackInv' /\ DisplayInv' /\ StaleInv'
  OBVIOUS
<1> USE DEF listVars, switchVars, memoVars
<1>1. CASE CallUnhooked
  <2>1. StackInv' /\ calls' # <<>> /\ calls'[Len(calls')].phase = "process"
    BY <1>1, StackStart DEF CallUnhooked
  <2>. QED
    BY <2>1 DEF DisplayInv, StaleInv, InPhase, Idle, Top
<1>2. CASE CallOff
  <2>1. CASE suspended
    <3>1. calls' = Answered /\ lastFp' = Nothing
          /\ UNCHANGED <<content, config, hooked, shown, stale, features, enabled, forced, disturbed>>
      BY <1>2, <2>1 DEF CallOff, Note
    <3>2. /\ StackInv' /\ (Idle' <=> Idle)
          /\ InPhase("draw")' => InPhase("draw")
          /\ InPhase("notify")' => InPhase("notify") \/ disturbed
      BY <3>1, StackAnswered
    <3>. QED
      BY <3>1, <3>2 DEF MemoInv, DisplayInv, StaleInv
  <2>2. CASE ~suspended
    <3>1. StackInv' /\ calls' # <<>> /\ calls'[Len(calls')].phase = "process"
      BY <1>2, <2>2, StackStart DEF CallOff
    <3>. QED
      BY <3>1 DEF DisplayInv, StaleInv, InPhase, Idle, Top
  <2>. QED
    BY <2>1, <2>2
<1>3. CASE CallSkip
  <2>1. calls' = Answered
        /\ UNCHANGED <<content, config, hooked, shown, stale, features, enabled, forced,
                       lastFp, disturbed>>
    BY <1>3 DEF CallSkip
  <2>2. /\ StackInv' /\ (Idle' <=> Idle)
        /\ InPhase("draw")' => InPhase("draw")
        /\ InPhase("notify")' => InPhase("notify") \/ disturbed
    BY <2>1, StackAnswered
  <2>. QED
    BY <2>1, <2>2 DEF MemoInv, DisplayInv, StaleInv
<1>4. CASE CallProcess
  <2>1. StackInv' /\ calls' # <<>> /\ calls'[Len(calls')].phase = "process"
    BY <1>4, StackStart DEF CallProcess
  <2>. QED
    BY <2>1 DEF DisplayInv, StaleInv, InPhase, Idle, Top
<1>5. CASE RunProcessors
  <2>1. StackInv' /\ calls' # <<>> /\ calls'[Len(calls')].phase = "draw"
    BY <1>5, StackGoto DEF RunProcessors, InPhase
  <2>2. stale' = FALSE
    BY <1>5 DEF RunProcessors
  <2>. QED
    BY <2>1, <2>2 DEF DisplayInv, StaleInv, InPhase, Idle, Top
<1>6. CASE Draw
  <2>1. StackInv' /\ calls' # <<>> /\ calls'[Len(calls')].phase = "notify"
    BY <1>6, StackGoto DEF Draw, InPhase
  <2>2. shown' = [content |-> content', config |-> config']
    BY <1>6 DEF Draw
  <2>3. stale' /\ ~disturbed' => forced'
    BY <1>6 DEF Draw, MemoInv, StaleInv
  <2>. QED
    BY <2>1, <2>2, <2>3 DEF DisplayInv, StaleInv, InPhase, Idle, Top
<1>7. CASE FireCallback
  <2>1. StackInv'
    BY <1>7, StackSame DEF FireCallback, MemoInv
  <2>. QED
    BY <1>7, <2>1 DEF FireCallback, MemoInv, DisplayInv, StaleInv, InPhase, Idle, Top
<1>8. CASE PickFilter
  <2>1. StackInv' /\ calls' # <<>> /\ calls'[Len(calls')].phase = "picked"
    BY <1>8, StackGoto DEF PickFilter, InPhase
  <2>. QED
    BY <2>1 DEF DisplayInv, StaleInv, InPhase, Idle, Top
<1>9. CASE Return
  <2>1. /\ StackInv'
        /\ calls' # <<>> => calls'[Len(calls')].phase = "notify"
        /\ Top.memo = (hooked /\ features /\ enabled)
    BY <1>9, StackPop DEF Return, InPhase
  <2>2. ~disturbed =>
          shown = [content |-> content, config |-> config] /\ (stale => forced)
    BY <1>9 DEF Return, MemoInv, DisplayInv, StaleInv
  <2>3. UNCHANGED <<content, config, shown, stale, forced, hooked, disturbed>>
    BY <1>9 DEF Return
  <2>4. CASE Top.memo
    <3>1. lastFp'.content = content /\ lastFp'.config = config
      BY <1>9, <2>4 DEF Return, Fp
    <3>. QED
      BY <2>1, <2>2, <2>3, <3>1 DEF DisplayInv, StaleInv, InPhase, Idle, Top
  <2>5. CASE ~Top.memo
    <3>1. hooked => lastFp' = Nothing
      BY <1>9, <2>1, <2>5 DEF Return, MemoInv, StackInv, InPhase
    <3>. QED
      BY <2>1, <2>2, <2>3, <3>1 DEF DisplayInv, StaleInv, InPhase, Idle, Top
  <2>. QED
    BY <2>4, <2>5
<1>10. CASE ReturnFailed
  <2>1. /\ StackInv'
        /\ Len(calls) <= 1 => calls' = <<>>
        /\ Top.memo = (hooked /\ features /\ enabled)
    BY <1>10, StackPop DEF ReturnFailed
  <2>3. CASE Len(calls) > 1
    <3>1. disturbed' = TRUE
      BY <1>10, <2>3 DEF ReturnFailed
    <3>. QED
      BY <2>1, <3>1 DEF DisplayInv, StaleInv
  <2>4. CASE ~(Len(calls) > 1)
    <3>1. Idle'
      BY <2>1, <2>4 DEF MemoInv, TypeOK, Idle
    <3>2. hooked' => lastFp' = Nothing
      BY <1>10, <2>1 DEF ReturnFailed, MemoInv, StackInv
    <3>. QED
      BY <2>1, <3>1, <3>2 DEF DisplayInv, StaleInv, InPhase
  <2>. QED
    BY <2>3, <2>4
<1>11. CASE Install
  <2>1. StackInv' /\ Idle' /\ lastFp' = Nothing
    BY <1>11, StackIdle DEF Install
  <2>. QED
    BY <2>1 DEF DisplayInv, StaleInv, InPhase, Idle
<1>12. CASE ForceReprocess
  <2>1. StackInv'
    BY <1>12, StackSame DEF ForceReprocess, MemoInv
  <2>. QED
    BY <1>12, <2>1 DEF ForceReprocess, MemoInv, DisplayInv, StaleInv, InPhase, Idle, Top
<1>13. ASSUME NEW on \in BOOLEAN, SetFeatures(on) \/ SetEnabled(on)
       PROVE  StackInv' /\ DisplayInv' /\ StaleInv'
  <2>1. StackInv' /\ Idle'
    BY <1>13, StackIdle DEF SetFeatures, SetEnabled
  <2>. QED
    BY <1>13, <2>1 DEF SetFeatures, SetEnabled, MemoInv, DisplayInv, StaleInv, InPhase, Idle
<1>14. CASE OpenMenu
  <2>1. StackInv' /\ Idle' /\ hooked' = FALSE
    BY <1>14, StackIdle DEF OpenMenu
  <2>. QED
    BY <2>1 DEF DisplayInv, StaleInv, InPhase, Idle
<1>15. CASE Rebuild \/ EditList
  <2>1. Idle /\ UNCHANGED <<hooked, shown, stale, forced, lastFp, calls, disturbed>>
    BY <1>15 DEF Rebuild, EditList
  <2>2. StackInv' /\ Idle'
    BY <2>1, StackIdle
  <2>. QED
    BY <2>1, <2>2 DEF MemoInv, DisplayInv, StaleInv, InPhase, Idle
<1>16. CASE UNCHANGED vars
  <2>1. StackInv'
    BY <1>16, StackSame DEF vars, MemoInv
  <2>. QED
    BY <1>16, <2>1 DEF vars, MemoInv, DisplayInv, StaleInv, InPhase, Idle, Top
<1>. QED
  BY <1>1, <1>2, <1>3, <1>4, <1>5, <1>6, <1>7, <1>8, <1>9, <1>10, <1>11,
     <1>12, <1>13, <1>14, <1>15, <1>16 DEF Next

\* A call that the invariant lets skip has nothing to do.
LEMMA MemoInvImpliesSkipIsSafe == MemoInv => SkipIsSafe
<1> SUFFICES ASSUME MemoInv, MayCall, WouldSkip, ~disturbed PROVE Current
  BY DEF SkipIsSafe
<1>1. ~InPhase("picked")
  BY DEF MemoInv, StackInv
<1>2. lastFp = Fp /\ lastFp # Nothing /\ hooked /\ ~forced /\ ~callback
  BY FpType, MemoConstants DEF WouldSkip, MemoInv
<1>3. CASE Idle
  BY <1>2, <1>3 DEF Current, MemoInv, DisplayInv, StaleInv, Fp
<1>4. CASE InPhase("notify")
  BY <1>2, <1>4 DEF Current, MemoInv, DisplayInv, StaleInv
<1>. QED
  BY <1>1, <1>3, <1>4 DEF MayCall

\* The invariant of all behaviours.
LEMMA MemoInvariant == Spec => []MemoInv
<1>1. MemoInv /\ [Next]_vars => MemoInv'
  BY TypeStep, MemoStep DEF MemoInv
<1>. QED
  BY <1>1, MemoInit, PTL DEF Spec

\* A skipped InvalidateData would have changed nothing the player sees, for
\* every list, filter and nesting depth, unless a callback of the pass at hand
\* picked a filter or started a pass that failed.
THEOREM SkipsAreSafe == Spec => []SkipIsSafe
BY MemoInvariant, MemoInvImpliesSkipIsSafe, PTL

-----------------------------------------------------------------------------
(* A redundant call is skipped *)

\* A data processor does not touch an entry whose filterFlag is 0, so it does
\* not make one processable either.
ProcessorsKeepFlags ==
  \A l \in Contents : Processable(Settle(l)) \subseteq Processable(l)

\* No pass runs on a suspended list; once the data processors ran, in this
\* pass or in the one a callback is part of, nothing waits for them; and after
\* a whole pass nothing speaks against skipping.
RenderedInv ==
  /\ ~Idle => ~suspended
  /\ ~Idle /\ (~InPhase("process") \/ Len(calls) > 1) => ListAlreadyRendered
  /\ fresh => Idle /\ WouldSkip

\* A step inside a pass that leaves the list and the depth of the stack alone.
LEMMA RenderedInside ==
  ASSUME TypeOK, RenderedInv, ~Idle, Len(calls') = Len(calls), calls' # <<>>,
         UNCHANGED <<content, unprocessed, suspended, fresh>>,
         ~InPhase("process") \/ InPhase("process")'
  PROVE  RenderedInv'
<1>1. fresh' = FALSE
  BY DEF RenderedInv, TypeOK
<1>. QED
  BY <1>1 DEF RenderedInv, ListAlreadyRendered, Idle

\* Every step keeps what a pass has rendered, drawn and recorded.
LEMMA RenderedStep ==
  ASSUME ProcessorsKeepFlags, MemoInv, RenderedInv, [Next]_vars
  PROVE  RenderedInv'
<1> USE DEF listVars, switchVars, memoVars
<1>0. TypeOK /\ StackInv /\ calls \in Seq(Call) /\ Len(calls) \in Nat
      /\ (calls = <<>> <=> Len(calls) = 0)
  BY DEF MemoInv, TypeOK
<1>1. ASSUME NEW memo \in BOOLEAN, Start(memo), CanCall, ~suspended, fresh' = FALSE,
             UNCHANGED <<content, unprocessed, suspended>>
      PROVE  RenderedInv'
  <2>0. /\ Len(calls') = Len(calls) + 1 /\ calls' \in Seq(Call)
        /\ calls'[Len(calls')] = [phase |-> "process", memo |-> memo]
    BY <1>0, <1>1, StartFacts
  <2>1. calls' # <<>>
    BY <1>0, <2>0
  <2>2. CASE Idle
    <3>1. Len(calls') = 1 /\ calls'[Len(calls')].phase = "process"
      BY <1>0, <2>0, <2>2 DEF Idle
    <3>. QED
      BY <1>1, <2>1, <3>1 DEF RenderedInv, InPhase, Idle, Top
  <2>3. CASE ~Idle
    <3>1. ListAlreadyRendered
      BY <1>1, <2>3 DEF RenderedInv, CanCall, MayCall, InPhase
    <3>. QED
      BY <1>1, <3>1 DEF RenderedInv, ListAlreadyRendered
  <2>. QED
    BY <2>2, <2>3
<1>2. CASE CallUnhooked
  BY <1>1, <1>2 DEF CallUnhooked
<1>3. CASE CallProcess
  BY <1>1, <1>3 DEF CallProcess
<1>4. ASSUME calls' = Answered, UNCHANGED <<content, unprocessed, suspended>>,
             CanCall, fresh' = FALSE \/ (fresh' = fresh /\ (Idle => (WouldSkip' <=> WouldSkip)))
      PROVE  RenderedInv'
  <2>1. Len(calls') = Len(calls) /\ (Idle' <=> Idle) /\ (Idle => calls' = calls)
    BY <1>0, <1>4, AnsweredFacts DEF Idle, Answered, InPhase
  <2>2. ~Idle => ListAlreadyRendered
    BY <1>4 DEF RenderedInv, CanCall, MayCall, InPhase
  <2>. QED
    BY <1>4, <2>1, <2>2 DEF RenderedInv, ListAlreadyRendered
<1>5. CASE CallOff
  <2>1. CASE suspended
    BY <1>4, <1>5, <2>1 DEF CallOff, Note
  <2>2. CASE ~suspended
    BY <1>1, <1>5, <2>2 DEF CallOff
  <2>. QED
    BY <2>1, <2>2
<1>6. CASE CallSkip
  <2>1. WouldSkip' <=> WouldSkip
    BY <1>6 DEF CallSkip, WouldSkip, Fp, ListAlreadyRendered
  <2>. QED
    BY <1>4, <1>6, <2>1 DEF CallSkip
<1>7. CASE RunProcessors
  <2>1. ~Idle /\ Goto("draw") /\ UNCHANGED <<suspended, fresh>>
    BY <1>7 DEF RunProcessors, InPhase
  <2>2. (unprocessed \ Processable(content)) \cap Processable(Settle(content)) = {}
    BY <1>0 DEF ProcessorsKeepFlags, TypeOK
  <2>3. ListAlreadyRendered'
    BY <1>7, <2>2 DEF RunProcessors, ListAlreadyRendered
  <2>4. fresh' = FALSE
    BY <1>0, <2>1 DEF RenderedInv, TypeOK
  <2>. QED
    BY <2>1, <2>3, <2>4 DEF RenderedInv
<1>8. CASE Draw \/ PickFilter
  <2>1. PICK p \in {"notify", "picked"} : Goto(p)
    BY <1>8 DEF Draw, PickFilter
  <2>2. ~Idle /\ ~InPhase("process") /\ UNCHANGED <<content, unprocessed, suspended, fresh>>
    BY <1>8 DEF Draw, PickFilter, InPhase, Idle
  <2>3. Len(calls') = Len(calls) /\ calls' # <<>>
    BY <1>0, <2>1, <2>2, GotoFacts DEF Phase, Idle
  <2>. QED
    BY <1>0, <2>2, <2>3, RenderedInside
<1>9. CASE FireCallback
  <2>1. ~Idle /\ ~InPhase("process") /\ UNCHANGED <<calls, content, unprocessed, suspended, fresh>>
    BY <1>9 DEF FireCallback, InPhase, Idle
  <2>. QED
    BY <1>0, <2>1, RenderedInside DEF Idle
<1>10. CASE Return
  <2>1. /\ ~Idle /\ InPhase("notify") /\ ~callback /\ ~suspended /\ ListAlreadyRendered /\ Pop
        /\ UNCHANGED <<content, unprocessed, config, suspended, callback, hooked, features,
                       enabled, forced>>
    BY <1>10 DEF Return, RenderedInv, InPhase, Idle
  <2>2. Len(calls') = Len(calls) - 1 /\ calls' \in Seq(Call)
    BY <1>0, <2>1, PopFacts DEF Idle
  <2>3. fresh' => Idle' /\ WouldSkip'
    <3> SUFFICES ASSUME fresh' PROVE Idle' /\ WouldSkip'
      OBVIOUS
    <3>1. Top.memo /\ Len(calls) = 1 /\ ~forced
      BY <1>10, Zenon DEF Return
    <3>2. Idle'
      <4>1. Len(calls') = 0
        BY <2>2, <3>1
      <4>. QED
        BY <2>2, <4>1 DEF Idle
    <3>3. hooked /\ features /\ enabled
      <4>1. 1 \in 1..Len(calls) /\ calls[1].memo
        BY <3>1 DEF Top
      <4>2. calls[1].memo = (hooked /\ features /\ enabled)
        BY <1>0, <4>1 DEF StackInv
      <4>. QED
        BY <4>1, <4>2
    <3>4. lastFp' = Fp'
      BY <1>10, <2>1, <3>1 DEF Return, Fp
    <3>. QED
      BY <2>1, <3>1, <3>2, <3>3, <3>4 DEF WouldSkip, ListAlreadyRendered
  <2>. QED
    BY <2>1, <2>3 DEF RenderedInv, ListAlreadyRendered
<1>11. CASE ReturnFailed
  <2>1. /\ ~Idle /\ ~suspended /\ Pop /\ fresh' = FALSE
        /\ UNCHANGED <<content, unprocessed, suspended>>
    BY <1>11 DEF ReturnFailed, RenderedInv
  <2>2. Len(calls') = Len(calls) - 1 /\ calls' \in Seq(Call)
    BY <1>0, <2>1, PopFacts DEF Idle
  <2>3. ~Idle' => Len(calls) > 1
    BY <1>0, <2>2 DEF Idle
  <2>. QED
    BY <2>1, <2>3 DEF RenderedInv, ListAlreadyRendered
<1>12. CASE Install \/ OpenMenu \/ Rebuild \/ EditList
            \/ (\E on \in BOOLEAN : SetFeatures(on) \/ SetEnabled(on))
  <2>1. Idle' /\ fresh' = FALSE
    BY <1>12 DEF Install, OpenMenu, Rebuild, EditList, SetFeatures, SetEnabled, Idle
  <2>. QED
    BY <2>1 DEF RenderedInv
<1>13. CASE ForceReprocess
  <2>1. fresh' = FALSE /\ UNCHANGED <<calls, content, unprocessed, suspended>>
    BY <1>13 DEF ForceReprocess
  <2>. QED
    BY <2>1 DEF RenderedInv, ListAlreadyRendered, Idle, InPhase, Top
<1>14. CASE UNCHANGED vars
  BY <1>14 DEF vars, RenderedInv, ListAlreadyRendered, Idle, InPhase, Top, WouldSkip, Fp
<1>. QED
  BY <1>2, <1>3, <1>5, <1>6, <1>7, <1>8, <1>9, <1>10, <1>11, <1>12, <1>13, <1>14 DEF Next

\* Right after a pass that completed, with nothing changed since, the next
\* call is skipped.
THEOREM RedundantCallsSkipped == ProcessorsKeepFlags => (Spec => []RedundantIsSkipped)
<1> SUFFICES ASSUME ProcessorsKeepFlags PROVE Spec => []RedundantIsSkipped
  OBVIOUS
<1>1. Init => RenderedInv
  BY DEF Init, RenderedInv, Idle
<1>2. RenderedInv => RedundantIsSkipped
  BY DEF RenderedInv, RedundantIsSkipped
<1>3. MemoInv /\ RenderedInv /\ [Next]_vars => RenderedInv'
  BY RenderedStep
<1>. QED
  BY <1>1, <1>2, <1>3, MemoInvariant, PTL DEF Spec

=============================================================================
