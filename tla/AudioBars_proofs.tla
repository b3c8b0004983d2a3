--------------------------- MODULE AudioBars_proofs ---------------------------
(* Proofs about AudioBars: the invariant of the two threads that share a    *)
(* bar, and what follows from it, for any music, gravity and clipping.      *)
EXTENDS AudioBars, TLAPS

\* What a column is limited to, and what a time is clipped to.
LEMMA LimitLemma ==
    /\ \A n \in Loudness : limit \in Limits => Limited(n) \in Int
    /\ \A t \in Nat : Clip(t) \in 0 .. TimeMax
  <1>1. \A n \in Loudness : limit \in Limits => Limited(n) \in Int
    <2> SUFFICES ASSUME NEW n \in Loudness, limit \in Limits PROVE Limited(n) \in Int
      OBVIOUS
    <2>1. n \in Int /\ limit \in Int
      BY LoudnessAssumption
    <2> QED
      BY <2>1 DEF Limited
  <1>2. \A t \in Nat : Clip(t) \in 0 .. TimeMax
    BY TimeAssumption DEF Clip
  <1> QED
    BY <1>1, <1>2

\* The arrays come from calloc: all is zero and no thread is under way.
LEMMA InitLemma == Init => BarInv
  <1> SUFFICES ASSUME Init PROVE BarInv
    OBVIOUS
  <1>1. TypeOK
    <2>1. refreshes \in BOOLEAN /\ dirty \in BOOLEAN /\ onMain \in BOOLEAN
      BY Zenon DEF Init
    <2>2. speed \in 0 .. MaxSpeed /\ time \in 0 .. TimeMax + 1
      BY TimeAssumption, BoundAssumption DEF Init
    <2> QED
      BY <2>1, <2>2 DEF Init, TypeOK
  <1> QED
    BY <1>1, TimeAssumption DEF Init, BarInv

\* A step of the display link keeps the invariant.
LEMMA LinkLemma == BarInv /\ Link => BarInv'
  <1> SUFFICES ASSUME BarInv, Link PROVE BarInv'
    OBVIOUS
  <1> USE LoudnessAssumption, TimeAssumption, BoundAssumption, GravityAssumption
      DEF TypeOK, BarInv, barVars, tapVars, viewVars, appVars
  <1>1. CASE ReadTime
    BY <1>1 DEF ReadTime, Load
  <1>2. CASE AddDelay
    BY <1>2 DEF AddDelay, Store
  <1>3. CASE RereadTime
    BY <1>3 DEF RereadTime, Load
  <1>4. CASE ClipTime
    <2>1. time' \in 0 .. TimeMax
      BY <1>4, LimitLemma DEF ClipTime
    <2> QED
      BY <1>4, <2>1 DEF ClipTime, Store
  <1>5. CASE Gain
    <2>1. time * 2 * HalfG \in Nat
      OBVIOUS
    <2> QED
      BY <1>5, <2>1 DEF Gain, Load
  <1>6. CASE ReadSpeed
    BY <1>6 DEF ReadSpeed, Load
  <1>7. CASE AddSpeed
    BY <1>7 DEF AddSpeed, Store
  <1>8. CASE Square
    <2>1. time * time * HalfG \in Nat
      OBVIOUS
    <2> QED
      BY <1>8, <2>1 DEF Square
  <1>9. CASE ReadFall
    BY <1>9 DEF ReadFall, Load
  <1>10. CASE AddFall
    <2>1. old * time \in Nat
      BY <1>10 DEF AddFall
    <2> QED
      BY <1>10, <2>1 DEF AddFall, Store, Fall
  <1>11. CASE ReadHeight
    BY <1>11 DEF ReadHeight, Load
  <1>12. CASE Lower
    BY <1>12 DEF Lower, Store, Refreshes
  <1> QED
    BY <1>1, <1>2, <1>3, <1>4, <1>5, <1>6, <1>7, <1>8, <1>9, <1>10, <1>11, <1>12 DEF Link

\* A step of the tap's thread keeps the invariant.
LEMMA TapLemma == BarInv /\ (ComputeColumn \/ Tap) => BarInv'
  <1> SUFFICES ASSUME BarInv, ComputeColumn \/ Tap PROVE BarInv'
    OBVIOUS
  <1> USE TimeAssumption, BoundAssumption
      DEF TypeOK, BarInv, barVars, linkVars, viewVars, appVars
  <1>1. CASE ComputeColumn
    <2>1. column' \in Int
      BY <1>1, LimitLemma DEF ComputeColumn
    <2> QED
      BY <1>1, <2>1 DEF ComputeColumn
  <1>2. CASE TestHeight
    BY <1>2 DEF TestHeight
  <1>3. CASE Raise
    BY <1>3 DEF Raise
  <1>4. CASE StopFalling
    BY <1>4 DEF StopFalling
  <1>5. CASE RestartTime
    BY <1>5 DEF RestartTime
  <1> QED
    BY <1>1, <1>2, <1>3, <1>4, <1>5 DEF Tap

\* A step of the main thread keeps the invariant.
LEMMA MainLemma == BarInv /\ (View \/ Rotate \/ Look) => BarInv'
  <1> SUFFICES ASSUME BarInv, View \/ Rotate \/ Look PROVE BarInv'
    OBVIOUS
  <1> USE DEF TypeOK, BarInv, barVars, linkVars, tapVars, viewVars, appVars
  <1>1. CASE Refresh
    <2>1. refreshes' \in BOOLEAN /\ dirty' \in BOOLEAN
      BY <1>1, Zenon DEF Refresh
    <2>2. UNCHANGED <<barVars, linkVars, tapVars, drawn, appVars>>
      BY <1>1, Zenon DEF Refresh
    <2> QED
      BY <2>1, <2>2
  <1>2. CASE Draw
    <2>1. drawn' = Max1(height) /\ dirty' \in BOOLEAN
          /\ UNCHANGED <<barVars, linkVars, tapVars, refreshes, appVars>>
      BY <1>2, Zenon DEF Draw
    <2>2. drawn' \in Nat \ {0}
      BY <2>1 DEF Max1
    <2> QED
      BY <2>1, <2>2
  <1>3. CASE Rotate
    <2>1. limit' \in Limits
      BY <1>3 DEF Rotate
    <2>2. UNCHANGED <<barVars, linkVars, tapVars, viewVars, onMain, screen>>
      BY <1>3 DEF Rotate
    <2> QED
      BY <2>1, <2>2
  <1>4. CASE Look
    BY <1>4 DEF Look
  <1> QED
    BY <1>1, <1>2, <1>3, <1>4 DEF View

\* Every step keeps the invariant.
LEMMA StepLemma == BarInv /\ [Next]_vars => BarInv'
  <1> SUFFICES ASSUME BarInv, [Next]_vars PROVE BarInv'
    OBVIOUS
  <1>1. CASE Next
    BY <1>1, LinkLemma, TapLemma, MainLemma DEF Next
  <1>2. CASE UNCHANGED vars
    BY <1>2 DEF vars, barVars, linkVars, tapVars, viewVars, appVars, TypeOK, BarInv
  <1> QED
    BY <1>1, <1>2

\* What the steps of the two threads leave each other holds in every reachable state
\* (DPAudioService.m 119-143, 184-195).
THEOREM BarsCorrect == Spec => []BarInv
  BY InitLemma, StepLemma, PTL DEF Spec

\* Only the tap's thread ever raises a bar, even though the display link writes back
\* what it read before (DPAudioService.m 139-140, 190-194).
THEOREM OnlyTheTapRaises == Spec => OnlySoundRaises
  <1>1. BarInv /\ [Next]_vars => [height' > height => tap = "raise"]_vars
    <2> SUFFICES ASSUME BarInv, Next, height' > height PROVE tap = "raise"
      BY DEF vars, barVars
    <2> USE DEF TypeOK, BarInv, barVars
    <2>1. CASE Link
      <3>1. CASE Lower
        BY <3>1 DEF Lower
      <3>2. CASE ~Lower
        <4>1. UNCHANGED height
          BY <2>1, <3>2 DEF Link, ReadTime, AddDelay, RereadTime, ClipTime, Gain, ReadSpeed,
                            AddSpeed, Square, ReadFall, AddFall, ReadHeight
        <4> QED
          BY <4>1
      <3> QED
        BY <3>1, <3>2
    <2>2. CASE Tap
      BY <2>2 DEF Tap, TestHeight, Raise, StopFalling, RestartTime
    <2>3. CASE ComputeColumn \/ View \/ Rotate \/ Look
      BY <2>3 DEF ComputeColumn, View, Refresh, Draw, Rotate, Look
    <2> QED
      BY <2>1, <2>2, <2>3 DEF Next
  <1> QED
    BY InitLemma, StepLemma, <1>1, PTL DEF Spec, OnlySoundRaises
=============================================================================
