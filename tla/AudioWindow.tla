----------------------------- MODULE AudioWindow -----------------------------
(****************************************************************************)
(* From the audio tap to a spectrum: the callbacks of LMCurrentPlayerManager*)
(* and of the view controller, the getter of DPMainEqualizerView that makes *)
(* the DPAudioService when first asked, and setSampleData:length:, which    *)
(* collects samples until there are enough for a transform.                 *)
(*                                                                          *)
(* The tap's thread prepares a track and hands over its samples; the main   *)
(* thread draws and lets the user leave, come back and change visualizer.   *)
(* A sample is its place in what the tap hears, from 1; a place is left out *)
(* between two tracks.  What the transform computes is left to vDSP.        *)
(* Nothing in the code holds a callback to the size of the buffer, or a rate*)
(* to the frequencies of the settings: the model does not either.           *)
(****************************************************************************)
EXTENDS Integers, Sequences

CONSTANTS
    Capacity,      \* kMaxFrames, _bufferCapacity
    Lengths,       \* the samples that one callback may bring
    Rates,         \* the sample rates of tracks
    SessionRate,   \* the sample rate of AVAudioSession
    MinFrequency, MaxFrequency,
    NumOfBins,
    MaxSample      \* bound: samples heard

ASSUME CapacityAssumption == Capacity \in Nat \ {0} /\ Lengths \subseteq Nat
ASSUME BinAssumption == NumOfBins \in Nat \ {0} /\ MaxSample \in Nat
ASSUME FrequencyAssumption ==
    /\ MinFrequency \in Nat /\ MaxFrequency \in Nat /\ MinFrequency <= MaxFrequency
    /\ \A r \in Rates \union {SessionRate} : r \in Nat /\ r > 0

VARIABLES
    heard,          \* external: the place of the last sample of the track
    rate,           \* external: the track's sample rate, 0 before there is one
    services,       \* every DPAudioService made, in order
    audioService,   \* _audioService: its number, 0 for nil
    tap,            \* the tap's thread: where it is, the service it made, its job
    main,           \* the main thread in drawRect: the same
    shouldUpdate,   \* shouldUpdateVisualizer
    histogram,      \* visualType is Histogram
    window,         \* history: the samples last transformed
    before,         \* history: the last one transformed before them
    spectrum,       \* history: how the last spectrum was read
    skipped,        \* history: samples were missed while some waited in the buffer
    whole           \* history: none were in the last window

vars == <<heard, rate, services, audioService, tap, main, shouldUpdate, histogram,
          window, before, spectrum, skipped, whole>>
history == <<window, before, spectrum, skipped, whole>>

----------------------------------------------------------------------------
(* initUniqueInstanceWith:.  What malloc returns is no sample (0).          *)
NewService ==
    [rate |-> SessionRate, index |-> 0, dataBuffer |-> [n \in 0 .. Capacity - 1 |-> 0],
     timeHeights |-> NumOfBins]

\* What an in-place transform leaves in a place of the buffer: a value in decibels as far
\* as the conversion goes, which is as many places as the callback brought samples.
Decibel == -1
Raw == -2
Converted(frames) == [n \in 0 .. Capacity - 1 |-> IF n < frames THEN Decibel ELSE Raw]

\* memcpy of the first `count' of the samples from `first' on to _index
Copy_After(s, first, count) ==                   \* mutant: one place too far
    [n \in 0 .. Capacity - 1 |->
        IF n > s.index /\ n <= s.index + count THEN first + (n - s.index) - 1 ELSE s.dataBuffer[n]]
Copy(s, first, count) ==
    [n \in 0 .. Capacity - 1 |->
        IF n >= s.index /\ n < s.index + count THEN first + (n - s.index) ELSE s.dataBuffer[n]]

Read(s) == Capacity - s.index

Enough(s, frames) == Read(s) <= frames           \* the else of read > inNumberFrames

\* _index after a transform
Restart_Left(frames, read) == (frames - read) % Capacity   \* mutant: room left for the rest
Restart(frames, read) == 0

\* heightsByTime: one more at the end, the first dropped when there are too many
Shift_Kept(count) == count + 1                   \* mutant: none dropped
Shift(count) == IF count + 1 > NumOfBins THEN count ELSE count + 1

\* The place of a frequency among the values of the transform, two for each of its points
FrequencyIndex(f, r) == (2 * f * Capacity) \div r

PointsPerColumn(r) ==
    (FrequencyIndex(MaxFrequency, r) - FrequencyIndex(MinFrequency, r)) \div NumOfBins

\* The values averaged are those from `low' up to but not `high', in the buffer or behind it.
Columns(r, buffer) ==
    LET low == FrequencyIndex(MinFrequency, r)
        high == low + NumOfBins * PointsPerColumn(r)
    IN  [low |-> low, high |-> high, rate |-> rate, frames |-> tap.frames,
         raw |-> {n \in low .. high - 1 : n < Capacity /\ buffer[n] = Raw}]

----------------------------------------------------------------------------
Idle == [at |-> "idle", made |-> 0, job |-> "none", first |-> 0, frames |-> 0]

Init ==
    /\ heard = 0 /\ rate = 0
    /\ services = << >> /\ audioService = 0
    /\ tap = Idle /\ main = Idle
    /\ shouldUpdate = TRUE /\ histogram \in BOOLEAN
    /\ window = << >> /\ before = 0 /\ spectrum = {} /\ skipped = FALSE /\ whole = TRUE

Waiting == audioService # 0 /\ services[audioService].index > 0
Skip == skipped' = (skipped \/ Waiting) /\ UNCHANGED <<window, before, spectrum, whole>>

\* _prepareAudioProcessing, once for a track: its callback wants the audio service.
\* The end of the track before goes unnumbered, so that no two tracks look like one.
Prepare ==
    /\ tap.at = "idle" /\ heard < MaxSample
    /\ rate' \in Rates /\ heard' = heard + 1
    /\ tap' = [Idle EXCEPT !.at = "test", !.job = "prepare"]
    /\ Skip
    /\ UNCHANGED <<services, audioService, main, shouldUpdate, histogram>>

\* _processAudioProcessing.  Whatever is shown, the source may fail and the samples not
\* come; the render callback drops them too unless the histogram is to be updated.
ProcessNothing(frames) ==
    /\ tap.at = "idle" /\ rate # 0 /\ heard + frames <= MaxSample
    /\ heard' = heard + frames
    /\ Skip
    /\ UNCHANGED <<rate, services, audioService, tap, main, shouldUpdate, histogram>>

Process(frames) ==
    /\ tap.at = "idle" /\ rate # 0 /\ heard + frames <= MaxSample
    /\ shouldUpdate /\ histogram
    /\ heard' = heard + frames
    /\ tap' = [Idle EXCEPT !.at = "test", !.job = "process", !.first = heard + 1, !.frames = frames]
    /\ UNCHANGED <<rate, services, audioService, main, shouldUpdate, histogram, history>>

----------------------------------------------------------------------------
(* The getter audioService, on either thread: test, make, assign; then the  *)
(* ivar is read once more for the caller.                                   *)

Made(thread) == [thread EXCEPT !.at = "assign", !.made = Len(services) + 1]

TapTests ==
    /\ tap.at = "test"
    /\ tap' = [tap EXCEPT !.at = IF audioService = 0 THEN "make" ELSE "use"]
    /\ UNCHANGED <<heard, rate, services, audioService, main, shouldUpdate, histogram, history>>

\* drawRect: of a view that is shown; one that finds a service changes nothing here.
MainTests ==
    /\ main.at = "idle" /\ histogram /\ audioService = 0
    /\ main' = [main EXCEPT !.at = "make"]
    /\ UNCHANGED <<heard, rate, services, audioService, tap, shouldUpdate, histogram, history>>

Make ==
    /\ \/ tap.at = "make" /\ tap' = Made(tap) /\ UNCHANGED main
       \/ main.at = "make" /\ main' = Made(main) /\ UNCHANGED tap
    /\ services' = Append(services, NewService)
    /\ UNCHANGED <<heard, rate, audioService, shouldUpdate, histogram, history>>

Assign ==
    /\ \/ tap.at = "assign" /\ audioService' = tap.made
          /\ tap' = [tap EXCEPT !.at = "use"] /\ UNCHANGED main
       \/ main.at = "assign" /\ audioService' = main.made
          /\ main' = Idle /\ UNCHANGED tap
    /\ UNCHANGED <<heard, rate, services, shouldUpdate, histogram, history>>

----------------------------------------------------------------------------
\* The metadata callback sets the service's sampleRate.
SampleRate_Once(s) == IF s.index = 0 THEN rate ELSE s.rate   \* mutant: not while samples wait
SampleRate(s) == rate

SetSampleRate ==
    /\ tap.at = "use" /\ tap.job = "prepare"
    /\ services' = [services EXCEPT ![audioService].rate = SampleRate(services[audioService])]
    /\ tap' = Idle
    /\ UNCHANGED <<heard, rate, audioService, main, shouldUpdate, histogram, history>>

\* setSampleData:length: while there is room for more
Collect ==
    /\ tap.at = "use" /\ tap.job = "process"
    /\ LET s == services[audioService]
       IN  /\ ~Enough(s, tap.frames)
           /\ services' = [services EXCEPT
                  ![audioService].dataBuffer = Copy(s, tap.first, tap.frames),
                  ![audioService].index = s.index + tap.frames]
    /\ tap' = Idle
    /\ UNCHANGED <<heard, rate, audioService, main, shouldUpdate, histogram, history>>

\* The buffer is full, a window: what is left over of the samples is dropped.
Fill(s) ==
    /\ window' = [n \in 1 .. Capacity |-> Copy(s, tap.first, Read(s))[n - 1]]
    /\ before' = IF window = << >> THEN 0 ELSE window[Capacity]
    /\ whole' = ~skipped /\ skipped' = FALSE

\* It is transformed in place, converted and cut into columns.
Transform ==
    /\ tap.at = "use" /\ tap.job = "process" /\ tap.frames <= Capacity
    /\ LET s == services[audioService]
       IN  /\ Enough(s, tap.frames) /\ Fill(s)
           /\ services' = [services EXCEPT
                  ![audioService].dataBuffer = Converted(tap.frames),
                  ![audioService].index = Restart(tap.frames, Read(s)),
                  ![audioService].timeHeights = Shift(s.timeHeights)]
           /\ spectrum' = {Columns(s.rate, Converted(tap.frames))}
    /\ tap' = Idle
    /\ UNCHANGED <<heard, rate, audioService, main, shouldUpdate, histogram>>

\* A callback longer than the buffer: the conversion writes behind it.  What the tap's
\* thread does with that memory is not followed further.
Overrun ==
    /\ tap.at = "use" /\ tap.job = "process" /\ tap.frames > Capacity
    /\ LET s == services[audioService]
       IN  /\ Fill(s)
           /\ services' = [services EXCEPT
                  ![audioService].dataBuffer = Converted(0),
                  ![audioService].index = Restart(tap.frames, Read(s))]
    /\ tap' = [Idle EXCEPT !.at = "overrun"]
    /\ UNCHANGED <<heard, rate, audioService, main, shouldUpdate, histogram, spectrum>>

\* DidEnterBackground, WillEnterForeground and a swipe, on the main thread
EnterOrLeave ==
    /\ main.at = "idle" /\ shouldUpdate' = ~shouldUpdate
    /\ UNCHANGED <<heard, rate, services, audioService, tap, main, histogram, history>>

SwitchVisual ==
    /\ main.at = "idle" /\ histogram' = ~histogram
    /\ UNCHANGED <<heard, rate, services, audioService, tap, main, shouldUpdate, history>>

Next ==
    \/ Prepare
    \/ \E frames \in Lengths : ProcessNothing(frames) \/ Process(frames)
    \/ TapTests \/ MainTests \/ Make \/ Assign
    \/ SetSampleRate \/ Collect \/ Transform \/ Overrun
    \/ EnterOrLeave \/ SwitchVisual

Spec == Init /\ [][Next]_vars

----------------------------------------------------------------------------
(* Properties.                                                              *)

Contents == {Raw, Decibel} \union 0 .. MaxSample
Places == {"idle", "test", "make", "assign", "use", "overrun"}
Service ==
    [rate : Rates \union {SessionRate}, index : 0 .. Capacity - 1,
     dataBuffer : [0 .. Capacity - 1 -> Contents],
     timeHeights : {NumOfBins}]

\* The ivars have their types: _index leaves room for a sample, heightsByTime keeps its
\* length, and of each thread at most one service is made (DPAudioService.m 147-203).
TypeOK ==
    /\ heard \in 0 .. MaxSample /\ rate \in Rates \union {0}
    /\ services \in Seq(Service) /\ Len(services) <= 2
    /\ audioService \in 0 .. Len(services)
    /\ tap \in [at : Places, made : 0 .. 2, job : {"none", "prepare", "process"},
                first : 0 .. MaxSample + 1, frames : {0} \union Lengths]
    /\ main \in [at : Places, made : 0 .. 2, job : {"none"}, first : {0}, frames : {0}]
    /\ skipped \in BOOLEAN /\ whole \in BOOLEAN
    /\ window = << >> \/ window \in [1 .. Capacity -> Contents]
    /\ shouldUpdate \in BOOLEAN /\ histogram \in BOOLEAN

\* What is transformed was heard, in that order, and after all that was transformed
\* before it: no place holds what malloc or the last transform left there, and no sample
\* is in two windows, whichever service collected them (DPAudioService.m 150-164).
WindowInOrder ==
    window # << >> =>
        /\ window[1] > before
        /\ \A n \in 1 .. Capacity - 1 : window[n] < window[n + 1]

\* A window has no hole but where the program missed samples while others waited: in the
\* background, under another visualizer, without a source, between two tracks.
\* Leftovers are dropped between windows only.
HolesAreMissed ==
    (window # << >> /\ whole) => \A n \in 1 .. Capacity - 1 : window[n + 1] = window[n] + 1

\* What the columns show is between the frequencies of the settings, in the track that
\* is heard, unless the tap's thread and a drawing both found no service and both made
\* one (DPMainEqualizerView.m 42).  It is read behind the buffer only from a track whose
\* rate does not reach those frequencies, and a value that was not converted only after
\* a callback shorter than the columns go (DPAudioService.m 168-184).
BandIsHeard ==
    Len(services) < 2 =>
        \A c \in spectrum :
            /\ (c.low + 1) * c.rate > 2 * Capacity * MinFrequency
            /\ c.high * c.rate <= 2 * Capacity * MaxFrequency
            /\ c.rate >= 2 * MaxFrequency => c.high <= Capacity
            /\ \A n \in c.raw : c.frames <= n

----------------------------------------------------------------------------
(* The inductive invariant.                                                 *)

\* The last sample transformed, and the last that a service was given or has missed.
Last == IF window = << >> THEN 0 ELSE window[Capacity]
Delivered == IF tap.job = "process" THEN tap.first - 1 ELSE heard

\* The tap hands over what it heard last, and to a service that is there: the first
\* track's preparation has seen to that.
TapInv ==
    /\ tap.at \in {"idle", "overrun"} <=> tap.job = "none"
    /\ tap.job = "process" =>
        /\ tap.frames \in Lengths /\ tap.first > 0 /\ tap.first + tap.frames - 1 = heard
        /\ tap.at \in {"test", "use"}
    /\ tap.job # "none" => rate # 0
    /\ audioService = 0 =>
        tap.at # "use" /\ (rate # 0 => tap.job = "prepare") /\ window = << >> /\ spectrum = {}
    /\ main.at \in {"idle", "make", "assign"}

AreAt(label) == (IF tap.at = label THEN 1 ELSE 0) + (IF main.at = label THEN 1 ELSE 0)

\* A service that waits to be assigned is empty and nobody else's.
IsNew(made) == made \in 1 .. Len(services) /\ made # audioService /\ services[made].index = 0

\* Only a thread that found no service makes one, so that there are never three.
ServiceInv ==
    /\ IF audioService = 0 THEN Len(services) = AreAt("assign")
                           ELSE Len(services) + AreAt("make") <= 2
    /\ tap.at = "assign" => IsNew(tap.made)
    /\ main.at = "assign" => IsNew(main.made)
    /\ tap.at = "assign" /\ main.at = "assign" => tap.made # main.made

\* What waits in the buffer was heard after the last window, in that order, and without
\* a hole up to what was delivered last, if nothing was missed.
BufferInv ==
    /\ Last <= Delivered
    /\ audioService # 0 =>
        LET s == services[audioService]
        IN  /\ \A n \in 0 .. s.index - 1 : s.dataBuffer[n] > Last /\ s.dataBuffer[n] <= Delivered
            /\ \A n \in 0 .. s.index - 2 : s.dataBuffer[n] < s.dataBuffer[n + 1]
            /\ ~skipped => \A n \in 0 .. s.index - 1 :
                              s.dataBuffer[n] = Delivered - s.index + n + 1

\* An only service knows the rate of the track, once that is prepared.
RateInv ==
    (audioService # 0 /\ Len(services) < 2 /\ rate # 0 /\ tap.job # "prepare")
        => services[audioService].rate = rate

WindowInv ==
    TypeOK /\ TapInv /\ ServiceInv /\ BufferInv /\ RateInv
    /\ WindowInOrder /\ HolesAreMissed /\ BandIsHeard
=============================================================================
