-------------------------- MODULE AudioWindow_proofs --------------------------
(****************************************************************************)
(* The windows of samples and their columns, for any capacity, and for      *)
(* callbacks, rates and frequencies that need not fit it.                   *)
(****************************************************************************)
EXTENDS AudioWindow, TLAPS

\* A service of the list is changed.
LEMMA PutService ==
    ASSUME NEW S, NEW q \in Seq(S), NEW i \in 1 .. Len(q), NEW x \in S
    PROVE  /\ [q EXCEPT ![i] = x] \in Seq(S)
           /\ Len([q EXCEPT ![i] = x]) = Len(q)
           /\ [q EXCEPT ![i] = x][i] = x
           /\ \A j \in 1 .. Len(q) : j # i => [q EXCEPT ![i] = x][j] = q[j]
OBVIOUS

\* One is added.
LEMMA AddService ==
    ASSUME NEW S, NEW q \in Seq(S), NEW x \in S
    PROVE  /\ Append(q, x) \in Seq(S)
           /\ Len(Append(q, x)) = Len(q) + 1
           /\ Append(q, x)[Len(q) + 1] = x
           /\ \A j \in 1 .. Len(q) : Append(q, x)[j] = q[j]
OBVIOUS

LEMMA NewServiceType == NewService \in Service
<1>1. [n \in 0 .. Capacity - 1 |-> 0] \in [0 .. Capacity - 1 -> Contents]
  BY BinAssumption, CapacityAssumption DEF Contents
<1>2. 0 \in 0 .. Capacity - 1
  BY CapacityAssumption
<1> QED
  BY <1>1, <1>2 DEF NewService, Service, Contents

\* A window is not the empty one.
LEMMA NotEmpty == ASSUME NEW f \in [1 .. Capacity -> Int] PROVE f # << >>
<1>1. 1 \in DOMAIN f
  BY CapacityAssumption
<1>2. DOMAIN << >> = {}
  OBVIOUS
<1> QED
  BY <1>1, <1>2

\* Nothing is there to begin with.
LEMMA InitLemma == Init => WindowInv
<1> SUFFICES ASSUME Init PROVE WindowInv
  OBVIOUS
<1> USE DEF Init
<1>1. TypeOK
  <2>1. services \in Seq(Service) /\ Len(services) = 0
    OBVIOUS
  <2>2. /\ tap \in [at : Places, made : 0 .. 2, job : {"none", "prepare", "process"},
                    first : 0 .. MaxSample + 1, frames : {0} \union Lengths]
        /\ main \in [at : Places, made : 0 .. 2, job : {"none"}, first : {0}, frames : {0}]
    BY BinAssumption DEF Idle, Places
  <2>3. heard \in 0 .. MaxSample /\ rate \in Rates \union {0} /\ audioService = 0
    BY BinAssumption
  <2>4. skipped \in BOOLEAN /\ whole \in BOOLEAN /\ window = << >>
        /\ shouldUpdate \in BOOLEAN /\ histogram \in BOOLEAN
    BY Zenon
  <2> HIDE DEF Init
  <2> QED
    BY <2>1, <2>2, <2>3, <2>4 DEF TypeOK
<1>2. TapInv
  BY DEF TapInv, Idle
<1>3. ServiceInv
  BY DEF ServiceInv, AreAt, Idle
<1>4. BufferInv
  BY DEF BufferInv, Last, Delivered, Idle
<1> QED
  BY <1>1, <1>2, <1>3, <1>4
     DEF WindowInv, RateInv, WindowInOrder, HolesAreMissed, BandIsHeard

\* What the tap hands over, and the service it hands it to.
LEMMA Handed ==
    ASSUME TypeOK, TapInv, tap.at = "use"
    PROVE  /\ audioService \in 1 .. Len(services) /\ services[audioService] \in Service
           /\ tap.job = "process" =>
               /\ tap.frames \in Nat /\ tap.first \in 1 .. MaxSample + 1
               /\ tap.first + tap.frames - 1 = heard
<1>1. audioService \in 1 .. Len(services)
  BY DEF TypeOK, TapInv
<1>2. services[audioService] \in Service
  BY <1>1 DEF TypeOK
<1>3. ASSUME tap.job = "process"
      PROVE  /\ tap.frames \in Nat /\ tap.first \in 1 .. MaxSample + 1
             /\ tap.first + tap.frames - 1 = heard
  <2>1. tap.frames \in Nat /\ tap.first > 0 /\ tap.first + tap.frames - 1 = heard
    BY <1>3, CapacityAssumption DEF TapInv
  <2>2. tap.first \in 0 .. MaxSample + 1
    BY DEF TypeOK
  <2> QED
    BY <2>1, <2>2, BinAssumption
<1> QED
  BY <1>1, <1>2, <1>3

\* The buffer with samples copied in.
LEMMA CopyLemma ==
    ASSUME NEW s \in Service, NEW first \in 1 .. MaxSample + 1, NEW count \in 0 .. Capacity,
           s.index + count <= Capacity, first + count - 1 <= MaxSample
    PROVE  /\ Copy(s, first, count) \in [0 .. Capacity - 1 -> Contents]
           /\ \A n \in 0 .. s.index - 1 : Copy(s, first, count)[n] = s.dataBuffer[n]
           /\ \A n \in s.index .. s.index + count - 1 :
                  Copy(s, first, count)[n] = first + (n - s.index)
<1>1. s.index \in 0 .. Capacity - 1
      /\ s.dataBuffer \in [0 .. Capacity - 1 -> Contents]
  BY DEF Service
<1>2. \A n \in s.index .. s.index + count - 1 : first + (n - s.index) \in Contents
  BY <1>1, BinAssumption, CapacityAssumption DEF Contents
<1> DEFINE b == Copy(s, first, count)
<1>3. \A n \in 0 .. Capacity - 1 :
          b[n] = IF n >= s.index /\ n < s.index + count THEN first + (n - s.index)
                 ELSE s.dataBuffer[n]
  BY DEF Copy
<1>4. DOMAIN b = 0 .. Capacity - 1 /\ b = [n \in 0 .. Capacity - 1 |-> b[n]]
  BY DEF Copy
<1> HIDE DEF b
<1>5. \A n \in 0 .. Capacity - 1 : b[n] \in Contents
  <2> SUFFICES ASSUME NEW n \in 0 .. Capacity - 1
               PROVE  b[n] \in Contents
    OBVIOUS
  <2>1. CASE n >= s.index /\ n < s.index + count
    BY <1>1, <1>2, <1>3, <2>1, CapacityAssumption
  <2>2. CASE ~(n >= s.index /\ n < s.index + count)
    BY <1>1, <1>3, <2>2
  <2> QED
    BY <2>1, <2>2
<1>6. b \in [0 .. Capacity - 1 -> Contents]
  BY <1>4, <1>5
<1>7. ASSUME NEW n \in 0 .. s.index - 1
      PROVE  b[n] = s.dataBuffer[n]
  <2>1. n \in 0 .. Capacity - 1 /\ ~(n >= s.index)
    BY <1>1, CapacityAssumption
  <2> QED
    BY <1>3, <2>1
<1>8. ASSUME NEW n \in s.index .. s.index + count - 1
      PROVE  b[n] = first + (n - s.index)
  <2>1. n \in 0 .. Capacity - 1 /\ n >= s.index /\ n < s.index + count
    BY <1>1, CapacityAssumption
  <2> QED
    BY <1>3, <2>1
<1> QED
  BY <1>6, <1>7, <1>8 DEF b

\* A callback's samples are taken into the buffer.
LEMMA CollectLemma ==
    ASSUME TypeOK, TapInv, Collect
    PROVE  LET s == services[audioService]
               t == services'[audioService]
           IN  /\ t \in Service /\ services' \in Seq(Service) /\ Len(services') = Len(services)
               /\ audioService \in 1 .. Len(services) /\ s \in Service
               /\ \A j \in 1 .. Len(services) : j # audioService => services'[j] = services[j]
               /\ t.index = s.index + tap.frames /\ t.rate = s.rate
               /\ \A n \in 0 .. s.index - 1 : t.dataBuffer[n] = s.dataBuffer[n]
               /\ \A n \in s.index .. t.index - 1 : t.dataBuffer[n] = tap.first + (n - s.index)
               /\ tap.frames \in Nat /\ tap.first \in 1 .. MaxSample + 1
               /\ tap.first + tap.frames - 1 = heard
<1> DEFINE s == services[audioService]
           b == Copy(s, tap.first, tap.frames)
           t == [s EXCEPT !.dataBuffer = b, !.index = s.index + tap.frames]
<1>1. /\ audioService \in 1 .. Len(services) /\ s \in Service
      /\ tap.frames \in Nat /\ tap.first \in 1 .. MaxSample + 1
      /\ tap.first + tap.frames - 1 = heard
  BY Handed DEF Collect
<1>2. s.index + tap.frames < Capacity /\ s.index \in Nat
  BY <1>1, CapacityAssumption DEF Collect, Enough, Read, Service
<1>3. /\ b \in [0 .. Capacity - 1 -> Contents]
      /\ \A n \in 0 .. s.index - 1 : b[n] = s.dataBuffer[n]
      /\ \A n \in s.index .. s.index + tap.frames - 1 : b[n] = tap.first + (n - s.index)
  <2>1. s.index + tap.frames <= Capacity /\ tap.first + tap.frames - 1 <= MaxSample
        /\ tap.frames \in 0 .. Capacity
    BY <1>1, <1>2, CapacityAssumption, BinAssumption DEF TypeOK
  <2> HIDE DEF s
  <2> QED
    BY <1>1, <2>1, CopyLemma
<1>4. t \in Service
  <2>1. s.index + tap.frames \in 0 .. Capacity - 1
    BY <1>1, <1>2, CapacityAssumption
  <2> QED
    BY <1>1, <1>3, <2>1 DEF Service
<1>5. t.dataBuffer = b /\ t.index = s.index + tap.frames /\ t.rate = s.rate
  BY <1>1 DEF Service
<1>6. services' = [services EXCEPT ![audioService] = t]
  <2>1. services' = [services EXCEPT ![audioService].dataBuffer = b,
                                     ![audioService].index = s.index + tap.frames]
    BY DEF Collect
  <2> QED
    BY <2>1, <1>1 DEF TypeOK
<1>7. /\ services' \in Seq(Service) /\ Len(services') = Len(services)
      /\ services'[audioService] = t
      /\ \A j \in 1 .. Len(services) : j # audioService => services'[j] = services[j]
  <2>1. services \in Seq(Service)
    BY DEF TypeOK
  <2> HIDE DEF t
  <2> QED
    BY <1>1, <1>4, <1>6, <2>1, PutService
<1> QED
  BY <1>1, <1>2, <1>3, <1>4, <1>5, <1>7

\* The buffer that is full: what waited in it, then what the callback brought.
LEMMA FillLemma ==
    ASSUME TypeOK, TapInv, tap.at = "use", tap.job = "process",
           Enough(services[audioService], tap.frames), Fill(services[audioService])
    PROVE  LET s == services[audioService]
           IN  /\ audioService \in 1 .. Len(services) /\ s \in Service
               /\ window' \in [1 .. Capacity -> Contents]
               /\ \A n \in 1 .. s.index : window'[n] = s.dataBuffer[n - 1]
               /\ \A n \in s.index + 1 .. Capacity :
                      window'[n] = tap.first + (n - 1 - s.index)
               /\ Capacity - s.index <= tap.frames
               /\ tap.frames \in Nat /\ tap.first \in 1 .. MaxSample + 1
               /\ tap.first + tap.frames - 1 = heard
<1> DEFINE s == services[audioService]
           b == Copy(s, tap.first, Read(s))
<1>1. /\ audioService \in 1 .. Len(services) /\ s \in Service
      /\ tap.frames \in Nat /\ tap.first \in 1 .. MaxSample + 1
      /\ tap.first + tap.frames - 1 = heard
  BY Handed
<1>2. s.index \in 0 .. Capacity - 1 /\ Read(s) = Capacity - s.index
      /\ Read(s) \in 1 .. Capacity /\ Read(s) <= tap.frames
  BY <1>1, CapacityAssumption DEF Enough, Read, Service
<1>3. /\ b \in [0 .. Capacity - 1 -> Contents]
      /\ \A n \in 0 .. s.index - 1 : b[n] = s.dataBuffer[n]
      /\ \A n \in s.index .. s.index + Read(s) - 1 : b[n] = tap.first + (n - s.index)
  <2>0. heard \in 0 .. MaxSample
    BY DEF TypeOK
  <2> HIDE DEF s
  <2>a. s.index + Read(s) = Capacity
    BY <1>2, CapacityAssumption
  <2>b. tap.first + Read(s) - 1 <= tap.first + tap.frames - 1
    BY <1>1, <1>2
  <2>c. tap.first + Read(s) - 1 <= MaxSample
    BY <1>1, <1>2, <2>0, <2>b, BinAssumption
  <2>1. s.index + Read(s) <= Capacity /\ tap.first + Read(s) - 1 <= MaxSample
    BY <2>a, <2>c, CapacityAssumption
  <2> QED
    BY <1>1, <1>2, <2>1, CopyLemma
<1>8. window' = [n \in 1 .. Capacity |-> b[n - 1]]
  BY DEF Fill
<1> HIDE DEF b
<1>9. window' \in [1 .. Capacity -> Contents]
  <2>1. \A n \in 1 .. Capacity : b[n - 1] \in Contents
    BY <1>3, CapacityAssumption
  <2> QED
    BY <1>8, <2>1
<1>10. /\ \A n \in 1 .. s.index : window'[n] = s.dataBuffer[n - 1]
       /\ \A n \in s.index + 1 .. Capacity : window'[n] = tap.first + (n - 1 - s.index)
  <2>1. \A n \in 1 .. Capacity : window'[n] = b[n - 1]
    BY <1>8
  <2>2. ASSUME NEW n \in 1 .. s.index PROVE window'[n] = s.dataBuffer[n - 1]
    <3>1. n \in 1 .. Capacity /\ n - 1 \in 0 .. s.index - 1
      BY <1>2, CapacityAssumption
    <3> QED
      BY <1>3, <2>1, <3>1
  <2>3. ASSUME NEW n \in s.index + 1 .. Capacity
        PROVE  window'[n] = tap.first + (n - 1 - s.index)
    <3>1. n \in 1 .. Capacity /\ n - 1 \in s.index .. s.index + Read(s) - 1
      BY <1>2, CapacityAssumption
    <3> QED
      BY <1>3, <2>1, <3>1
  <2> QED
    BY <2>2, <2>3
<1> QED
  BY <1>1, <1>2, <1>9, <1>10

\* A buffer that was transformed holds values, converted or not.
LEMMA ConvertedType == ASSUME NEW frames \in Int PROVE Converted(frames) \in [0 .. Capacity - 1 -> Contents]
BY DEF Converted, Contents

\* With the window, the service starts again.
LEMMA TransformLemma ==
    ASSUME TypeOK, TapInv, Transform \/ Overrun
    PROVE  LET s == services[audioService]
               t == services'[audioService]
           IN  /\ tap.at = "use" /\ tap.job = "process"
               /\ Enough(s, tap.frames) /\ Fill(s)
               /\ t \in Service /\ services' \in Seq(Service) /\ Len(services') = Len(services)
               /\ \A j \in 1 .. Len(services) : j # audioService => services'[j] = services[j]
               /\ t.index = 0 /\ t.rate = s.rate
<1> DEFINE s == services[audioService]
           f == IF Transform THEN tap.frames ELSE 0
           c == Converted(f)
           i == Restart(tap.frames, Read(s))
           h == IF Transform THEN Shift(s.timeHeights) ELSE s.timeHeights
           t == [s EXCEPT !.dataBuffer = c, !.index = i, !.timeHeights = h]
<1>1. /\ audioService \in 1 .. Len(services) /\ s \in Service /\ tap.frames \in Nat
      /\ tap.at = "use" /\ tap.job = "process"
  BY Handed DEF Transform, Overrun
<1>2. Enough(s, tap.frames) /\ Fill(s)
  <2>1. CASE Transform
    BY <2>1 DEF Transform
  <2>2. CASE Overrun
    <3>1. tap.frames > Capacity /\ s.index \in Nat /\ Capacity \in Nat
      BY <1>1, <2>2, CapacityAssumption DEF Overrun, Service
    <3> QED
      BY <1>1, <2>2, <3>1 DEF Overrun, Enough, Read
  <2> QED
    BY <2>1, <2>2
<1>4. t \in Service
  <2>1. c \in [0 .. Capacity - 1 -> Contents]
    BY <1>1, ConvertedType
  <2>2. i \in 0 .. Capacity - 1
    BY CapacityAssumption DEF Restart
  <2>3. h \in {NumOfBins}
    BY <1>1, BinAssumption DEF Shift, Service
  <2> HIDE DEF s, c, i, h
  <2> QED
    BY <1>1, <2>1, <2>2, <2>3 DEF Service
<1>5. t.index = 0 /\ t.rate = s.rate
  BY <1>1 DEF Service, Restart
<1>6. services' = [services EXCEPT ![audioService] = t]
  <2>1. CASE Transform
    <3>1. services' = [services EXCEPT ![audioService].dataBuffer = c,
                                       ![audioService].index = i,
                                       ![audioService].timeHeights = h]
      BY <2>1 DEF Transform
    <3> HIDE DEF c, i, h
    <3> QED
      BY <3>1, <1>1 DEF TypeOK
  <2>2. CASE Overrun
    <3>1. ~Transform
      BY <1>1, <2>2, CapacityAssumption DEF Transform, Overrun
    <3>2. services' = [services EXCEPT ![audioService].dataBuffer = c,
                                       ![audioService].index = i]
      BY <2>2, <3>1 DEF Overrun
    <3>3. h = s.timeHeights
      BY <3>1
    <3> HIDE DEF c, i, h
    <3>4. t = [s EXCEPT !.dataBuffer = c, !.index = i]
      BY <1>1, <3>3 DEF Service
    <3>5. services' = [services EXCEPT ![audioService] = [s EXCEPT !.dataBuffer = c, !.index = i]]
      BY <1>1, <3>2 DEF TypeOK
    <3> HIDE DEF t, s
    <3> QED
      BY <3>4, <3>5
  <2> QED
    BY <2>1, <2>2
<1>7. /\ services' \in Seq(Service) /\ Len(services') = Len(services)
      /\ services'[audioService] = t
      /\ \A j \in 1 .. Len(services) : j # audioService => services'[j] = services[j]
  <2>1. services \in Seq(Service)
    BY DEF TypeOK
  <2> HIDE DEF t
  <2> QED
    BY <1>1, <1>4, <1>6, <2>1, PutService
<1> QED
  BY <1>1, <1>2, <1>4, <1>5, <1>7

\* The metadata callback.
LEMMA RateLemma ==
    ASSUME TypeOK, TapInv, SetSampleRate
    PROVE  LET s == services[audioService]
               t == services'[audioService]
           IN  /\ services' \in Seq(Service) /\ Len(services') = Len(services)
               /\ audioService \in 1 .. Len(services)
               /\ \A j \in 1 .. Len(services) : j # audioService => services'[j] = services[j]
               /\ t.rate = rate /\ t.index = s.index /\ t.dataBuffer = s.dataBuffer
<1> DEFINE s == services[audioService]
           t == [s EXCEPT !.rate = rate]
<1>1. audioService \in 1 .. Len(services) /\ s \in Service
  BY Handed DEF SetSampleRate
<1>2. services' = [services EXCEPT ![audioService] = t]
  BY <1>1 DEF SetSampleRate, SampleRate, TypeOK
<1>3. t \in Service /\ t.rate = rate /\ t.index = s.index /\ t.dataBuffer = s.dataBuffer
  <2>1. rate \in Rates
    BY DEF SetSampleRate, TypeOK, TapInv
  <2> QED
    BY <1>1, <2>1 DEF Service
<1>4. /\ services' \in Seq(Service) /\ Len(services') = Len(services)
      /\ services'[audioService] = t
      /\ \A j \in 1 .. Len(services) : j # audioService => services'[j] = services[j]
  <2>1. services \in Seq(Service)
    BY DEF TypeOK
  <2> HIDE DEF t
  <2> QED
    BY <1>1, <1>2, <1>3, <2>1, PutService
<1> QED
  BY <1>1, <1>3, <1>4

\* The samples are numbered on, and threads and services keep their types.
LEMMA TypeStep ==
    ASSUME TypeOK, TapInv, ServiceInv, Next
    PROVE  TypeOK'
<1> DEFINE Taps == [at : Places, made : 0 .. 2, job : {"none", "prepare", "process"},
                    first : 0 .. MaxSample + 1, frames : {0} \union Lengths]
           Mains == [at : Places, made : 0 .. 2, job : {"none"}, first : {0}, frames : {0}]
           Windows == [1 .. Capacity -> Contents]
           Flags == skipped \in BOOLEAN /\ whole \in BOOLEAN
                    /\ shouldUpdate \in BOOLEAN /\ histogram \in BOOLEAN
           Lists == services \in Seq(Service) /\ Len(services) <= 2
                    /\ audioService \in 0 .. Len(services)
           Track == heard \in 0 .. MaxSample /\ rate \in Rates \union {0}
           Seen == window = << >> \/ window \in Windows
<1>t. Taps = [at : Places, made : 0 .. 2, job : {"none", "prepare", "process"},
              first : 0 .. MaxSample + 1, frames : {0} \union Lengths]
      /\ Mains = [at : Places, made : 0 .. 2, job : {"none"}, first : {0}, frames : {0}]
  OBVIOUS
<1>a. tap \in Taps /\ main \in Mains /\ Flags /\ Lists /\ Track /\ Seen
  BY DEF TypeOK
<1>s. SUFFICES tap' \in Taps /\ main' \in Mains /\ Flags' /\ Lists' /\ Track' /\ Seen'
  BY DEF TypeOK
<1>i. Idle \in Taps /\ Idle \in Mains
  BY BinAssumption DEF Idle, Places
<1>f. Lengths \subseteq Nat /\ Capacity \in Nat \ {0} /\ MaxSample \in Nat
  BY CapacityAssumption, BinAssumption
<1> HIDE DEF Taps, Mains, Windows
<1>1. CASE Prepare
  <2>1. tap' \in Taps
    BY <1>1, <1>t, <1>i DEF Prepare, Idle, Places
  <2>2. Track'
    BY <1>1, <1>a, <1>f DEF Prepare
  <2>3. Flags'
    BY <1>1, <1>a DEF Prepare, Skip, Waiting
  <2> QED
    BY <1>1, <1>a, <2>1, <2>2, <2>3 DEF Prepare, Skip
<1>2. ASSUME NEW frames \in Lengths, ProcessNothing(frames)
      PROVE  tap' \in Taps /\ main' \in Mains /\ Flags' /\ Lists' /\ Track' /\ Seen'
  <2>2. Track'
    BY <1>2, <1>a, <1>f DEF ProcessNothing
  <2>3. Flags'
    BY <1>2, <1>a DEF ProcessNothing, Skip, Waiting
  <2> QED
    BY <1>2, <1>a, <2>2, <2>3 DEF ProcessNothing, Skip
<1>3. ASSUME NEW frames \in Lengths, Process(frames)
      PROVE  tap' \in Taps /\ main' \in Mains /\ Flags' /\ Lists' /\ Track' /\ Seen'
  <2>2. Track' /\ heard + 1 \in 0 .. MaxSample + 1
    BY <1>3, <1>a, <1>f DEF Process
  <2>1. tap' \in Taps
    BY <1>3, <1>t, <1>i, <2>2 DEF Process, Idle, Places
  <2> QED
    BY <1>3, <1>a, <2>1, <2>2 DEF Process, history
<1>4. CASE TapTests
  <2>1. tap' \in Taps
    BY <1>4, <1>t, <1>a DEF TapTests, Places
  <2> QED
    BY <1>4, <1>a, <2>1 DEF TapTests, history
<1>5. CASE MainTests
  <2>1. main' \in Mains
    BY <1>5, <1>t, <1>a DEF MainTests, Places
  <2> QED
    BY <1>5, <1>a, <2>1 DEF MainTests, history
<1>6. CASE Make
  <2>1. Len(services) <= 1
    <3>1. AreAt("make") >= 1 /\ AreAt("assign") <= 1
      BY <1>6 DEF Make, AreAt
    <3>2. Len(services) \in Nat /\ AreAt("make") \in Nat /\ AreAt("assign") \in Nat
      BY <1>a DEF AreAt
    <3> QED
      BY <3>1, <3>2 DEF ServiceInv
  <2>2. services' \in Seq(Service) /\ Len(services') = Len(services) + 1
    BY <1>6, <1>a, NewServiceType, AddService DEF Make
  <2>3. Len(services) + 1 \in 0 .. 2
    BY <1>a, <2>1
  <2>4. tap' \in Taps /\ main' \in Mains
    BY <1>6, <1>t, <1>a, <2>3 DEF Make, Made, Places
  <2>5. Lists'
    BY <1>6, <1>a, <2>1, <2>2 DEF Make
  <2> QED
    BY <1>6, <1>a, <2>4, <2>5 DEF Make, history
<1>7. CASE Assign
  <2>1. tap' \in Taps /\ main' \in Mains
    BY <1>7, <1>t, <1>a, <1>i DEF Assign, Places
  <2>2. audioService' \in 0 .. Len(services)
    BY <1>7, <1>a DEF Assign, ServiceInv, IsNew
  <2> QED
    BY <1>7, <1>a, <2>1, <2>2 DEF Assign, history
<1>8. CASE SetSampleRate
  <2>1. Lists'
    BY <1>8, <1>a, RateLemma DEF SetSampleRate
  <2> QED
    BY <1>8, <1>a, <1>i, <2>1 DEF SetSampleRate, history
<1>9. CASE Collect
  <2>1. Lists'
    BY <1>9, <1>a, CollectLemma DEF Collect
  <2> QED
    BY <1>9, <1>a, <1>i, <2>1 DEF Collect, history
<1>10. CASE Transform \/ Overrun
  <2>1. Lists'
    BY <1>10, <1>a, TransformLemma DEF Transform, Overrun
  <2>2. Seen'
    BY <1>10, TransformLemma, FillLemma DEF Windows
  <2>3. Flags'
    BY <1>10, <1>a DEF Transform, Overrun, Fill
  <2>4. tap' \in Taps
    BY <1>10, <1>t, <1>i DEF Transform, Overrun, Idle, Places
  <2> QED
    BY <1>10, <1>a, <2>1, <2>2, <2>3, <2>4 DEF Transform, Overrun
<1>11. CASE EnterOrLeave \/ SwitchVisual
  <2>1. (~shouldUpdate) \in BOOLEAN /\ (~histogram) \in BOOLEAN
    BY <1>a
  <2>2. Flags'
    BY <1>11, <1>a, <2>1 DEF EnterOrLeave, SwitchVisual, history
  <2> QED
    BY <1>11, <1>a, <2>2 DEF EnterOrLeave, SwitchVisual, history
<1> QED
  BY <1>1, <1>2, <1>3, <1>4, <1>5, <1>6, <1>7, <1>8, <1>9, <1>10, <1>11 DEF Next

\* A service, once there, stays, and the tap's job goes to one.
LEMMA TapStep ==
    ASSUME TypeOK, TapInv, ServiceInv, Next
    PROVE  TapInv'
<1>a. /\ tap \in [at : Places, made : 0 .. 2, job : {"none", "prepare", "process"},
                   first : 0 .. MaxSample + 1, frames : {0} \union Lengths]
      /\ main \in [at : Places, made : 0 .. 2, job : {"none"}, first : {0}, frames : {0}]
      /\ heard \in Nat /\ audioService \in Nat /\ Len(services) \in Nat
      /\ rate \in Rates \union {0}
  BY DEF TypeOK
<1>f. \A r \in Rates : r # 0
  BY FrequencyAssumption
<1> USE DEF TapInv
<1>1. CASE Prepare
  BY <1>1, <1>a, <1>f DEF Prepare, Skip, Idle
<1>2. ASSUME NEW frames \in Lengths, ProcessNothing(frames) PROVE TapInv'
  BY <1>2, <1>a DEF ProcessNothing, Skip
<1>3. ASSUME NEW frames \in Lengths, Process(frames) PROVE TapInv'
  <2>1. frames \in Nat
    BY CapacityAssumption
  <2>2. audioService # 0
    BY <1>3 DEF Process
  <2>3. tap' = [Idle EXCEPT !.at = "test", !.job = "process", !.first = heard + 1, !.frames = frames]
        /\ heard' = heard + frames /\ rate # 0
        /\ UNCHANGED <<rate, audioService, main>>
    BY <1>3 DEF Process
  <2>4. tap'.at = "test" /\ tap'.job = "process" /\ tap'.first = heard + 1 /\ tap'.frames = frames
    BY <2>3 DEF Idle
  <2> QED
    BY <1>a, <2>1, <2>2, <2>3, <2>4
<1>4. CASE TapTests
  BY <1>4, <1>a DEF TapTests, history
<1>5. CASE MainTests
  BY <1>5, <1>a DEF MainTests, history
<1>6. CASE Make
  BY <1>6, <1>a DEF Make, Made, history
<1>7. CASE Assign
  <2>1. audioService' # 0
    BY <1>7 DEF Assign, ServiceInv, IsNew
  <2> QED
    BY <1>7, <1>a, <2>1 DEF Assign, Idle, history
<1>8. CASE SetSampleRate \/ Collect \/ Transform \/ Overrun
  <2>1. /\ tap' = Idle \/ tap' = [Idle EXCEPT !.at = "overrun"]
        /\ UNCHANGED <<heard, rate, audioService, main>> /\ audioService # 0
    BY <1>8 DEF SetSampleRate, Collect, Transform, Overrun
  <2> QED
    BY <2>1 DEF Idle
<1>9. CASE EnterOrLeave \/ SwitchVisual
  BY <1>9 DEF EnterOrLeave, SwitchVisual, history
<1> QED
  BY <1>1, <1>2, <1>3, <1>4, <1>5, <1>6, <1>7, <1>8, <1>9 DEF Next

\* At most two services are made, and one that waits to be assigned is left alone.
LEMMA ServiceStep ==
    ASSUME TypeOK, TapInv, ServiceInv, Next
    PROVE  ServiceInv'
<1>a. /\ tap \in [at : Places, made : 0 .. 2, job : {"none", "prepare", "process"},
                   first : 0 .. MaxSample + 1, frames : {0} \union Lengths]
      /\ main \in [at : Places, made : 0 .. 2, job : {"none"}, first : {0}, frames : {0}]
      /\ audioService \in 0 .. Len(services) /\ Len(services) \in Nat
      /\ services \in Seq(Service)
  BY DEF TypeOK
<1> USE DEF ServiceInv, IsNew, AreAt
<1>1. ASSUME UNCHANGED <<services, audioService, main>>,
             tap'.at \notin {"make", "assign"}, tap.at \notin {"make", "assign"}
      PROVE  ServiceInv'
  BY <1>1, <1>a
<1>2. CASE Prepare
  BY <1>1, <1>2 DEF Prepare, Idle
<1>3. ASSUME NEW frames \in Lengths, ProcessNothing(frames) \/ Process(frames)
      PROVE  ServiceInv'
  BY <1>1, <1>3 DEF ProcessNothing, Process, Idle
<1>4. CASE TapTests
  <2>1. tap'.at = IF audioService = 0 THEN "make" ELSE "use"
    BY <1>4, <1>a DEF TapTests
  <2> QED
    BY <1>4, <1>a, <2>1 DEF TapTests
<1>5. CASE MainTests
  <2>1. main'.at = "make" /\ main.at = "idle" /\ audioService = 0
    BY <1>5, <1>a DEF MainTests
  <2> QED
    BY <1>5, <1>a, <2>1 DEF MainTests
<1>6. CASE Make
  <2>1. /\ Len(services') = Len(services) + 1
        /\ services'[Len(services) + 1].index = 0
        /\ \A j \in 1 .. Len(services) : services'[j] = services[j]
    <3>1. NewService.index = 0
      BY DEF NewService
    <3> QED
      BY <1>6, <1>a, <3>1, NewServiceType, AddService DEF Make
  <2>2. CASE tap.at = "make" /\ tap' = Made(tap) /\ UNCHANGED main
    <3>1. tap'.at = "assign" /\ tap'.made = Len(services) + 1
      BY <1>a, <2>2 DEF Made
    <3> QED
      BY <1>6, <1>a, <2>1, <2>2, <3>1 DEF Make
  <2>3. CASE main.at = "make" /\ main' = Made(main) /\ UNCHANGED tap
    <3>1. main'.at = "assign" /\ main'.made = Len(services) + 1
      BY <1>a, <2>3 DEF Made
    <3> QED
      BY <1>6, <1>a, <2>1, <2>3, <3>1 DEF Make
  <2> QED
    BY <1>6, <2>2, <2>3 DEF Make
<1>7. CASE Assign
  <2>1. CASE tap.at = "assign" /\ audioService' = tap.made
             /\ tap' = [tap EXCEPT !.at = "use"] /\ UNCHANGED main
    <3>1. tap'.at = "use" /\ main' = main /\ services' = services /\ audioService' = tap.made
      BY <1>7, <1>a, <2>1 DEF Assign
    <3>2. audioService' \in 1 .. Len(services)
      BY <2>1
    <3>3. main.at = "assign" => main.made \in 1 .. Len(services) /\ main.made # tap.made
                                /\ services[main.made].index = 0
      BY <2>1
    <3>4. Len(services) + (IF main.at = "make" THEN 1 ELSE 0) <= 2
      <4>1. CASE audioService = 0
        <5>1. Len(services) = 1 + (IF main.at = "assign" THEN 1 ELSE 0)
          BY <1>a, <2>1, <4>1
        <5> QED
          BY <5>1
      <4>2. CASE audioService # 0
        BY <1>a, <2>1, <4>2
      <4> QED
        BY <4>1, <4>2
    <3>5. AreAt("make")' = IF main.at = "make" THEN 1 ELSE 0
      BY <3>1
    <3> HIDE DEF AreAt
    <3> QED
      BY <3>1, <3>2, <3>3, <3>4, <3>5
  <2>2. CASE main.at = "assign" /\ audioService' = main.made /\ main' = Idle /\ UNCHANGED tap
    <3>1. main'.at = "idle" /\ tap' = tap /\ services' = services /\ audioService' = main.made
      BY <1>7, <2>2 DEF Assign, Idle
    <3>2. audioService' \in 1 .. Len(services)
      BY <2>2
    <3>3. tap.at = "assign" => tap.made \in 1 .. Len(services) /\ tap.made # main.made
                               /\ services[tap.made].index = 0
      BY <2>2
    <3>4. Len(services) + (IF tap.at = "make" THEN 1 ELSE 0) <= 2
      <4>1. CASE audioService = 0
        <5>1. Len(services) = 1 + (IF tap.at = "assign" THEN 1 ELSE 0)
          BY <1>a, <2>2, <4>1
        <5> QED
          BY <5>1
      <4>2. CASE audioService # 0
        BY <1>a, <2>2, <4>2
      <4> QED
        BY <4>1, <4>2
    <3>5. AreAt("make")' = IF tap.at = "make" THEN 1 ELSE 0
      BY <3>1
    <3> HIDE DEF AreAt
    <3> QED
      BY <3>1, <3>2, <3>3, <3>4, <3>5
  <2> QED
    BY <1>7, <2>1, <2>2 DEF Assign
<1>8. CASE SetSampleRate \/ Collect \/ Transform \/ Overrun
  <2>1. /\ Len(services') = Len(services) /\ audioService # 0
        /\ \A j \in 1 .. Len(services) : j # audioService => services'[j] = services[j]
    BY <1>8, RateLemma, CollectLemma, TransformLemma
       DEF SetSampleRate, Collect, Transform, Overrun, TapInv
  <2>2. tap.at = "use" /\ tap'.at \in {"idle", "overrun"} /\ UNCHANGED <<audioService, main>>
    BY <1>8 DEF SetSampleRate, Collect, Transform, Overrun, Idle
  <2> QED
    BY <1>a, <2>1, <2>2
<1>9. CASE EnterOrLeave \/ SwitchVisual
  BY <1>9 DEF EnterOrLeave, SwitchVisual, history
<1> QED
  BY <1>2, <1>3, <1>4, <1>5, <1>6, <1>7, <1>8, <1>9 DEF Next

\* The places of samples are numbers.
LEMMA Numbers ==
    ASSUME TypeOK
    PROVE  Last \in Int /\ Delivered \in Int /\ heard \in Nat
<1>1. heard \in Nat /\ tap.first \in Nat
  BY BinAssumption DEF TypeOK
<1>2. window # << >> => window[Capacity] \in Int
  BY CapacityAssumption, BinAssumption DEF TypeOK, Contents, Raw, Decibel
<1> QED
  BY <1>1, <1>2 DEF Last, Delivered

\* What waits in the buffer continues what was transformed.
LEMMA BufferStep ==
    ASSUME TypeOK, TapInv, ServiceInv, BufferInv, Next
    PROVE  BufferInv'
<1>a. /\ tap \in [at : Places, made : 0 .. 2, job : {"none", "prepare", "process"},
                   first : 0 .. MaxSample + 1, frames : {0} \union Lengths]
      /\ audioService \in 0 .. Len(services) /\ Len(services) \in Nat
      /\ services \in Seq(Service)
  BY DEF TypeOK
<1>b. audioService # 0 => /\ audioService \in 1 .. Len(services)
                          /\ services[audioService].index \in 0 .. Capacity - 1
                          /\ \A n \in 0 .. Capacity - 1 :
                                 services[audioService].dataBuffer[n] \in Int
  <2> SUFFICES ASSUME audioService # 0
               PROVE  /\ audioService \in 1 .. Len(services)
                      /\ services[audioService].index \in 0 .. Capacity - 1
                      /\ \A n \in 0 .. Capacity - 1 :
                             services[audioService].dataBuffer[n] \in Int
    OBVIOUS
  <2>1. audioService \in 1 .. Len(services)
    BY <1>a
  <2> DEFINE s == services[audioService]
  <2>2. s \in Service
    BY <1>a, <2>1
  <2> HIDE DEF s
  <2>3. s.index \in 0 .. Capacity - 1
        /\ s.dataBuffer \in [0 .. Capacity - 1 -> Contents]
    BY <2>2 DEF Service
  <2>i. Contents \subseteq Int
    BY BinAssumption DEF Contents, Raw, Decibel
  <2>4. \A n \in 0 .. Capacity - 1 : s.dataBuffer[n] \in Int
    BY <2>3, <2>i
  <2> QED
    BY <2>1, <2>3, <2>4 DEF s
<1>n. Last \in Int /\ Delivered \in Int /\ heard \in Nat
  BY Numbers
<1>u. ASSUME UNCHANGED <<audioService, window, skipped>>, Delivered' = Delivered,
             audioService # 0 => /\ services'[audioService].index = services[audioService].index
                                 /\ services'[audioService].dataBuffer = services[audioService].dataBuffer
      PROVE  BufferInv'
  BY <1>u DEF BufferInv, Last
<1>m. ASSUME tap.job = "none", UNCHANGED <<audioService, window, services>>,
             heard' \in Nat, heard' >= heard, Delivered' = heard',
             skipped' = (skipped \/ Waiting)
      PROVE  BufferInv'
  <2>1. Delivered = heard /\ Last' = Last
    BY <1>m DEF Delivered, Last
  <2>2. ASSUME audioService # 0, ~skipped' PROVE services[audioService].index = 0 /\ ~skipped
    <3>1. ~Waiting /\ ~skipped
      BY <1>m, <2>2
    <3>2. services[audioService].index \in 0 .. Capacity - 1
      BY <1>b, <2>2
    <3> QED
      BY <2>2, <3>1, <3>2, CapacityAssumption DEF Waiting
  <2>3. Last' <= Delivered'
    BY <1>m, <1>n, <2>1 DEF BufferInv
  <2>4. ASSUME audioService # 0, NEW n \in 0 .. services[audioService].index - 1
        PROVE  /\ services[audioService].dataBuffer[n] > Last
               /\ services[audioService].dataBuffer[n] <= Delivered'
    <3>1. n \in 0 .. Capacity - 1
      BY <1>b, <2>4, CapacityAssumption
    <3>2. services[audioService].dataBuffer[n] \in Int
      BY <1>b, <2>4, <3>1
    <3> QED
      BY <1>m, <1>n, <2>1, <2>4, <3>2 DEF BufferInv
  <2> QED
    BY <1>m, <1>b, <2>1, <2>2, <2>3, <2>4 DEF BufferInv
<1>1. CASE Prepare
  <2>1. tap.job = "none" /\ tap'.job = "prepare" /\ heard' = heard + 1
    BY <1>1 DEF Prepare, TapInv, Idle
  <2> QED
    BY <1>1, <1>m, <1>n, <2>1 DEF Prepare, Skip, Delivered
<1>2. ASSUME NEW frames \in Lengths, ProcessNothing(frames) PROVE BufferInv'
  <2>1. tap.job = "none" /\ tap' = tap /\ heard' = heard + frames /\ frames \in Nat
    BY <1>2, CapacityAssumption DEF ProcessNothing, TapInv
  <2> QED
    BY <1>2, <1>m, <1>n, <2>1 DEF ProcessNothing, Skip, Delivered
<1>3. ASSUME NEW frames \in Lengths, Process(frames) PROVE BufferInv'
  <2>1. tap.job = "none" /\ tap'.job = "process" /\ tap'.first = heard + 1
    BY <1>3 DEF Process, TapInv, Idle
  <2>2. Delivered' = Delivered
    BY <1>n, <2>1 DEF Delivered
  <2> QED
    BY <1>3, <1>u, <2>2 DEF Process, history
<1>4. CASE TapTests
  <2>1. tap'.job = tap.job /\ tap'.first = tap.first
    BY <1>4, <1>a DEF TapTests
  <2> QED
    BY <1>4, <1>u, <2>1 DEF TapTests, history, Delivered
<1>5. CASE MainTests \/ EnterOrLeave \/ SwitchVisual
  BY <1>5, <1>u DEF MainTests, EnterOrLeave, SwitchVisual, history, Delivered
<1>6. CASE Make
  <2>1. tap'.job = tap.job /\ tap'.first = tap.first
    BY <1>6, <1>a DEF Make, Made
  <2>2. audioService # 0 => services'[audioService] = services[audioService]
    BY <1>6, <1>a, <1>b, NewServiceType, AddService DEF Make
  <2> QED
    BY <1>6, <1>u, <2>1, <2>2 DEF Make, history, Delivered
<1>7. CASE Assign
  <2>1. tap'.job = tap.job /\ tap'.first = tap.first /\ UNCHANGED <<heard, window, services>>
    BY <1>7, <1>a DEF Assign, history
  <2>2. services'[audioService'].index = 0
    BY <1>7 DEF Assign, ServiceInv, IsNew
  <2>3. Last' = Last /\ Delivered' = Delivered
    BY <2>1 DEF Last, Delivered
  <2> QED
    BY <2>2, <2>3 DEF BufferInv
<1>8. CASE SetSampleRate
  <2>1. Delivered' = Delivered
    BY <1>8 DEF SetSampleRate, Delivered, Idle
  <2> QED
    BY <1>8, <1>u, <2>1, RateLemma DEF SetSampleRate, history
<1>9. CASE Collect
  <2> DEFINE s == services[audioService]
             t == services'[audioService]
  <2>1. /\ t.index = s.index + tap.frames
        /\ \A n \in 0 .. s.index - 1 : t.dataBuffer[n] = s.dataBuffer[n]
        /\ \A n \in s.index .. t.index - 1 : t.dataBuffer[n] = tap.first + (n - s.index)
        /\ tap.frames \in Nat /\ tap.first \in 1 .. MaxSample + 1
        /\ tap.first + tap.frames - 1 = heard
    BY <1>9, CollectLemma
  <2>2. Delivered = tap.first - 1 /\ Delivered' = heard /\ Last' = Last
        /\ UNCHANGED <<audioService, skipped>> /\ audioService # 0
    BY <1>9 DEF Collect, Delivered, Last, Idle, history, TapInv
  <2>3. s.index \in Nat /\ s.index < Capacity /\ \A n \in 0 .. Capacity - 1 : s.dataBuffer[n] \in Int
    BY <1>b, <2>2, CapacityAssumption
  <2>4. /\ \A n \in 0 .. s.index - 1 : s.dataBuffer[n] > Last /\ s.dataBuffer[n] <= Delivered
        /\ \A n \in 0 .. s.index - 2 : s.dataBuffer[n] < s.dataBuffer[n + 1]
        /\ ~skipped => \A n \in 0 .. s.index - 1 : s.dataBuffer[n] = Delivered - s.index + n + 1
        /\ Last <= Delivered
    BY <2>2 DEF BufferInv
  <2>c. Capacity \in Nat /\ MaxSample \in Nat
    BY CapacityAssumption, BinAssumption
  <2> HIDE DEF s, t
  <2>5. \A n \in 0 .. t.index - 1 : t.dataBuffer[n] > Last /\ t.dataBuffer[n] <= heard
    <3> SUFFICES ASSUME NEW n \in 0 .. t.index - 1
                 PROVE  t.dataBuffer[n] > Last /\ t.dataBuffer[n] <= heard
      OBVIOUS
    <3>1. CASE n < s.index
      <4>1. n \in 0 .. s.index - 1 /\ n \in 0 .. Capacity - 1
        BY <2>1, <2>3, <2>c, <3>1
      <4>2. t.dataBuffer[n] = s.dataBuffer[n] /\ s.dataBuffer[n] \in Int
        BY <2>1, <2>3, <4>1
      <4>3. s.dataBuffer[n] > Last /\ s.dataBuffer[n] <= Delivered
        BY <2>4, <4>1
      <4> QED
        BY <1>n, <2>1, <2>2, <2>c, <4>2, <4>3
    <3>2. CASE ~(n < s.index)
      <4>1. n \in s.index .. t.index - 1 /\ n \in Nat
        BY <2>1, <2>3, <2>c, <3>2
      <4>2. t.dataBuffer[n] = tap.first + (n - s.index)
        BY <2>1, <4>1
      <4> QED
        BY <1>n, <2>1, <2>2, <2>3, <2>4, <2>c, <4>1, <4>2
    <3> QED
      BY <3>1, <3>2
  <2>6. \A n \in 0 .. t.index - 2 : t.dataBuffer[n] < t.dataBuffer[n + 1]
    <3> SUFFICES ASSUME NEW n \in 0 .. t.index - 2
                 PROVE  t.dataBuffer[n] < t.dataBuffer[n + 1]
      OBVIOUS
    <3>1. CASE n + 1 < s.index
      <4>1. n \in 0 .. s.index - 2 /\ n \in 0 .. s.index - 1 /\ n + 1 \in 0 .. s.index - 1
        BY <2>1, <2>3, <2>c, <3>1
      <4> QED
        BY <2>1, <2>4, <4>1
    <3>2. CASE n + 1 = s.index
      <4> DEFINE k == n + 1
      <4>1. n \in 0 .. s.index - 1 /\ n \in 0 .. Capacity - 1 /\ k \in s.index .. t.index - 1
        BY <2>1, <2>3, <2>c, <3>2
      <4> HIDE DEF k
      <4>2. t.dataBuffer[k] = tap.first + (k - s.index) /\ t.dataBuffer[n] = s.dataBuffer[n]
        BY <2>1, <4>1
      <4>3. s.dataBuffer[n] <= tap.first - 1 /\ s.dataBuffer[n] \in Int
        BY <2>2, <2>3, <2>4, <4>1
      <4> QED
        BY <2>1, <2>3, <3>2, <4>2, <4>3 DEF k
    <3>3. CASE n + 1 > s.index
      <4> DEFINE k == n + 1
      <4>1. n \in s.index .. t.index - 1 /\ k \in s.index .. t.index - 1
        BY <2>1, <2>3, <2>c, <3>3
      <4> HIDE DEF k
      <4>2. t.dataBuffer[k] = tap.first + (k - s.index)
            /\ t.dataBuffer[n] = tap.first + (n - s.index)
        BY <2>1, <4>1
      <4> QED
        BY <2>1, <2>3, <2>c, <4>1, <4>2 DEF k
    <3> QED
      BY <2>1, <2>3, <2>c, <3>1, <3>2, <3>3
  <2>7. ASSUME ~skipped, NEW n \in 0 .. t.index - 1
        PROVE  t.dataBuffer[n] = heard - t.index + n + 1
    <3>1. CASE n < s.index
      <4>1. n \in 0 .. s.index - 1
        BY <2>1, <2>3, <2>c, <3>1
      <4> QED
        BY <1>n, <2>1, <2>2, <2>3, <2>4, <2>7, <4>1
    <3>2. CASE ~(n < s.index)
      <4>1. n \in s.index .. t.index - 1
        BY <2>1, <2>3, <2>c, <3>2
      <4> QED
        BY <1>n, <2>1, <2>3, <2>c, <4>1
    <3> QED
      BY <3>1, <3>2
  <2>8. Last <= heard
    BY <1>n, <2>1, <2>2, <2>4, <2>c
  <2> QED
    BY <2>2, <2>5, <2>6, <2>7, <2>8 DEF BufferInv, s, t
<1>10. CASE Transform \/ Overrun
  <2> DEFINE s == services[audioService]
  <2>1. /\ services'[audioService].index = 0
        /\ window' \in [1 .. Capacity -> Contents]
        /\ \A n \in s.index + 1 .. Capacity : window'[n] = tap.first + (n - 1 - s.index)
        /\ Capacity - s.index <= tap.frames
        /\ tap.frames \in Nat /\ tap.first \in 1 .. MaxSample + 1
        /\ tap.first + tap.frames - 1 = heard
    BY <1>10, TransformLemma, FillLemma
  <2>2. Delivered' = heard /\ UNCHANGED audioService /\ audioService # 0
    BY <1>10 DEF Transform, Overrun, Delivered, Idle, TapInv
  <2>3. window' # << >>
    BY <2>1, NotEmpty, BinAssumption DEF Contents, Raw, Decibel
  <2>4. s.index \in 0 .. Capacity - 1 /\ Capacity \in s.index + 1 .. Capacity
    BY <1>b, <2>2, CapacityAssumption
  <2>5. Last' = tap.first + (Capacity - 1 - s.index)
    BY <2>1, <2>3, <2>4 DEF Last
  <2>c. Capacity \in Nat /\ MaxSample \in Nat
    BY CapacityAssumption, BinAssumption
  <2> HIDE DEF s
  <2>6. tap.first + (Capacity - 1 - s.index) <= heard
    BY <1>n, <2>1, <2>4, <2>c
  <2> QED
    BY <2>1, <2>2, <2>5, <2>6 DEF BufferInv
<1> QED
  BY <1>1, <1>2, <1>3, <1>4, <1>5, <1>6, <1>7, <1>8, <1>9, <1>10 DEF Next

\* A window is the buffer, which came after the last window, and what was heard last.
LEMMA OrderStep ==
    ASSUME TypeOK, TapInv, BufferInv, WindowInOrder, HolesAreMissed, Next
    PROVE  WindowInOrder' /\ HolesAreMissed'
<1>1. CASE Transform \/ Overrun
  <2> DEFINE s == services[audioService]
             w == window'
  <2>1. /\ s \in Service
        /\ w \in [1 .. Capacity -> Contents]
        /\ \A n \in 1 .. s.index : w[n] = s.dataBuffer[n - 1]
        /\ \A n \in s.index + 1 .. Capacity : w[n] = tap.first + (n - 1 - s.index)
        /\ tap.frames \in Nat /\ tap.first \in 1 .. MaxSample + 1
    BY <1>1, TransformLemma, FillLemma
  <2>2. Delivered = tap.first - 1 /\ audioService # 0 /\ before' = Last /\ whole' = ~skipped
    BY <1>1 DEF Transform, Overrun, Fill, Delivered, TapInv, Last
  <2>3. /\ \A n \in 0 .. s.index - 1 : s.dataBuffer[n] > Last /\ s.dataBuffer[n] <= Delivered
        /\ \A n \in 0 .. s.index - 2 : s.dataBuffer[n] < s.dataBuffer[n + 1]
        /\ ~skipped => \A n \in 0 .. s.index - 1 : s.dataBuffer[n] = Delivered - s.index + n + 1
        /\ Last <= Delivered
    BY <2>2 DEF BufferInv
  <2>n. Last \in Int /\ Delivered \in Int
    BY Numbers
  <2>c. Capacity \in Nat \ {0} /\ MaxSample \in Nat
    BY CapacityAssumption, BinAssumption
  <2>i. Contents \subseteq Int
    BY BinAssumption DEF Contents, Raw, Decibel
  <2> HIDE DEF s, w
  <2>4. s.index \in 0 .. Capacity - 1
        /\ s.dataBuffer \in [0 .. Capacity - 1 -> Contents]
    BY <2>1 DEF Service
  <2>5. \A n \in 0 .. Capacity - 1 : s.dataBuffer[n] \in Int
    BY <2>4, <2>i
  <2>6. w[1] > Last
    <3>1. CASE s.index = 0
      <4>1. 1 \in s.index + 1 .. Capacity
        BY <2>c, <3>1
      <4>2. w[1] = tap.first + (1 - 1 - s.index)
        BY <2>1, <4>1
      <4> QED
        BY <2>1, <2>2, <2>3, <2>n, <2>c, <3>1, <4>2
    <3>2. CASE s.index # 0
      <4> DEFINE z == 1 - 1
      <4>1. 1 \in 1 .. s.index /\ z \in 0 .. s.index - 1 /\ z = 0
        BY <2>4, <2>c, <3>2
      <4>2. w[1] = s.dataBuffer[z]
        BY <2>1, <4>1
      <4> HIDE DEF z
      <4> QED
        BY <2>3, <4>1, <4>2
    <3> QED
      BY <3>1, <3>2
  <2>7. ASSUME NEW n \in 1 .. Capacity - 1
        PROVE  w[n] < w[n + 1] /\ (~skipped => w[n + 1] = w[n] + 1)
    <3> DEFINE k == n + 1
               i == n - 1
    <3>a. k \in 2 .. Capacity /\ n \in 1 .. Capacity /\ k \in Int /\ n \in Int /\ i \in Nat
          /\ s.index \in Nat
      BY <2>4, <2>c
    <3>1. CASE k <= s.index
      <4>1. n \in 1 .. s.index /\ k \in 1 .. s.index /\ i \in 0 .. s.index - 2
            /\ i \in 0 .. s.index - 1 /\ i + 1 \in 0 .. s.index - 1 /\ k - 1 = i + 1
        BY <3>a, <3>1
      <4>2. w[n] = s.dataBuffer[i] /\ w[k] = s.dataBuffer[k - 1]
        <5> HIDE DEF k
        <5> QED
          BY <2>1, <4>1
      <4>3. s.dataBuffer[i] < s.dataBuffer[i + 1]
        <5> HIDE DEF i
        <5> QED
          BY <2>3, <4>1
      <4>4. ASSUME ~skipped PROVE s.dataBuffer[i + 1] = s.dataBuffer[i] + 1
        <5> DEFINE j == i + 1
        <5>1. j \in 0 .. s.index - 1
          BY <4>1
        <5> HIDE DEF j, i
        <5>2. s.dataBuffer[j] = Delivered - s.index + j + 1
              /\ s.dataBuffer[i] = Delivered - s.index + i + 1
          BY <2>3, <4>1, <4>4, <5>1
        <5> QED
          BY <2>n, <3>a, <5>2 DEF j
      <4> HIDE DEF i
      <4> QED
        BY <4>1, <4>2, <4>3, <4>4
    <3>2. CASE n = s.index
      <4>1. n \in 1 .. s.index /\ k \in s.index + 1 .. Capacity /\ i \in 0 .. s.index - 1
            /\ i \in 0 .. Capacity - 1
        BY <3>a, <3>2, <2>c
      <4>2. w[n] = s.dataBuffer[i] /\ w[k] = tap.first + (k - 1 - s.index)
        <5> HIDE DEF k
        <5> QED
          BY <2>1, <4>1
      <4>3. w[k] = tap.first
        <5>1. k - 1 - s.index = 0 /\ tap.first \in Nat
          BY <2>1, <2>c, <3>a, <3>2
        <5> HIDE DEF k
        <5> QED
          BY <4>2, <5>1
      <4>4. s.dataBuffer[i] <= Delivered /\ s.dataBuffer[i] \in Int
            /\ (~skipped => s.dataBuffer[i] = Delivered - s.index + i + 1)
        <5> HIDE DEF i
        <5> QED
          BY <2>3, <2>5, <4>1
      <4>5. Delivered - s.index + i + 1 = Delivered
        BY <2>n, <3>a, <3>2
      <4> QED
        BY <2>1, <2>2, <2>c, <4>2, <4>3, <4>4, <4>5
    <3>3. CASE n > s.index
      <4>1. n \in s.index + 1 .. Capacity /\ k \in s.index + 1 .. Capacity
        BY <3>a, <3>3, <2>c
      <4>2. w[n] = tap.first + (n - 1 - s.index) /\ w[k] = tap.first + (k - 1 - s.index)
        <5> HIDE DEF k
        <5> QED
          BY <2>1, <4>1
      <4> QED
        BY <2>1, <2>c, <3>a, <4>2
    <3> QED
      BY <3>a, <3>1, <3>2, <3>3
  <2>8. WindowInOrder'
    BY <2>2, <2>6, <2>7 DEF WindowInOrder, w
  <2>9. HolesAreMissed'
    BY <2>2, <2>7 DEF HolesAreMissed, w
  <2> QED
    BY <2>8, <2>9
<1>2. CASE ~(Transform \/ Overrun)
  <2>1. UNCHANGED <<window, before, whole>>
    BY <1>2 DEF Next, Prepare, ProcessNothing, Process, Skip, TapTests, MainTests, Make,
       Assign, SetSampleRate, Collect, EnterOrLeave, SwitchVisual, history
  <2> QED
    BY <2>1 DEF WindowInOrder, HolesAreMissed
<1> QED
  BY <1>1, <1>2

\* An only service has been told the rate of the track that is heard.
LEMMA RateStep ==
    ASSUME TypeOK, TapInv, ServiceInv, RateInv, Next
    PROVE  RateInv'
<1>a. /\ tap \in [at : Places, made : 0 .. 2, job : {"none", "prepare", "process"},
                   first : 0 .. MaxSample + 1, frames : {0} \union Lengths]
      /\ audioService \in 0 .. Len(services) /\ Len(services) \in Nat
      /\ services \in Seq(Service)
  BY DEF TypeOK
<1> SUFFICES ASSUME audioService' # 0, Len(services') < 2, rate' # 0, tap'.job # "prepare"
             PROVE  services'[audioService'].rate = rate'
  BY DEF RateInv
<1>1. ~Prepare
  BY DEF Prepare, Idle
<1>2. ASSUME UNCHANGED <<services, audioService, rate>>, tap.job # "prepare"
      PROVE  services'[audioService'].rate = rate'
  BY <1>2 DEF RateInv
<1>3. ASSUME NEW frames \in Lengths, ProcessNothing(frames) \/ Process(frames)
      PROVE  services'[audioService'].rate = rate'
  BY <1>2, <1>3 DEF ProcessNothing, Process, TapInv
<1>4. CASE TapTests
  BY <1>2, <1>4, <1>a DEF TapTests
<1>5. CASE MainTests \/ EnterOrLeave \/ SwitchVisual
  BY <1>2, <1>5 DEF MainTests, EnterOrLeave, SwitchVisual
<1>6. CASE Make
  <2>1. tap'.job = tap.job /\ UNCHANGED <<audioService, rate>>
    BY <1>6, <1>a DEF Make, Made
  <2>2. audioService \in 1 .. Len(services)
    BY <1>a, <2>1
  <2>3. Len(services) < 2 /\ services'[audioService] = services[audioService]
    BY <1>6, <1>a, <2>2, NewServiceType, AddService DEF Make
  <2> QED
    BY <2>1, <2>2, <2>3 DEF RateInv
<1>7. CASE Assign
  <2>1. UNCHANGED <<services, rate>> /\ tap'.job = tap.job
    BY <1>7, <1>a DEF Assign
  <2>2. audioService # 0
    BY <2>1 DEF TapInv
  <2>3. audioService' \in 1 .. Len(services) /\ audioService' # audioService
    BY <1>7 DEF Assign, ServiceInv, IsNew
  <2>4. FALSE
    BY <1>a, <2>1, <2>2, <2>3
  <2> QED
    BY <2>4
<1>8. CASE SetSampleRate
  BY <1>8, RateLemma DEF SetSampleRate
<1>9. CASE Collect
  BY <1>9, CollectLemma DEF Collect, RateInv
<1>10. CASE Transform \/ Overrun
  BY <1>10, TransformLemma DEF Transform, Overrun, RateInv
<1> QED
  BY <1>1, <1>3, <1>4, <1>5, <1>6, <1>7, <1>8, <1>9, <1>10 DEF Next

\* The division of natural numbers.
LEMMA Quotient ==
    ASSUME NEW a \in Nat, NEW b \in Nat \ {0}
    PROVE  a \div b \in Nat /\ b * (a \div b) <= a /\ a < b * (a \div b) + b
OBVIOUS

LEMMA LessProduct ==
    ASSUME NEW a \in Nat, NEW b \in Nat, NEW c \in Nat, a <= b
    PROVE  a * c <= b * c
OBVIOUS

LEMMA LessFactor ==
    ASSUME NEW a \in Nat, NEW b \in Nat \ {0}, NEW c \in Nat, a * b <= c * b
    PROVE  a <= c
OBVIOUS

\* Columns cut at the rate of the track lie between its frequencies.
LEMMA ColumnsLemma ==
    ASSUME rate \in Rates, tap.frames \in Nat
    PROVE  LET c == Columns(rate, Converted(tap.frames))
           IN  /\ (c.low + 1) * c.rate > 2 * Capacity * MinFrequency
               /\ c.high * c.rate <= 2 * Capacity * MaxFrequency
               /\ c.rate >= 2 * MaxFrequency => c.high <= Capacity
               /\ \A n \in c.raw : c.frames <= n
<1> DEFINE low == (2 * MinFrequency * Capacity) \div rate
           top == (2 * MaxFrequency * Capacity) \div rate
           width == (top - low) \div NumOfBins
           high == low + NumOfBins * width
<1>1. /\ rate \in Nat \ {0} /\ Capacity \in Nat
      /\ MinFrequency \in Nat /\ MaxFrequency \in Nat /\ MinFrequency <= MaxFrequency
      /\ NumOfBins \in Nat \ {0}
  BY CapacityAssumption, BinAssumption, FrequencyAssumption
<1>2. /\ 2 * MinFrequency * Capacity \in Nat /\ 2 * MaxFrequency * Capacity \in Nat
      /\ 2 * MinFrequency * Capacity <= 2 * MaxFrequency * Capacity
  <2>1. 2 * MinFrequency \in Nat /\ 2 * MaxFrequency \in Nat /\ 2 * MinFrequency <= 2 * MaxFrequency
    BY <1>1
  <2> QED
    BY <1>1, <2>1, LessProduct
<1>3. /\ low \in Nat /\ rate * low <= 2 * MinFrequency * Capacity
      /\ 2 * MinFrequency * Capacity < rate * low + rate
  BY <1>1, <1>2, Quotient
<1>4. /\ top \in Nat /\ rate * top <= 2 * MaxFrequency * Capacity
      /\ 2 * MaxFrequency * Capacity < rate * top + rate
  BY <1>1, <1>2, Quotient
<1> HIDE DEF low, top
<1>5. low <= top
  <2>1. rate * low < rate * (top + 1)
    <3>1. rate * (top + 1) = rate * top + rate /\ rate * top \in Nat /\ rate * low \in Nat
      BY <1>1, <1>3, <1>4
    <3> QED
      BY <1>1, <1>2, <1>3, <1>4, <3>1
  <2>2. CASE top + 1 <= low
    <3>1. (top + 1) * rate <= low * rate
      BY <1>1, <1>3, <1>4, <2>2, LessProduct
    <3> QED
      BY <1>1, <1>3, <1>4, <2>1, <3>1
  <2> QED
    BY <1>3, <1>4, <2>2
<1>6. width \in Nat /\ NumOfBins * width <= top - low
  <2>1. top - low \in Nat
    BY <1>3, <1>4, <1>5
  <2> QED
    BY <1>1, <2>1, Quotient
<1> HIDE DEF width
<1>7. high \in Nat /\ high <= top
  <2>1. NumOfBins * width \in Nat
    BY <1>1, <1>6
  <2> QED
    BY <1>3, <1>4, <1>6, <2>1
<1> HIDE DEF high
<1>8. high * rate <= 2 * MaxFrequency * Capacity
  <2>1. high * rate <= top * rate
    BY <1>1, <1>4, <1>7, LessProduct
  <2>2. top * rate = rate * top /\ high * rate \in Nat /\ rate * top \in Nat
    BY <1>1, <1>4, <1>7
  <2> QED
    BY <1>2, <1>4, <2>1, <2>2
<1>9. ASSUME rate >= 2 * MaxFrequency PROVE high <= Capacity
  <2>1. (2 * MaxFrequency) * Capacity <= rate * Capacity
    BY <1>1, <1>9, LessProduct
  <2>2. high * rate <= Capacity * rate
    BY <1>1, <1>2, <1>7, <1>8, <2>1
  <2> QED
    BY <1>1, <1>7, <2>2, LessFactor
<1>10. /\ 2 * Capacity * MinFrequency = 2 * MinFrequency * Capacity
       /\ 2 * Capacity * MaxFrequency = 2 * MaxFrequency * Capacity
       /\ (low + 1) * rate = rate * low + rate
  BY <1>1, <1>3
<1> DEFINE raw == {n \in low .. high - 1 : n < Capacity /\ Converted(tap.frames)[n] = Raw}
<1>11. Columns(rate, Converted(tap.frames))
           = [low |-> low, high |-> high, rate |-> rate, frames |-> tap.frames, raw |-> raw]
  BY DEF Columns, FrequencyIndex, PointsPerColumn, low, top, width, high
<1>12. ASSUME NEW n \in raw PROVE tap.frames <= n
  <2>1. n \in 0 .. Capacity - 1 /\ Converted(tap.frames)[n] = Raw
    BY <1>1, <1>3, <1>7
  <2> QED
    BY <2>1 DEF Converted, Raw, Decibel
<1> HIDE DEF raw
<1> QED
  BY <1>3, <1>8, <1>9, <1>10, <1>11, <1>12

\* The columns lie in their band.
LEMMA BandStep ==
    ASSUME TypeOK, TapInv, RateInv, BandIsHeard, Next
    PROVE  BandIsHeard'
<1>1. CASE Transform
  <2> SUFFICES ASSUME Len(services') < 2
               PROVE  \A c \in spectrum' :
                          /\ (c.low + 1) * c.rate > 2 * Capacity * MinFrequency
                          /\ c.high * c.rate <= 2 * Capacity * MaxFrequency
                          /\ c.rate >= 2 * MaxFrequency => c.high <= Capacity
                          /\ \A n \in c.raw : c.frames <= n
    BY DEF BandIsHeard
  <2>1. Len(services) < 2 /\ tap.job = "process" /\ tap.at = "use"
    BY <1>1, TransformLemma DEF Transform
  <2>2. rate \in Rates /\ audioService # 0 /\ tap.frames \in Nat
    BY <2>1, Handed DEF TypeOK, TapInv
  <2>3. services[audioService].rate = rate
    BY <2>1, <2>2, FrequencyAssumption DEF RateInv
  <2>4. spectrum' = {Columns(rate, Converted(tap.frames))}
    BY <1>1, <2>3 DEF Transform
  <2> QED
    BY <2>2, <2>4, ColumnsLemma
<1>2. CASE ~Transform
  <2>1. spectrum' = spectrum
    BY <1>2 DEF Next, Prepare, ProcessNothing, Process, Skip, TapTests, MainTests, Make,
       Assign, SetSampleRate, Collect, Overrun, EnterOrLeave, SwitchVisual, history
  <2>2. Len(services') < 2 => Len(services) < 2
    <3>1. UNCHANGED services \/ Make \/ SetSampleRate \/ Collect \/ Overrun
      BY <1>2 DEF Next, Prepare, ProcessNothing, Process, TapTests, MainTests,
         Assign, EnterOrLeave, SwitchVisual
    <3>2. ASSUME Make PROVE Len(services') = Len(services) + 1 /\ Len(services) \in Nat
      BY <3>2, NewServiceType, AddService DEF Make, TypeOK
    <3>3. ASSUME SetSampleRate \/ Collect \/ Overrun PROVE Len(services') = Len(services)
      BY <3>3, RateLemma, CollectLemma, TransformLemma
    <3> QED
      BY <3>1, <3>2, <3>3
  <2> QED
    BY <2>1, <2>2 DEF BandIsHeard
<1> QED
  BY <1>1, <1>2

LEMMA StepLemma == WindowInv /\ [Next]_vars => WindowInv'
<1> SUFFICES ASSUME WindowInv, [Next]_vars PROVE WindowInv'
  OBVIOUS
<1>1. CASE Next
  BY <1>1, TypeStep, TapStep, ServiceStep, BufferStep, RateStep, OrderStep, BandStep DEF WindowInv
<1>2. CASE UNCHANGED vars
  <2> USE <1>2 DEF vars, history
  <2>1. TypeOK' /\ TapInv'
    BY DEF WindowInv, TypeOK, TapInv
  <2>2. ServiceInv'
    BY DEF WindowInv, ServiceInv, IsNew, AreAt
  <2>3. BufferInv' /\ RateInv'
    BY DEF WindowInv, BufferInv, RateInv, Last, Delivered
  <2>4. WindowInOrder' /\ HolesAreMissed' /\ BandIsHeard'
    BY DEF WindowInv, WindowInOrder, HolesAreMissed, BandIsHeard
  <2> QED
    BY <2>1, <2>2, <2>3, <2>4 DEF WindowInv
<1> QED
  BY <1>1, <1>2

\* What both threads keep of the services, and of the samples in the one that is used.
THEOREM WindowInvariant == Spec => []WindowInv
BY InitLemma, StepLemma, PTL DEF Spec

\* Samples are transformed in the order they were heard, and none twice, whatever the
\* callbacks bring: one that is too long fills a window like any other.
THEOREM WindowsAreOrdered == Spec => []WindowInOrder
<1>1. WindowInv => WindowInOrder
  BY DEF WindowInv
<1> QED
  BY <1>1, WindowInvariant, PTL

\* A window has a hole only where samples were missed while others waited.
THEOREM WindowsAreWhole == Spec => []HolesAreMissed
<1>1. WindowInv => HolesAreMissed
  BY DEF WindowInv
<1> QED
  BY <1>1, WindowInvariant, PTL

\* While one service was made the columns show the frequencies of the settings at any rate
\* of a track.  They end inside the buffer when the rate reaches twice the highest of them.
THEOREM BandsAreHeard == Spec => []BandIsHeard
<1>1. WindowInv => BandIsHeard
  BY DEF WindowInv
<1> QED
  BY <1>1, WindowInvariant, PTL
===============================================================================
