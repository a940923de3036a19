-------------------------- MODULE AInStream_proofs --------------------------
(***************************************************************************)
(* Theorems about buffered analog input: the indices and the count of the  *)
(* buffer, for every geometry, FIFO size, set of buffer modes and choice of *)
(* the fault switches; and what the application is given, the samples of a *)
(* run, in order and none missing, for every interleaving of the bottom    *)
(* half with AInGetScans.                                                  *)
(***************************************************************************)
EXTENDS AInStream, Arithmetic, SequenceTheorems, TLAPS

-----------------------------------------------------------------------------
(* The geometry of the buffer.                                             *)

LEMMA Geometry ==
  /\ ScanSize \in Nat \ {0} /\ FrameSize \in Nat \ {0} /\ NumFrames \in Nat \ {0}
  /\ FrameValues \in Nat \ {0}
  /\ MaxValues \in Nat \ {0}
  /\ MaxScans \in Nat \ {0}
  /\ MaxValues = NumFrames * FrameValues
  /\ MaxValues = MaxScans * ScanSize
<1>1. FrameValues \in Nat \ {0}
  BY GeometryAssumption, SMT DEF FrameValues
<1>2. MaxScans \in Nat \ {0}
  BY GeometryAssumption, SMT DEF MaxScans
<1>3. MaxValues \in Nat \ {0}
  BY <1>1, GeometryAssumption, SMT DEF MaxValues
<1>4. MaxValues = NumFrames * FrameValues
  BY <1>1, GeometryAssumption, SMT DEF MaxValues
<1>5. MaxValues = MaxScans * ScanSize
  BY GeometryAssumption, SMT DEF MaxValues, MaxScans, FrameValues
<1> QED
  BY <1>1, <1>2, <1>3, <1>4, <1>5, GeometryAssumption

\* A frame starts, and ends, inside the buffer.
LEMMA FrameInside ==
  ASSUME NEW f \in 0 .. NumFrames - 1
  PROVE  /\ f * FrameValues \in FrameStarts
         /\ f * FrameValues \in Positions
         /\ f * FrameValues + FrameValues <= MaxValues
<1>1. f * FrameValues <= (NumFrames - 1) * FrameValues
  BY Geometry, TimesMonotone
<1>2. (NumFrames - 1) * FrameValues = MaxValues - FrameValues
  BY Geometry, SMT
<1>3. f * FrameValues \in Nat
  BY Geometry, SMT
<1> QED
  BY <1>1, <1>2, <1>3, Geometry, SMT DEF FrameStarts, Positions

LEMMA FrameStartsInside == FrameStarts \subseteq Positions
BY FrameInside DEF FrameStarts

\* Going on by at most a buffer from the position of the a-th value.
LEMMA GoOn ==
  ASSUME NEW a \in Nat, NEW d \in 0 .. MaxValues
  PROVE  /\ a % MaxValues \in 0 .. MaxValues - 1
         /\ (a + d) % MaxValues = IF (a % MaxValues) + d < MaxValues THEN (a % MaxValues) + d
                                  ELSE (a % MaxValues) + d - MaxValues
<1> DEFINE q == a \div MaxValues
           r == a % MaxValues
<1>1. q \in Nat /\ r \in 0 .. MaxValues - 1 /\ a = q * MaxValues + r
  BY Geometry, DivMod
<1> HIDE DEF q, r
<1>2. CASE r + d < MaxValues
  <2>1. r + d \in 0 .. MaxValues - 1 /\ a + d = q * MaxValues + (r + d) /\ a + d \in Int
    BY <1>1, <1>2, Geometry, SMT
  <2>2. (a + d) % MaxValues = r + d
    BY <1>1, <2>1, Geometry, ModUnique
  <2> QED
    BY <1>1, <1>2, <2>2 DEF r
<1>3. CASE ~(r + d < MaxValues)
  <2>1. /\ r + d - MaxValues \in 0 .. MaxValues - 1
        /\ a + d = (q + 1) * MaxValues + (r + d - MaxValues)
        /\ a + d \in Int /\ q + 1 \in Int
    BY <1>1, <1>3, Geometry, SMT
  <2>2. (a + d) % MaxValues = r + d - MaxValues
    BY <2>1, Geometry, ModUnique
  <2> QED
    BY <1>1, <1>3, <2>2 DEF r
<1> QED
  BY <1>2, <1>3

\* The frame of a position is a frame of the buffer.
LEMMA FrameOfPosition ==
  ASSUME NEW p \in Positions
  PROVE  FrameOf(p) \in 0 .. NumFrames - 1
<1>1. p \in Nat /\ p < NumFrames * FrameValues
  BY Geometry DEF Positions
<1>2. p \div FrameValues \in Nat
  BY <1>1, Geometry, DivMod
<1>3. p \div FrameValues < NumFrames
  BY <1>1, Geometry, DivBelow
<1> QED
  BY <1>2, <1>3, Geometry DEF FrameOf

\* So is the frame of a scan.
LEMMA FrameOfScan ==
  ASSUME NEW s \in 0 .. MaxScans - 1
  PROVE  s \div FrameSize \in 0 .. NumFrames - 1
<1>1. s \in Nat /\ s < NumFrames * FrameSize
  BY Geometry, SMT DEF MaxScans
<1>2. s \div FrameSize \in Nat
  BY <1>1, Geometry, DivMod
<1>3. s \div FrameSize < NumFrames
  BY <1>1, Geometry, DivBelow
<1> QED
  BY <1>2, <1>3, Geometry

\* The scan of a position is a scan of the buffer.
LEMMA ScanOfPosition ==
  ASSUME NEW p \in Positions
  PROVE  p \div ScanSize \in 0 .. MaxScans - 1
<1>1. p \in Nat /\ p < MaxScans * ScanSize
  BY Geometry DEF Positions
<1>2. p \div ScanSize \in Nat
  BY <1>1, Geometry, DivMod
<1>3. p \div ScanSize < MaxScans
  BY <1>1, Geometry, DivBelow
<1> QED
  BY <1>2, <1>3, Geometry

-----------------------------------------------------------------------------
(* AInGetScans.                                                            *)

\* The scans handed out lie between the reader and the end of the buffer.
LEMMA ScansInside ==
  ASSUME TypeOK, NEW numScans \in 1 .. MaxScans
  PROVE  /\ ValidScans(numScans) \in 0 .. MaxScans
         /\ scanIndex + ValidScans(numScans) <= MaxScans
<1>1. HeadScan \in 0 .. MaxScans - 1
  BY ScanOfPosition DEF TypeOK, HeadScan
<1>2. scanIndex \in 0 .. MaxScans - 1
  BY DEF TypeOK
<1>3. AvailScans \in 0 .. MaxScans - scanIndex
  BY <1>1, <1>2, Geometry, SMT DEF AvailScans
<1> QED
  BY <1>2, <1>3, Geometry, SMT DEF ValidScans, Least

\* A scan inside the buffer is made of positions of the buffer.
LEMMA ScanPositions ==
  ASSUME NEW s \in Nat, NEW v \in Nat, s + v <= MaxScans,
         NEW i \in 1 .. v * ScanSize
  PROVE  s * ScanSize + i - 1 \in Positions
<1>1. (s + v) * ScanSize <= MaxValues
  BY Geometry, TimesMonotone
<1>2. (s + v) * ScanSize = s * ScanSize + v * ScanSize
  BY Geometry, SMT
<1>3. s * ScanSize \in Nat /\ v * ScanSize \in Nat
  BY Geometry, SMT
<1> QED
  BY <1>1, <1>2, <1>3, Geometry, SMT DEF Positions

LEMMA ReleasedToFrame ==
  ASSUME TypeOK
  PROVE  ReleasedTo \in FrameStarts
<1>1. ScanFrame \in 0 .. NumFrames - 1
  BY FrameOfScan DEF TypeOK, ScanFrame
<1>2. ScanFrame * FrameValues \in FrameStarts
  BY <1>1, FrameInside
<1>3. 0 * FrameValues \in FrameStarts /\ 0 * FrameValues = 0
  BY FrameInside, Geometry, SMT
<1> QED
  BY <1>2, <1>3 DEF ReleasedTo, TypeOK

LEMMA ReleasedInt ==
  ASSUME TypeOK
  PROVE  Released \in Int
<1>1. ScanFrame \in 0 .. NumFrames - 1
  BY FrameOfScan DEF TypeOK, ScanFrame
<1>2. ScanFrame * FrameValues \in Int
  BY <1>1, Geometry, SMT
<1>3. tail \in Int
  BY FrameStartsInside DEF TypeOK, Positions
<1> QED
  BY <1>2, <1>3, Geometry, SMT DEF Released

-----------------------------------------------------------------------------
(* Storing n samples.                                                      *)

LEMMA StoreInside ==
  ASSUME TypeOK, NEW n \in Nat
  PROVE  /\ RoomTail(n) \in FrameStarts
         /\ RoomCount(n) \in 0 .. Word - 1
         /\ ToEnd(n) \in 0 .. n
         /\ EndHead(n) \in Positions
         /\ ToTail(n) \in 0 .. n
         /\ Copied(n) \in 0 .. n
         /\ NewHead(n) \in Positions
         /\ NewCount(n) \in 0 .. Word - 1
<1>0. /\ head \in Nat /\ head < MaxValues
      /\ tail \in FrameStarts /\ tail \in Positions
      /\ count \in 0 .. Word - 1
      /\ Word \in Nat \ {0}
  BY TransferAssumption, FrameStartsInside, Geometry, SMT DEF TypeOK, Positions
<1>1. RoomTail(n) \in FrameStarts
  <2>1. (head + n + FrameValues) % MaxValues \in Positions
    BY <1>0, Geometry, ModRange, SMT DEF Positions
  <2>2. FrameOf((head + n + FrameValues) % MaxValues) * FrameValues \in FrameStarts
    BY <2>1, FrameOfPosition, FrameInside
  <2> QED
    BY <1>0, <2>2 DEF RoomTail
<1>2. RoomTail(n) \in Positions
  BY <1>1, FrameStartsInside
<1>3. RoomCount(n) \in 0 .. Word - 1
  <2>1. Distance(tail, RoomTail(n)) \in Int
    BY <1>0, <1>2, Geometry, SMT DEF Distance, Positions
  <2>2. count - Distance(tail, RoomTail(n)) \in Int
    BY <1>0, <2>1
  <2>3. (count - Distance(tail, RoomTail(n))) % Word \in 0 .. Word - 1
    BY <1>0, <2>2, ModRange
  <2> QED
    BY <1>0, <2>3 DEF RoomCount
<1>4. ToEnd(n) \in 0 .. n
  BY <1>0, <1>2, Geometry, SMT DEF ToEnd, Least, Positions
<1>5. EndHead(n) \in Positions
  <2>1. head + ToEnd(n) \in Int
    BY <1>0, <1>4
  <2> QED
    BY <2>1, Geometry, ModRange DEF EndHead, Positions
<1>6. /\ ToTail(n) \in 0 .. n - ToEnd(n)
      /\ EndHead(n) + ToTail(n) \in Positions
  BY <1>2, <1>4, <1>5, Geometry, SMT DEF ToTail, Least, Positions
<1>7. Copied(n) \in 0 .. n
  BY <1>4, <1>6, SMT DEF Copied
<1>8. NewCount(n) \in 0 .. Word - 1
  <2>1. RoomCount(n) + Copied(n) \in Int
    BY <1>3, <1>7
  <2> QED
    BY <1>0, <2>1, ModRange DEF NewCount
<1> QED
  BY <1>1, <1>3, <1>4, <1>5, <1>6, <1>7, <1>8, SMT DEF NewHead

\* What leaves the FIFO was in it, and what is stored is samples.
LEMMA FetchInside ==
  ASSUME TypeOK, NEW drain \in BOOLEAN
  PROVE  /\ FetchedFromFifo(drain) \in 0 .. Len(fifo)
         /\ FetchedWords(drain) \in Nat
         /\ Polled(drain) \in Nat
         /\ FetchedFromFifo(drain) + Polled(drain) \in 0 .. Len(fifo)
         /\ XferBuf(drain) \in Seq(Samples)
<1>0. fifo \in Seq(Samples) /\ Len(fifo) \in Nat
  BY DEF TypeOK
<1>1. FetchedFromFifo(drain) \in 0 .. Len(fifo)
  BY <1>0, TransferAssumption, SMT DEF FetchedFromFifo, Least
<1>2. FetchedWords(drain) \in Nat
  BY <1>1, TransferAssumption, SMT DEF FetchedWords, Greatest
<1>3. /\ Polled(drain) \in Nat
      /\ FetchedFromFifo(drain) + Polled(drain) \in 0 .. Len(fifo)
  BY <1>0, <1>1, SMT DEF Polled
<1>4. XferBuf(drain) \in Seq(Samples)
  <2> DEFINE more == Polled(drain)
             got  == FetchedFromFifo(drain)
             len  == FetchedWords(drain) + more
  <2>1. len \in Nat
    BY <1>2, <1>3
  <2>2. ASSUME NEW i \in 1 .. len
        PROVE  (IF i <= more THEN fifo[got + i] ELSE IF i <= got THEN fifo[i] ELSE 0) \in Samples
    <3>1. CASE i <= more
      BY <1>0, <1>1, <1>3, <3>1, ElementOfSeq
    <3>2. CASE ~(i <= more) /\ i <= got
      BY <1>0, <1>1, <3>2, ElementOfSeq
    <3>3. CASE ~(i <= more) /\ ~(i <= got)
      BY <3>3, TransferAssumption DEF Samples
    <3> QED
      BY <3>1, <3>2, <3>3
  <2>3. [i \in 1 .. len |-> IF i <= more THEN fifo[got + i] ELSE IF i <= got THEN fifo[i] ELSE 0]
          \in Seq(Samples)
    BY <2>1, <2>2, IsASeq
  <2> QED
    BY <2>3 DEF XferBuf
<1> QED
  BY <1>1, <1>2, <1>3, <1>4

-----------------------------------------------------------------------------
(* Type correctness: every index stays inside the buffer.                  *)

LEMMA InitTypeOK == Init => TypeOK
<1> SUFFICES ASSUME Init PROVE TypeOK
  OBVIOUS
<1>1. 0 \in Positions /\ 0 \in 0 .. MaxScans - 1 /\ 0 \in 0 .. MaxScans
  BY Geometry, SMT DEF Positions
<1>2. 0 \in FrameStarts
  BY FrameInside, Geometry, SMT
<1>3. 0 \in Samples /\ 0 \in 0 .. Word - 1 /\ 0 <= FifoSize
  BY TransferAssumption, SMT DEF Samples
<1>4. <<>> \in Seq(Samples) /\ Len(<<>>) = 0
  BY EmptySeq
<1>5. Blank \in [Positions -> Samples]
  BY <1>3 DEF Blank
<1> QED
  BY <1>1, <1>2, <1>3, <1>4, <1>5 DEF Init, TypeOK, NoLoan, NoStatus

LEMMA ConvertTypeOK == TypeOK /\ Convert => TypeOK'
<1> SUFFICES ASSUME TypeOK, Convert PROVE TypeOK'
  OBVIOUS
<1>1. made' \in Samples
  BY TransferAssumption, SMT DEF TypeOK, Convert, Samples
<1>2. fifo' \in Seq(Samples) /\ Len(fifo') <= FifoSize
  <2>1. made + 1 \in Samples
    BY <1>1 DEF Convert
  <2>2. Len(fifo) \in Nat
    BY DEF TypeOK
  <2>3. CASE Len(fifo) < FifoSize
    <3>1. Append(fifo, made + 1) \in Seq(Samples) /\ Len(Append(fifo, made + 1)) = Len(fifo) + 1
      BY <2>1, AppendProperties DEF TypeOK
    <3> QED
      BY <2>2, <2>3, <3>1, TransferAssumption, SMT DEF Convert
  <2>4. CASE ~(Len(fifo) < FifoSize)
    BY <2>4 DEF Convert, TypeOK
  <2> QED
    BY <2>3, <2>4
<1>3. FHFSC' \in BOOLEAN /\ FFSC' \in BOOLEAN
  BY DEF Convert, TypeOK
<1> QED
  BY <1>1, <1>2, <1>3 DEF TypeOK, Convert, bufInfo, history

LEMMA GetScansTypeOK ==
  ASSUME TypeOK, NEW numScans \in 1 .. MaxScans, GetScans(numScans)
  PROVE  TypeOK'
<1> DEFINE valid == ValidScans(numScans)
<1>1. valid \in 0 .. MaxScans /\ scanIndex + valid <= MaxScans
  BY ScansInside
<1>2. scanIndex' \in 0 .. MaxScans - 1
  <2>1. scanIndex + valid \in Int
    BY <1>1 DEF TypeOK
  <2> QED
    BY <2>1, Geometry, ModRange DEF GetScans
<1>3. tail' \in FrameStarts
  BY ReleasedToFrame DEF GetScans
<1>4. count' \in 0 .. Word - 1
  <2>1. count - Released \in Int
    BY ReleasedInt DEF TypeOK
  <2> QED
    BY <2>1, TransferAssumption, ModRange DEF GetScans
<1>5. loan' \in [first : 0 .. MaxScans - 1, scans : 0 .. MaxScans, ok : BOOLEAN]
  BY <1>1 DEF GetScans, TypeOK
<1>6. delivered' \in Seq(Samples)
  <2>1. ASSUME NEW i \in 1 .. valid * ScanSize
        PROVE  buf[scanIndex * ScanSize + i - 1] \in Samples
    <3>1. scanIndex * ScanSize + i - 1 \in Positions
      BY <1>1, ScanPositions DEF TypeOK
    <3> QED
      BY <3>1 DEF TypeOK
  <2>2. valid * ScanSize \in Nat
    BY <1>1, Geometry, SMT
  <2>3. [i \in 1 .. valid * ScanSize |-> buf[scanIndex * ScanSize + i - 1]] \in Seq(Samples)
    BY <2>1, <2>2, IsASeq
  <2>4. delivered \o [i \in 1 .. valid * ScanSize |-> buf[scanIndex * ScanSize + i - 1]]
          \in Seq(Samples)
    BY <2>3, ConcatProperties DEF TypeOK
  <2> QED
    BY <2>4 DEF GetScans, TypeOK
<1> QED
  BY <1>2, <1>3, <1>4, <1>5, <1>6 DEF TypeOK, GetScans, Ioctl, Locked, board

LEMMA ApplicationTypeOK == TypeOK /\ Application => TypeOK'
<1> SUFFICES ASSUME TypeOK, Application PROVE TypeOK'
  OBVIOUS
<1>0. /\ 0 \in Positions /\ 0 \in 0 .. MaxScans - 1 /\ 0 \in 0 .. MaxScans
      /\ 0 \in FrameStarts
      /\ 0 \in Samples /\ 0 \in 0 .. Word - 1 /\ 0 <= FifoSize
      /\ <<>> \in Seq(Samples) /\ Len(<<>>) = 0
      /\ NoLoan \in [first : 0 .. MaxScans - 1, scans : 0 .. MaxScans, ok : BOOLEAN]
      /\ Blank \in [Positions -> Samples]
  <2>1. 0 \in Positions /\ 0 \in 0 .. MaxScans - 1 /\ 0 \in 0 .. MaxScans
    BY Geometry, SMT DEF Positions
  <2>2. 0 \in FrameStarts
    BY FrameInside, Geometry, SMT
  <2>3. 0 \in Samples /\ 0 \in 0 .. Word - 1 /\ 0 <= FifoSize
    BY TransferAssumption, SMT DEF Samples
  <2> QED
    BY <2>1, <2>2, <2>3, EmptySeq DEF NoLoan, Blank
<1>a. Setup \/ (Unlocked /\ Counted) => setups' \in Nat /\ UNCHANGED <<phase, status>>
  BY DEF Setup, Locked, Unlocked, Counted, TypeOK
<1>b. Ioctl => UNCHANGED <<phase, status, setups>>
  BY DEF Ioctl, Locked
<1>c. \A ok \in BOOLEAN : StopConversions(ok) => converting' \in BOOLEAN
  BY DEF StopConversions, TypeOK
<1>1. ASSUME NEW mode \in Modes, NEW allocated \in BOOLEAN, RegisterDaqBuffer(mode, allocated)
      PROVE  TypeOK'
  <2>1. mode \in [wrap : BOOLEAN, recycle : BOOLEAN]
    BY SwitchAssumption
  <2>2. databuf' \in {"never", "none", "set"} /\ bWrap' \in BOOLEAN /\ bRecycle' \in BOOLEAN
    BY <1>1, <2>1 DEF RegisterDaqBuffer
  <2> QED
    BY <1>0, <1>1, <1>a, <2>2 DEF TypeOK, RegisterDaqBuffer, ForgetRun, board
<1>2. CASE UnregisterDaqBuffer
  <2>1. databuf' \in {"never", "none", "set"}
    BY <1>2 DEF UnregisterDaqBuffer
  <2>2. good' \in Nat /\ initialised' \in BOOLEAN /\ closed' \in BOOLEAN
    BY <1>2 DEF UnregisterDaqBuffer, ForgetRun
  <2> QED
    BY <1>0, <1>2, <1>a, <2>1, <2>2 DEF TypeOK, UnregisterDaqBuffer, ForgetRun, board
<1>3. ASSUME NEW ok \in BOOLEAN, AsyncInit(ok)
      PROVE  TypeOK'
  <2>1. made - Len(fifo) \in Int
    BY DEF TypeOK, Samples
  <2>2. /\ SubsysState' \in {"ssConfig", "ssStandby", "ssRunning", "ssStopped"}
        /\ FHFSC' \in BOOLEAN /\ FFSC' \in BOOLEAN /\ closed' \in BOOLEAN
    BY <1>3 DEF AsyncInit, ClearDaqBuffer, Unbroken, TypeOK
  <2> QED
    BY <1>0, <1>3, <1>a, <2>1, <2>2 DEF TypeOK, AsyncInit, ClearDaqBuffer
<1>4. ASSUME NEW ok \in BOOLEAN, AsyncStart(ok)
      PROVE  TypeOK'
  <2>1. /\ SubsysState' \in {"ssConfig", "ssStandby", "ssRunning", "ssStopped"}
        /\ converting' \in BOOLEAN
    BY <1>4 DEF AsyncStart, TypeOK
  <2> QED
    BY <1>4, <1>b, <2>1 DEF TypeOK, AsyncStart, bufInfo, history
<1>5. ASSUME NEW ok \in BOOLEAN, AsyncStop(ok)
      PROVE  TypeOK'
  <2>1. SubsysState' \in {"ssConfig", "ssStandby", "ssRunning", "ssStopped"}
    BY <1>5 DEF AsyncStop, TypeOK
  <2> QED
    BY <1>5, <1>b, <1>c, <2>1 DEF TypeOK, AsyncStop, bufInfo, history
<1>6. ASSUME NEW ok \in BOOLEAN, AsyncTerm(ok)
      PROVE  TypeOK'
  <2>1. /\ SubsysState' \in {"ssConfig", "ssStandby", "ssRunning", "ssStopped"}
        /\ bCheckHalfDone' \in BOOLEAN
    BY <1>6 DEF AsyncTerm, TypeOK
  <2> QED
    BY <1>6, <1>b, <1>c, <2>1 DEF TypeOK, AsyncTerm, bufInfo, history
<1>7. CASE AsyncInitUnregistered
  BY <1>7, <1>b DEF TypeOK, AsyncInitUnregistered, bufInfo, board, history
<1>8. CASE Reset
  BY <1>0, <1>8, <1>a DEF TypeOK, Reset, bufInfo
<1>9. CASE ClearData
  BY <1>0, <1>9, <1>a DEF TypeOK, ClearData, bufInfo
<1>10. ASSUME NEW numScans \in 1 .. MaxScans, GetScans(numScans)
       PROVE  TypeOK'
  BY <1>10, GetScansTypeOK
<1>11. CASE ImmediateUpdate
  BY <1>11 DEF TypeOK, ImmediateUpdate, ReadBoardStatus, bufInfo, board, history
<1> QED
  BY <1>1, <1>2, <1>3, <1>4, <1>5, <1>6, <1>7, <1>8, <1>9, <1>10, <1>11 DEF Application

\* What every outcome of pd_process_driver_events has in common.
LEMMA ProcessTypeOK ==
  ASSUME TypeOK, Process,
         NEW new \in SUBSET Events, NEW k \in Nat, Conclude(new, k),
         fifo' \in Seq(Samples) /\ Len(fifo') <= FifoSize,
         count' \in 0 .. Word - 1, head' \in Positions, tail' \in FrameStarts,
         buf' \in [Positions -> Samples]
  PROVE  TypeOK'
<1>1. /\ eventsNew' \subseteq Events
      /\ SubsysState' \in {"ssConfig", "ssStandby", "ssRunning", "ssStopped"}
      /\ converting' \in BOOLEAN
  BY DEF TypeOK, Conclude, StopConversions
<1>2. FHFSC' \in BOOLEAN /\ closed' \in BOOLEAN
  BY DEF TypeOK, Conclude
<1>3. good' \in Nat
  BY DEF TypeOK, Conclude
<1> QED
  BY <1>1, <1>2, <1>3 DEF TypeOK, Process

LEMMA EventSets ==
  /\ ErrorEvents \in SUBSET Events
  /\ FullEvents \in SUBSET Events
  /\ \A n \in Nat : StoreEvents(n) \in SUBSET Events
BY DEF ErrorEvents, FullEvents, StoreEvents, Events

\* A suffix of the FIFO.
LEMMA SuffixTypeOK ==
  ASSUME TypeOK, NEW m \in 0 .. Len(fifo)
  PROVE  /\ SubSeq(fifo, m + 1, Len(fifo)) \in Seq(Samples)
         /\ Len(SubSeq(fifo, m + 1, Len(fifo))) = Len(fifo) - m
         /\ Len(SubSeq(fifo, m + 1, Len(fifo))) <= FifoSize
<1>1. fifo \in Seq(Samples) /\ Len(fifo) \in Nat /\ Len(fifo) <= FifoSize
  BY DEF TypeOK
<1>2. m + 1 \in 1 .. Len(fifo) + 1 /\ Len(fifo) \in m .. Len(fifo)
  BY <1>1
<1>3. /\ SubSeq(fifo, m + 1, Len(fifo)) \in Seq(Samples)
      /\ Len(SubSeq(fifo, m + 1, Len(fifo))) = IF m + 1 <= Len(fifo) THEN Len(fifo) - (m + 1) + 1 ELSE 0
  BY <1>1, <1>2, SubSeqProperties
<1> QED
  BY <1>1, <1>3, TransferAssumption, SMT

LEMMA ProcessDriverEventsTypeOK == TypeOK /\ ProcessDriverEvents => TypeOK'
<1> SUFFICES ASSUME TypeOK, ProcessDriverEvents PROVE TypeOK'
  OBVIOUS
<1>0. /\ count \in 0 .. Word - 1 /\ head \in Positions /\ tail \in FrameStarts
      /\ buf \in [Positions -> Samples]
      /\ fifo \in Seq(Samples) /\ Len(fifo) <= FifoSize /\ Len(fifo) \in Nat
      /\ 0 \in Nat
  BY DEF TypeOK
<1>1. CASE ProcessNothing
  <2>1. {} \in SUBSET Events
    OBVIOUS
  <2> QED
    BY <1>0, <1>1, <2>1, ProcessTypeOK DEF ProcessNothing, KeepBuffer
<1>2. CASE ProcessUnregistered
  <2>1. ErrorEvents \cup {"eStopped"} \in SUBSET Events
    BY EventSets DEF Events
  <2> QED
    BY <1>0, <1>2, <2>1, ProcessTypeOK DEF ProcessUnregistered, KeepBuffer
<1>3. CASE ProcessFetchFails
  <2>1. PICK lost \in {FetchedFromFifo(FALSE), FetchedFromFifo(TRUE)}
                        \cup (IF status.fhf THEN {} ELSE {0}) :
          fifo' = SubSeq(fifo, lost + 1, Len(fifo))
    BY <1>3 DEF ProcessFetchFails
  <2>2. lost \in 0 .. Len(fifo)
    <3>1. FetchedFromFifo(FALSE) \in 0 .. Len(fifo) /\ FetchedFromFifo(TRUE) \in 0 .. Len(fifo)
      BY FetchInside
    <3>2. 0 \in 0 .. Len(fifo)
      BY <1>0
    <3> QED
      BY <2>1, <3>1, <3>2
  <2>3. fifo' \in Seq(Samples) /\ Len(fifo') <= FifoSize
    BY <2>1, <2>2, SuffixTypeOK
  <2> QED
    BY <1>0, <1>3, <2>3, EventSets, ProcessTypeOK DEF ProcessFetchFails, KeepBuffer
<1>4. ASSUME NEW drain \in BOOLEAN, ProcessSamples(drain)
      PROVE  TypeOK'
  <2> DEFINE xfer == XferBuf(drain)
             n    == Len(xfer)
  <2>1. xfer \in Seq(Samples) /\ n \in Nat
    BY FetchInside, LenProperties
  <2>2. fifo' \in Seq(Samples) /\ Len(fifo') <= FifoSize
    <3>1. FetchedFromFifo(drain) + Polled(drain) \in 0 .. Len(fifo)
      BY FetchInside
    <3> QED
      BY <1>4, <3>1, SuffixTypeOK DEF ProcessSamples
  <2>3. Process
    BY <1>4 DEF ProcessSamples
  <2>4. CASE n = 0
    <3>1. Conclude(ErrorEvents, 0) /\ KeepBuffer
      BY <1>4, <2>4 DEF ProcessSamples
    <3> QED
      BY <1>0, <2>2, <2>3, <3>1, EventSets, ProcessTypeOK DEF KeepBuffer
  <2>5. CASE n # 0 /\ BufferFull
    <3>1. Conclude(ErrorEvents \cup FullEvents, 0) /\ KeepBuffer
      BY <1>4, <2>5 DEF ProcessSamples
    <3>2. ErrorEvents \cup FullEvents \in SUBSET Events
      BY EventSets
    <3> QED
      BY <1>0, <2>2, <2>3, <3>1, <3>2, ProcessTypeOK DEF KeepBuffer
  <2>6. CASE n # 0 /\ ~BufferFull
    <3>1. Conclude(ErrorEvents \cup StoreEvents(n), Copied(n)) /\ Store(xfer)
      BY <1>4, <2>6 DEF ProcessSamples
    <3>2. ErrorEvents \cup StoreEvents(n) \in SUBSET Events
      BY <2>1, EventSets
    <3>3. /\ RoomTail(n) \in FrameStarts
          /\ Copied(n) \in 0 .. n
          /\ NewHead(n) \in Positions
          /\ NewCount(n) \in 0 .. Word - 1
      BY <2>1, StoreInside
    <3>4. count' \in 0 .. Word - 1 /\ head' \in Positions /\ tail' \in FrameStarts
      BY <3>1, <3>3 DEF Store
    <3>5. buf' \in [Positions -> Samples]
      <4>1. ASSUME NEW p \in Positions, Distance(head, p) < Copied(n)
            PROVE  xfer[Distance(head, p) + 1] \in Samples
        <5>1. Distance(head, p) \in Nat
          BY <1>0, Geometry, SMT DEF Distance, Positions
        <5>2. Distance(head, p) + 1 \in 1 .. n
          BY <2>1, <3>3, <4>1, <5>1
        <5> QED
          BY <2>1, <5>2, ElementOfSeq
      <4>2. buf' = [p \in Positions |-> IF Distance(head, p) < Copied(n)
                                        THEN xfer[Distance(head, p) + 1] ELSE buf[p]]
        BY <3>1 DEF Store
      <4> QED
        BY <1>0, <4>1, <4>2
    <3>6. Copied(n) \in Nat
      BY <2>1, <3>3
    <3> QED
      BY <2>2, <2>3, <3>1, <3>2, <3>4, <3>5, <3>6, ProcessTypeOK
  <2> QED
    BY <2>4, <2>5, <2>6
<1> QED
  BY <1>1, <1>2, <1>3, <1>4 DEF ProcessDriverEvents

LEMMA NextTypeOK == TypeOK /\ [Next]_vars => TypeOK'
<1> SUFFICES ASSUME TypeOK, [Next]_vars PROVE TypeOK'
  OBVIOUS
<1>1. CASE Convert
  BY <1>1, ConvertTypeOK
<1>2. CASE Application
  BY <1>2, ApplicationTypeOK
<1>3. CASE BottomHalf
  BY <1>3 DEF TypeOK, BottomHalf, ReadBoardStatus, bufInfo, board, history
<1>4. CASE ProcessDriverEvents
  BY <1>4, ProcessDriverEventsTypeOK
<1>5. ASSUME NEW waitedFor \in Waits, NotifyUserEvents(waitedFor)
      PROVE  TypeOK'
  <2>1. eventsNew' \subseteq Events
    BY <1>5 DEF NotifyUserEvents, TypeOK
  <2>2. status' \in [ff : BOOLEAN, fhf : BOOLEAN, imm : BOOLEAN]
    BY <1>5 DEF NotifyUserEvents, NoStatus
  <2> QED
    BY <1>5, <2>1, <2>2 DEF TypeOK, NotifyUserEvents, bufInfo, board, history
<1>6. CASE UNCHANGED vars
  BY <1>6 DEF TypeOK, vars, bufInfo, board, history
<1> QED
  BY <1>1, <1>2, <1>3, <1>4, <1>5, <1>6 DEF Next, Handler

\* The indices with which pd_process_pd_ain_get_samples and pd_ain_get_scans
\* address the DAQ buffer stay inside it in every mode, also in recycle mode,
\* where count is not the length of the queue, and whatever fails.
THEOREM TypeCorrect == Spec => []TypeOK
<1>1. Init => TypeOK
  BY InitTypeOK
<1>2. TypeOK /\ [Next]_vars => TypeOK'
  BY NextTypeOK
<1> QED
  BY <1>1, <1>2, PTL DEF Spec
-----------------------------------------------------------------------------
(* The queue invariant: in the single-run and wrapped modes, count, head,  *)
(* tail and scanIndex, kept by two functions with different rules, always  *)
(* describe one queue.                                                     *)

\* TypeOK and QueueOK together are inductive: QueueOK needs the ranges.
QueueIInv == TypeOK /\ QueueOK

\* Where the reader is, in values, and how many values lie before it.
Reader == scanIndex * ScanSize
Unread == count - Distance(tail, Reader)

\* What QueueOK says of the four numbers of a buffer in use.
QueueNumbers ==
  /\ count = Distance(tail, head) \/ (count = MaxValues /\ head = tail)
  /\ Distance(tail, Reader) <= count

\* Storing, in a buffer that is not recycled: as many samples as there is room
\* for are copied, and the head moves by as many, around the end of the buffer.
LEMMA StoreKeepsQueue ==
  ASSUME TypeOK, QueueNumbers, ~bRecycle, ~BufferFull, NEW n \in Nat
  PROVE  /\ RoomTail(n) = tail
         /\ NewCount(n) = count + Copied(n)
         /\ count + Copied(n) <= MaxValues
         /\ NewHead(n) = IF head + Copied(n) < MaxValues THEN head + Copied(n)
                         ELSE head + Copied(n) - MaxValues
         /\ Copied(n) < n => count + Copied(n) = MaxValues
         /\ \/ NewCount(n) = Distance(tail, NewHead(n))
            \/ NewCount(n) = MaxValues /\ NewHead(n) = tail
<1>0. /\ head \in Nat /\ head < MaxValues
      /\ tail \in Nat /\ tail < MaxValues
      /\ count \in Nat /\ count < Word
      /\ MaxValues \in Nat \ {0} /\ Word \in Nat \ {0} /\ MaxValues < Word
  BY TransferAssumption, FrameStartsInside, Geometry, SMT DEF TypeOK, Positions
<1>1. RoomTail(n) = tail /\ RoomCount(n) = count
  BY DEF RoomTail, RoomCount, Recycles
<1>2. count = Distance(tail, head) /\ count # MaxValues
  BY DEF QueueNumbers, BufferFull
<1>3. /\ ToEnd(n) = IF head >= tail THEN Least(n, MaxValues - head) ELSE 0
      /\ ToEnd(n) \in Nat
      /\ head + ToEnd(n) <= MaxValues
      /\ head < tail => ToEnd(n) = 0
  BY <1>0, <1>1, SMT DEF ToEnd, Least
<1>4. EndHead(n) = IF head + ToEnd(n) = MaxValues THEN 0 ELSE head + ToEnd(n)
  <2>1. head + ToEnd(n) \in Nat
    BY <1>0, <1>3
  <2> QED
    BY <1>0, <1>3, <2>1, ModSmall DEF EndHead
<1>5. /\ ToTail(n) \in Nat
      /\ ToTail(n) = IF EndHead(n) < tail THEN Least(n - ToEnd(n), tail - EndHead(n)) ELSE 0
      /\ EndHead(n) < tail => EndHead(n) + ToTail(n) <= tail
      /\ EndHead(n) >= tail => ToTail(n) = 0
  <2>1. n - ToEnd(n) \in Nat
    BY <1>0, <1>1, <1>3, SMT DEF ToEnd, Least
  <2> QED
    BY <1>0, <1>1, <1>3, <1>4, <2>1, SMT DEF ToTail, Least
<1>6. count + Copied(n) <= MaxValues /\ count + Copied(n) >= count /\ count + Copied(n) \in Nat
  BY <1>0, <1>2, <1>3, <1>4, <1>5, SMT DEF Copied, Distance
<1>7. NewCount(n) = count + Copied(n)
  BY <1>0, <1>1, <1>6, ModSmall DEF NewCount
<1>8. \/ count + Copied(n) = Distance(tail, NewHead(n))
      \/ count + Copied(n) = MaxValues /\ NewHead(n) = tail
  BY <1>0, <1>2, <1>3, <1>4, <1>5, SMT DEF Copied, NewHead, Distance
<1>9. NewHead(n) = IF head + Copied(n) < MaxValues THEN head + Copied(n)
                   ELSE head + Copied(n) - MaxValues
  BY <1>0, <1>3, <1>4, <1>5, SMT DEF Copied, NewHead
<1>10. Copied(n) < n => count + Copied(n) = MaxValues
  BY <1>0, <1>2, <1>3, <1>4, <1>5, SMT DEF Copied, Distance, Least
<1> QED
  BY <1>1, <1>6, <1>7, <1>8, <1>9, <1>10

\* Where the scans that AInGetScans hands out lie, in values.
LEMMA ScansPlace ==
  ASSUME TypeOK, NEW numScans \in 1 .. MaxScans
  PROVE  LET s == scanIndex * ScanSize
             e == s + ValidScans(numScans) * ScanSize
         IN  /\ s \in Nat /\ s < MaxValues
             /\ e \in Nat /\ s <= e /\ e <= MaxValues
             /\ \/ e = s
                \/ s < head /\ e <= head
                \/ head < s
             /\ ((scanIndex + ValidScans(numScans)) % MaxScans) * ScanSize
                  = IF e = MaxValues THEN 0 ELSE e
<1> DEFINE s == scanIndex * ScanSize
           valid == ValidScans(numScans)
           e == s + valid * ScanSize
<1>0. /\ scanIndex \in Nat /\ scanIndex <= MaxScans - 1
      /\ head \in Nat /\ head < MaxValues /\ head \in Positions
  BY Geometry, SMT DEF TypeOK, Positions
<1>1. valid \in Nat /\ scanIndex + valid <= MaxScans
  BY ScansInside
<1>2. s \in Nat /\ valid * ScanSize \in Nat /\ e = (scanIndex + valid) * ScanSize
  BY <1>0, <1>1, Geometry, SMT
<1>3. s < MaxValues
  <2>1. s <= (MaxScans - 1) * ScanSize
    BY <1>0, Geometry, TimesMonotone
  <2>2. (MaxScans - 1) * ScanSize = MaxValues - ScanSize
    BY Geometry, SMT
  <2> QED
    BY <1>2, <2>1, <2>2, Geometry, SMT
<1>4. e <= MaxValues
  <2>1. (scanIndex + valid) * ScanSize <= MaxScans * ScanSize
    BY <1>0, <1>1, Geometry, TimesMonotone
  <2> QED
    BY <1>2, <2>1, Geometry
<1>5. /\ HeadScan \in Nat
      /\ HeadScan * ScanSize <= head
      /\ head < HeadScan * ScanSize + ScanSize
  BY <1>0, Geometry, DivMod DEF HeadScan
<1>6. \/ e = s
      \/ s < head /\ e <= head
      \/ head < s
  <2>1. CASE scanIndex < HeadScan
    <3>1. valid <= HeadScan - scanIndex
      BY <2>1, <1>0, <1>5, Geometry, SMT DEF ValidScans, AvailScans, Least
    <3>2. (scanIndex + valid) * ScanSize <= HeadScan * ScanSize
      BY <1>0, <1>1, <1>5, <3>1, Geometry, TimesMonotone
    <3>3. e <= head
      BY <1>0, <1>2, <1>5, <3>2, Geometry, SMT
    <3>4. (scanIndex + 1) * ScanSize <= HeadScan * ScanSize
      BY <1>0, <1>5, <2>1, Geometry, TimesMonotone
    <3>5. (scanIndex + 1) * ScanSize = s + ScanSize
      BY <1>0, Geometry, SMT
    <3>6. s < head
      BY <1>0, <1>2, <1>5, <3>4, <3>5, Geometry, SMT
    <3> QED
      BY <3>3, <3>6
  <2>2. CASE HeadScan < scanIndex
    <3>1. (HeadScan + 1) * ScanSize <= scanIndex * ScanSize
      BY <1>0, <1>5, <2>2, Geometry, TimesMonotone
    <3>2. (HeadScan + 1) * ScanSize = HeadScan * ScanSize + ScanSize
      BY <1>5, Geometry, SMT
    <3> QED
      BY <1>0, <1>5, <3>1, <3>2, Geometry, SMT
  <2>3. CASE scanIndex = HeadScan
    <3>1. valid = 0
      BY <2>3, <1>0, Geometry, SMT DEF ValidScans, AvailScans, Least
    <3> QED
      BY <1>2, <3>1, Geometry, SMT
  <2> QED
    BY <1>0, <1>5, <2>1, <2>2, <2>3
<1>7. ((scanIndex + valid) % MaxScans) * ScanSize = IF e = MaxValues THEN 0 ELSE e
  <2>1. CASE scanIndex + valid = MaxScans
    <3>1. (scanIndex + valid) % MaxScans = 0 /\ e = MaxValues
      BY <1>0, <1>1, <1>2, <2>1, Geometry, ModSmall
    <3> QED
      BY <3>1, Geometry, SMT
  <2>2. CASE scanIndex + valid < MaxScans
    <3>1. (scanIndex + valid) % MaxScans = scanIndex + valid
      BY <1>0, <1>1, <2>2, Geometry, ModSmall
    <3>2. (scanIndex + valid) * ScanSize <= (MaxScans - 1) * ScanSize
      BY <1>0, <1>1, <2>2, Geometry, TimesMonotone
    <3>3. (MaxScans - 1) * ScanSize = MaxValues - ScanSize
      BY Geometry, SMT
    <3>4. e < MaxValues
      BY <1>2, <3>2, <3>3, Geometry, SMT
    <3> QED
      BY <1>2, <3>1, <3>4
  <2>3. scanIndex + valid = MaxScans \/ scanIndex + valid < MaxScans
    BY <1>0, <1>1, Geometry, SMT
  <2> HIDE DEF e
  <2> QED
    BY <2>1, <2>2, <2>3
<1> QED
  BY <1>2, <1>3, <1>4, <1>6, <1>7

\* What AInGetScans releases: whole frames between the tail and the reader.
LEMMA ReleasePlace ==
  ASSUME TypeOK
  PROVE  LET s == scanIndex * ScanSize
         IN  \/ ReleasedTo = tail /\ Released = 0
             \/ /\ tail < ReleasedTo /\ ReleasedTo <= s
                /\ Released = ReleasedTo - tail
             \/ /\ s < tail /\ ReleasedTo = 0
                /\ Released = MaxValues - tail
<1> DEFINE s == scanIndex * ScanSize
<1>0. PICK f \in 0 .. NumFrames - 1 : tail = f * FrameValues
  BY DEF TypeOK, FrameStarts
<1>1. tail \in Nat /\ FrameValues = FrameSize * ScanSize
  BY <1>0, Geometry, SMT DEF FrameValues
<1>2. TailFrame = f
  <2>1. tail = (f * FrameSize) * ScanSize
    BY <1>0, <1>1, Geometry, SMT
  <2>2. f * FrameSize \in Nat
    BY Geometry, SMT
  <2>3. tail \div ScanSize = f * FrameSize
    BY <2>1, <2>2, Geometry, DivExact
  <2>4. (f * FrameSize) \div FrameSize = f
    BY Geometry, DivExact
  <2> QED
    BY <2>3, <2>4 DEF TailFrame
<1>3. /\ scanIndex \in Nat
      /\ ScanFrame \in Nat
      /\ ScanFrame * FrameSize <= scanIndex
      /\ scanIndex + 1 <= ScanFrame * FrameSize + FrameSize
  <2>1. scanIndex \in Nat
    BY Geometry, SMT DEF TypeOK
  <2>2. /\ ScanFrame \in Nat
        /\ ScanFrame * FrameSize <= scanIndex
        /\ scanIndex < ScanFrame * FrameSize + FrameSize
    BY <2>1, Geometry, DivMod DEF ScanFrame
  <2>3. ScanFrame * FrameSize \in Nat
    BY <2>2, Geometry, SMT
  <2> QED
    BY <2>1, <2>2, <2>3, Geometry
<1>4. ScanFrame * FrameValues <= s
  <2>1. (ScanFrame * FrameSize) * ScanSize <= scanIndex * ScanSize
    BY <1>3, Geometry, TimesMonotone
  <2> QED
    BY <1>1, <1>3, <2>1, Geometry, SMT
<1>5. CASE ScanFrame > f
  <2>1. (f + 1) * FrameValues <= ScanFrame * FrameValues
    BY <1>3, <1>5, Geometry, TimesMonotone
  <2>2. (f + 1) * FrameValues = tail + FrameValues
    BY <1>0, Geometry, SMT
  <2>3. ScanFrame * FrameValues \in Nat
    BY <1>3, Geometry, SMT
  <2> QED
    BY <1>1, <1>2, <1>3, <1>4, <1>5, <2>1, <2>2, <2>3, Geometry DEF ReleasedTo, Released
<1>6. CASE ScanFrame < f
  <2>1. (scanIndex + 1) * ScanSize <= (ScanFrame * FrameSize + FrameSize) * ScanSize
    BY <1>3, Geometry, TimesMonotone
  <2>2. (ScanFrame * FrameSize + FrameSize) * ScanSize = (ScanFrame + 1) * FrameValues
    BY <1>1, <1>3, Geometry, SMT
  <2>3. (ScanFrame + 1) * FrameValues <= f * FrameValues
    BY <1>3, <1>6, Geometry, TimesMonotone
  <2>4. (scanIndex + 1) * ScanSize = s + ScanSize /\ s \in Nat
    BY <1>3, Geometry, SMT
  <2>5. (ScanFrame + 1) * FrameValues \in Nat
    BY <1>3, Geometry, SMT
  <2>6. s + ScanSize <= tail
    BY <1>0, <1>1, <2>1, <2>2, <2>3, <2>4, <2>5, Geometry
  <2>7. s < tail
    BY <1>1, <2>4, <2>6, Geometry
  <2> QED
    BY <1>2, <1>3, <1>6, <2>7 DEF ReleasedTo, Released
<1>7. CASE ScanFrame = f
  BY <1>2, <1>7, <1>1 DEF ReleasedTo, Released
<1> QED
  BY <1>3, <1>5, <1>6, <1>7

\* AInGetScans moves the reader within the queue, and releases at most the
\* values before it: what is unread afterwards is what it did not hand out.
\* (When the last value of a full buffer is handed out at its end, the reader
\* is at the tail again, and the numbers do not tell the buffer from a full one
\* of which nothing has been read.)
LEMMA GetScansTakes ==
  ASSUME TypeOK, QueueNumbers, NEW numScans \in 1 .. MaxScans, GetScans(numScans)
  PROVE  /\ QueueNumbers'
         /\ count' = count - Released
         /\ Unread' >= Unread - ValidScans(numScans) * ScanSize
         /\ count < MaxValues => Unread' = Unread - ValidScans(numScans) * ScanSize
         /\ Distance(tail', Reader) + ValidScans(numScans) * ScanSize <= count'
         /\ ValidScans(numScans) > 0 => count' > 0
<1> DEFINE s == scanIndex * ScanSize
           e == s + ValidScans(numScans) * ScanSize
           s2 == scanIndex' * ScanSize
<1>0. /\ head \in Nat /\ head < MaxValues
      /\ tail \in Nat /\ tail < MaxValues
      /\ count \in Nat /\ count < Word
      /\ MaxValues \in Nat \ {0} /\ Word \in Nat \ {0} /\ MaxValues < Word
  BY TransferAssumption, FrameStartsInside, Geometry, SMT DEF TypeOK, Positions
<1>1. /\ s \in Nat /\ s < MaxValues
      /\ e \in Nat /\ s <= e /\ e <= MaxValues
      /\ \/ e = s
         \/ s < head /\ e <= head
         \/ head < s
      /\ s2 = IF e = MaxValues THEN 0 ELSE e
  BY ScansPlace DEF GetScans
<1>2. \/ ReleasedTo = tail /\ Released = 0
      \/ /\ tail < ReleasedTo /\ ReleasedTo <= s
         /\ Released = ReleasedTo - tail
      \/ /\ s < tail /\ ReleasedTo = 0
         /\ Released = MaxValues - tail
  BY ReleasePlace
<1>3. ReleasedTo \in Nat
  <2>1. ReleasedTo \in Positions
    BY ReleasedToFrame, FrameStartsInside
  <2> QED
    BY <2>1 DEF Positions
<1>4. /\ count = Distance(tail, head) \/ (count = MaxValues /\ head = tail)
      /\ Distance(tail, s) <= count
  BY DEF QueueNumbers, Reader
<1>5. ValidScans(numScans) * ScanSize = e - s
  BY <1>1, ScansInside, Geometry, SMT
<1>6. ValidScans(numScans) > 0 => e > s
  <2>1. ASSUME ValidScans(numScans) > 0
        PROVE  1 * ScanSize <= ValidScans(numScans) * ScanSize
    BY <2>1, ScansInside, Geometry, TimesMonotone
  <2> QED
    BY <1>1, <1>5, <2>1, Geometry, SMT
<1>7. count' = (count - Released) % Word /\ head' = head /\ tail' = ReleasedTo
  BY DEF GetScans
<1> HIDE DEF s, e, s2
<1>8. count - Released \in Nat /\ count - Released < Word
  BY <1>0, <1>1, <1>2, <1>3, <1>4, SMT DEF Distance
<1>9. count' = count - Released
  BY <1>0, <1>7, <1>8, ModSmall
<1>10. \/ count - Released = Distance(ReleasedTo, head)
       \/ count - Released = MaxValues /\ head = ReleasedTo
  BY <1>0, <1>1, <1>2, <1>3, <1>4, SMT DEF Distance
<1>11. Distance(ReleasedTo, s2) <= count - Released
  BY <1>0, <1>1, <1>2, <1>3, <1>4, SMT DEF Distance
<1>12. /\ count - Released - Distance(ReleasedTo, s2) >= count - Distance(tail, s) - (e - s)
       /\ count < MaxValues =>
            count - Released - Distance(ReleasedTo, s2) = count - Distance(tail, s) - (e - s)
  BY <1>0, <1>1, <1>2, <1>3, <1>4, SMT DEF Distance
<1>13. Distance(ReleasedTo, s) + (e - s) <= count - Released
  BY <1>0, <1>1, <1>2, <1>3, <1>4, SMT DEF Distance
<1>14. e > s => count - Released > 0
  BY <1>0, <1>1, <1>2, <1>3, <1>4, <1>13, SMT DEF Distance
<1>15. QueueNumbers'
  BY <1>7, <1>9, <1>10, <1>11 DEF QueueNumbers, Reader, Distance, s2
<1>16. /\ Unread' >= Unread - ValidScans(numScans) * ScanSize
       /\ count < MaxValues => Unread' = Unread - ValidScans(numScans) * ScanSize
  BY <1>5, <1>7, <1>9, <1>12 DEF Unread, Reader, Distance, s, s2
<1>17. Distance(tail', Reader) + ValidScans(numScans) * ScanSize <= count'
  BY <1>5, <1>7, <1>9, <1>13 DEF Reader, Distance, s
<1> QED
  BY <1>6, <1>9, <1>14, <1>15, <1>16, <1>17

LEMMA GetScansKeepsQueue ==
  ASSUME TypeOK, QueueOK, NEW numScans \in 1 .. MaxScans, GetScans(numScans)
  PROVE  QueueOK'
<1> SUFFICES ASSUME initialised, ~bRecycle
             PROVE  QueueNumbers'
  BY DEF QueueOK, QueueNumbers, Reader, GetScans, Distance
<1>1. QueueNumbers
  BY DEF QueueOK, QueueNumbers, Reader
<1> QED
  BY <1>1, GetScansTakes

\* The bottom half and ImmediateUpdate store within the room the queue has.
LEMMA ProcessKeepsQueue ==
  ASSUME TypeOK, QueueOK, ProcessDriverEvents
  PROVE  QueueOK'
<1>0. UNCHANGED <<initialised, bRecycle, scanIndex>>
  BY DEF ProcessDriverEvents, ProcessNothing, ProcessUnregistered, ProcessFetchFails,
         ProcessSamples, Process
<1>1. CASE KeepBuffer
  BY <1>0, <1>1 DEF KeepBuffer, QueueOK, Distance
<1>2. ASSUME NEW drain \in BOOLEAN, ~BufferFull, Store(XferBuf(drain)), initialised, ~bRecycle
      PROVE  QueueOK'
  <2> DEFINE n == Len(XferBuf(drain))
  <2>1. n \in Nat
    BY FetchInside, LenProperties
  <2>2. count' = NewCount(n) /\ head' = NewHead(n) /\ tail' = RoomTail(n)
    BY <1>2 DEF Store
  <2> HIDE DEF n
  <2>3. /\ tail' = tail
        /\ count' = count + Copied(n)
        /\ \/ count' = Distance(tail, head')
           \/ count' = MaxValues /\ head' = tail
    <3>1. QueueNumbers
      BY <1>2 DEF QueueOK, QueueNumbers, Reader
    <3> QED
      BY <1>2, <2>1, <2>2, <3>1, StoreKeepsQueue
  <2>4. count \in Nat /\ Copied(n) \in Nat
    BY <2>1, <2>2, StoreInside, TransferAssumption DEF TypeOK
  <2>5. Distance(tail, scanIndex * ScanSize) \in Int
    <3>1. scanIndex * ScanSize \in Int /\ tail \in Int
      BY Geometry, FrameStartsInside, SMT DEF TypeOK, Positions
    <3> QED
      BY <3>1, Geometry DEF Distance
  <2>6. Distance(tail, scanIndex * ScanSize) <= count'
    BY <1>2, <2>3, <2>4, <2>5 DEF QueueOK
  <2> QED
    BY <1>0, <2>3, <2>6 DEF QueueOK, Distance
<1> QED
  BY <1>0, <1>1, <1>2 DEF ProcessDriverEvents, ProcessNothing, ProcessUnregistered,
                          ProcessFetchFails, ProcessSamples, QueueOK

\* A buffer is a queue again as soon as it is cleared.
LEMMA ApplicationKeepsQueue ==
  ASSUME TypeOK, QueueOK, Application
  PROVE  QueueOK'
<1>1. ASSUME NEW mode \in Modes, NEW allocated \in BOOLEAN, RegisterDaqBuffer(mode, allocated)
      PROVE  QueueOK'
  BY <1>1 DEF RegisterDaqBuffer, ForgetRun, QueueOK
<1>2. CASE UnregisterDaqBuffer
  BY <1>2 DEF UnregisterDaqBuffer, ForgetRun, QueueOK
<1>3. ASSUME NEW ok \in BOOLEAN, AsyncInit(ok)
      PROVE  QueueOK'
  <2>1. count' = 0 /\ head' = 0 /\ tail' = 0 /\ scanIndex' = 0
    BY <1>3 DEF AsyncInit, ClearDaqBuffer
  <2>2. 0 * ScanSize = 0
    BY Geometry, SMT
  <2> QED
    BY <2>1, <2>2 DEF QueueOK, Distance
<1>4. ASSUME NEW numScans \in 1 .. MaxScans, GetScans(numScans)
      PROVE  QueueOK'
  BY <1>4, GetScansKeepsQueue
<1>5. ASSUME UNCHANGED <<bufInfo, initialised>>
      PROVE  QueueOK'
  BY <1>5 DEF bufInfo, QueueOK, Distance
<1> QED
  BY <1>1, <1>2, <1>3, <1>4, <1>5
     DEF Application, AsyncStart, AsyncStop, AsyncTerm, AsyncInitUnregistered, Reset, ClearData,
         ImmediateUpdate, ReadBoardStatus, history

LEMMA NextKeepsQueue == QueueIInv /\ [Next]_vars => QueueIInv'
<1> SUFFICES ASSUME TypeOK, QueueOK, [Next]_vars PROVE QueueOK'
  BY NextTypeOK DEF QueueIInv
<1>1. CASE Application
  BY <1>1, ApplicationKeepsQueue
<1>2. CASE ProcessDriverEvents
  BY <1>2, ProcessKeepsQueue
<1>3. ASSUME UNCHANGED <<bufInfo, initialised>>
      PROVE  QueueOK'
  BY <1>3 DEF bufInfo, QueueOK, Distance
<1> QED
  BY <1>1, <1>2, <1>3 DEF Next, Convert, Handler, BottomHalf, ReadBoardStatus, NotifyUserEvents,
                          history, vars

\* In the single-run and wrapped modes, whatever the geometry, the sizes of the
\* transfers and the interleaving of the two functions that keep the indices,
\* and whatever fails: Count is the number of values between Tail and Head, and
\* ScanIndex lies between them.
THEOREM QueueCorrect == Spec => []QueueOK
<1>1. Init => QueueIInv
  BY InitTypeOK DEF Init, QueueIInv, QueueOK
<1>2. QueueIInv /\ [Next]_vars => QueueIInv'
  BY NextKeepsQueue
<1>3. QueueIInv => QueueOK
  BY DEF QueueIInv
<1> QED
  BY <1>1, <1>2, <1>3, PTL DEF Spec
-----------------------------------------------------------------------------
(* The kinds of steps, as the samples of a run see them.                   *)

KeepRun == UNCHANGED <<bRecycle, scanIndex, initialised, base, delivered, loan>>

\* Nothing is stored or taken; the run may be closed.
QuietStep ==
  /\ UNCHANGED <<count, head, tail, buf, good>> /\ KeepRun
  /\ closed => closed'

\* (Un)registering a buffer.
ForgetStep == ForgetRun /\ UNCHANGED <<count, head, tail, scanIndex>>

\* AInAsyncInit.
ClearStep == ClearDaqBuffer /\ UNCHANGED <<bRecycle, made, fifo>>

\* The bottom half stores samples.
StoreStep(drain) ==
  LET n == Len(XferBuf(drain)) IN
  /\ phase = "process"
  /\ drain => status.fhf
  /\ ~BufferFull
  /\ Store(XferBuf(drain)) /\ KeepRun
  /\ fifo' = SubSeq(fifo, FetchedFromFifo(drain) + Polled(drain) + 1, Len(fifo))
  /\ good' = IF closed \/ FifoError THEN good ELSE good + Copied(n)
  /\ closed' = (closed \/ FifoError \/ NowFull(n))
  /\ eventsNew' = eventsNew \cup ErrorEvents \cup StoreEvents(n)

LEMMA ConcludeQuietly ==
  ASSUME TypeOK, Process, NEW new, Conclude(new, 0), KeepBuffer
  PROVE  QuietStep
<1>1. good + 0 = good
  BY DEF TypeOK
<1> QED
  BY <1>1 DEF Process, Conclude, KeepBuffer, QuietStep, KeepRun

LEMMA SamplesStored ==
  ASSUME NEW drain \in BOOLEAN, ProcessSamples(drain), Len(XferBuf(drain)) # 0, ~BufferFull
  PROVE  StoreStep(drain)
<1> DEFINE n == Len(XferBuf(drain))
<1>1. Process /\ Conclude(ErrorEvents \cup StoreEvents(n), Copied(n)) /\ Store(XferBuf(drain))
  BY DEF ProcessSamples
<1>2. "eStopped" \in ErrorEvents \cup StoreEvents(n) <=> FifoError \/ NowFull(n)
  BY DEF ErrorEvents, StoreEvents, FullEvents
<1> HIDE DEF n
<1>3. /\ eventsNew' = eventsNew \cup ErrorEvents \cup StoreEvents(n)
      /\ good' = IF closed \/ FifoError THEN good ELSE good + Copied(n)
      /\ closed' = (closed \/ FifoError \/ NowFull(n))
  BY <1>1, <1>2 DEF Conclude
<1>4. KeepRun /\ phase = "process"
  BY <1>1 DEF Process, KeepRun
<1> QED
  BY <1>1, <1>3, <1>4 DEF ProcessSamples, StoreStep, n

LEMMA ProcessSteps ==
  ASSUME TypeOK, ProcessDriverEvents
  PROVE  QuietStep \/ \E drain \in BOOLEAN : StoreStep(drain)
<1>1. CASE ProcessNothing \/ ProcessUnregistered \/ ProcessFetchFails
  BY <1>1, ConcludeQuietly DEF ProcessNothing, ProcessUnregistered, ProcessFetchFails
<1>2. ASSUME NEW drain \in BOOLEAN, ProcessSamples(drain)
      PROVE  QuietStep \/ StoreStep(drain)
  <2> DEFINE n == Len(XferBuf(drain))
  <2>1. CASE n = 0
    BY <1>2, <2>1, ConcludeQuietly DEF ProcessSamples
  <2>2. CASE n # 0 /\ BufferFull
    BY <1>2, <2>2, ConcludeQuietly DEF ProcessSamples
  <2>3. CASE n # 0 /\ ~BufferFull
    BY <1>2, <2>3, SamplesStored
  <2> QED
    BY <2>1, <2>2, <2>3
<1> QED
  BY <1>1, <1>2 DEF ProcessDriverEvents

LEMMA Steps ==
  ASSUME TypeOK, [Next]_vars
  PROVE  \/ QuietStep \/ ForgetStep \/ ClearStep
         \/ \E numScans \in 1 .. MaxScans : GetScans(numScans)
         \/ \E drain \in BOOLEAN : StoreStep(drain)
<1>1. ASSUME \/ UnregisterDaqBuffer
             \/ \E mode \in Modes, allocated \in BOOLEAN : RegisterDaqBuffer(mode, allocated)
      PROVE  ForgetStep
  BY <1>1 DEF UnregisterDaqBuffer, RegisterDaqBuffer, ForgetStep
<1>2. ASSUME NEW ok \in BOOLEAN, AsyncInit(ok)
      PROVE  ClearStep
  BY <1>2 DEF AsyncInit, ClearStep
<1>3. CASE Convert
  BY <1>3 DEF Convert, QuietStep, KeepRun, bufInfo, history
<1>4. CASE AsyncInitUnregistered
  BY <1>4 DEF AsyncInitUnregistered, QuietStep, KeepRun, bufInfo, history
<1>5. ASSUME NEW ok \in BOOLEAN, AsyncStart(ok) \/ AsyncStop(ok) \/ AsyncTerm(ok)
      PROVE  QuietStep
  <2>1. UNCHANGED <<bufInfo, buf, history>>
    BY <1>5 DEF AsyncStart, AsyncStop, AsyncTerm
  <2> QED
    BY <2>1 DEF QuietStep, KeepRun, bufInfo, history
<1>6. CASE Reset \/ ClearData
  BY <1>6 DEF Reset, ClearData, QuietStep, KeepRun, bufInfo
<1>7. ASSUME NEW imm, ReadBoardStatus(imm)
      PROVE  QuietStep
  BY <1>7 DEF ReadBoardStatus, QuietStep, KeepRun, bufInfo, history
<1>8. ASSUME NEW waitedFor \in Waits, NotifyUserEvents(waitedFor)
      PROVE  QuietStep
  BY <1>8 DEF NotifyUserEvents, QuietStep, KeepRun, bufInfo, history
<1>9. CASE UNCHANGED vars
  BY <1>9 DEF QuietStep, KeepRun, vars, bufInfo, history
<1>10. CASE ProcessDriverEvents
  BY <1>10, ProcessSteps
<1> QED
  BY <1>1, <1>2, <1>3, <1>4, <1>5, <1>6, <1>7, <1>8, <1>9, <1>10 DEF Next, Application, Handler, BottomHalf, ImmediateUpdate

-----------------------------------------------------------------------------
(* The numbers of a run.                                                   *)

\* Without a cleared buffer there is no run.
NoRunYet == ~initialised => closed /\ good = 0 /\ delivered = <<>>

\* While the run goes on, head is where its next sample goes and the unread
\* values are the samples not delivered; as long as samples are left to be
\* delivered, also after it, the reader is where the next of them is.
RunNumbers ==
  initialised /\ ~bRecycle =>
    /\ ~closed => count < MaxValues /\ head = good % MaxValues /\ Unread = good - Len(delivered)
    /\ Len(delivered) < good \/ ~closed =>
         Len(delivered) % MaxValues = Reader /\ good - Len(delivered) <= Unread

NumbersIInv == TypeOK /\ QueueOK /\ NoRunYet /\ RunNumbers

LEMMA Ranges ==
  ASSUME TypeOK
  PROVE  /\ head \in Nat /\ head < MaxValues
         /\ tail \in Nat /\ tail < MaxValues
         /\ count \in Nat /\ count < Word
         /\ Reader \in Nat /\ Reader < MaxValues
         /\ good \in Nat /\ Len(delivered) \in Nat
         /\ MaxValues \in Nat \ {0} /\ ScanSize \in Nat \ {0} /\ Word \in Nat \ {0}
         /\ MaxValues < Word
<1>1. Reader \in Nat /\ Reader < MaxValues
  <2>1. 1 \in 1 .. MaxScans
    BY Geometry, SMT
  <2> QED
    BY <2>1, ScansPlace DEF Reader
<1> QED
  BY <1>1, TransferAssumption, FrameStartsInside, Geometry, SMT DEF TypeOK, Positions

\* What AInGetScans adds to what was delivered.
LEMMA Delivery ==
  ASSUME NumbersIInv, initialised, ~bRecycle, NEW numScans \in 1 .. MaxScans, GetScans(numScans)
  PROVE  /\ ValidScans(numScans) * ScanSize \in Nat
         /\ ~loan'.ok => ValidScans(numScans) = 0
         /\ IF closed /\ Len(delivered) >= good
            THEN delivered' = delivered
            ELSE /\ delivered' \in Seq(Samples)
                 /\ Len(delivered') = Len(delivered) + ValidScans(numScans) * ScanSize
                 /\ \A i \in 1 .. Len(delivered) : delivered'[i] = delivered[i]
                 /\ \A j \in 1 .. ValidScans(numScans) * ScanSize :
                      /\ delivered'[Len(delivered) + j] = buf[Reader + j - 1]
                      /\ Reader + j - 1 \in Positions
<1> DEFINE v   == ValidScans(numScans) * ScanSize
           new == [i \in 1 .. v |-> buf[scanIndex * ScanSize + i - 1]]
<1>0. TypeOK /\ QueueNumbers /\ delivered \in Seq(Samples)
  BY DEF NumbersIInv, QueueOK, QueueNumbers, Reader, TypeOK
<1>1. /\ v \in Nat
      /\ ValidScans(numScans) \in Nat /\ scanIndex + ValidScans(numScans) <= MaxScans
      /\ scanIndex \in Nat
  BY <1>0, ScansInside, Geometry, SMTT(30) DEF TypeOK
<1>2. ~loan'.ok => ValidScans(numScans) = 0
  <2>1. ValidScans(numScans) > 0 => count' > 0
    BY <1>0, GetScansTakes
  <2>2. ~loan'.ok => count' = 0
    BY DEF GetScans
  <2> QED
    BY <1>1, <2>1, <2>2
<1>3. \A j \in 1 .. v : Reader + j - 1 \in Positions
  BY <1>1, ScanPositions DEF Reader
<1>4. CASE closed /\ Len(delivered) >= good
  BY <1>4, <1>1, <1>2 DEF GetScans
<1>5. CASE ~(closed /\ Len(delivered) >= good) /\ loan'.ok
  <2>1. delivered' = delivered \o new
    BY <1>5 DEF GetScans
  <2>2. new \in Seq(Samples) /\ Len(new) = v
    <3>1. \A i \in 1 .. v : buf[scanIndex * ScanSize + i - 1] \in Samples
      BY <1>0, <1>3 DEF TypeOK, Reader
    <3>2. new \in Seq(Samples)
      BY <1>1, <3>1, IsASeq
    <3> QED
      BY <1>1, <3>2, LenProperties
  <2>3. \A j \in 1 .. v : new[j] = buf[Reader + j - 1]
    BY DEF Reader
  <2> HIDE DEF new, v
  <2>4. /\ delivered \o new \in Seq(Samples)
        /\ Len(delivered \o new) = Len(delivered) + Len(new)
        /\ \A i \in 1 .. Len(delivered) + Len(new) :
             (delivered \o new)[i] = IF i <= Len(delivered) THEN delivered[i]
                                     ELSE new[i - Len(delivered)]
    BY <1>0, <2>2, ConcatProperties
  <2>5. Len(delivered) \in Nat
    BY <1>0, LenProperties
  <2>6. ASSUME NEW i \in 1 .. Len(delivered)
        PROVE  delivered'[i] = delivered[i]
    BY <1>1, <2>1, <2>2, <2>4, <2>5
  <2>7. ASSUME NEW j \in 1 .. v
        PROVE  delivered'[Len(delivered) + j] = buf[Reader + j - 1]
    <3>1. /\ Len(delivered) + j \in 1 .. Len(delivered) + v
          /\ ~(Len(delivered) + j <= Len(delivered))
          /\ (Len(delivered) + j) - Len(delivered) = j
      BY <1>1, <2>5
    <3> QED
      BY <2>1, <2>2, <2>3, <2>4, <3>1
  <2> QED
    BY <1>1, <1>2, <1>3, <1>5, <2>1, <2>2, <2>4, <2>6, <2>7 DEF v
<1>6. CASE ~(closed /\ Len(delivered) >= good) /\ ~loan'.ok
  <2>1. delivered' = delivered
    BY <1>6 DEF GetScans
  <2>2. v = 0 /\ 1 .. v = {}
    BY <1>2, <1>6, Geometry, SMT
  <2>3. Len(delivered) \in Nat /\ Len(delivered) = Len(delivered) + v
    BY <1>0, <2>2, LenProperties
  <2> QED
    BY <1>0, <1>1, <1>2, <1>6, <2>1, <2>2, <2>3
<1> QED
  BY <1>4, <1>5, <1>6

\* What StoreStep does to the numbers of a queue.
LEMMA StoreNumbers ==
  ASSUME TypeOK, QueueNumbers, ~bRecycle, NEW drain \in BOOLEAN, StoreStep(drain)
  PROVE  LET n == Len(XferBuf(drain))
             k == Copied(n)
         IN  /\ n \in Nat /\ k \in 0 .. n
             /\ tail' = tail /\ Reader' = Reader
             /\ count' = count + k /\ Unread' = Unread + k
             /\ count < MaxValues /\ count' <= MaxValues
             /\ ~closed' => ~closed /\ count' < MaxValues /\ good' = good + k /\ k = n
             /\ closed => good' = good
             /\ good' \in {good, good + k}
             /\ head' = IF head + k < MaxValues THEN head + k ELSE head + k - MaxValues
             /\ \A p \in Positions : Distance(head, p) >= k => buf'[p] = buf[p]
             /\ \A p \in Positions : Distance(head, p) < k =>
                                        buf'[p] = XferBuf(drain)[Distance(head, p) + 1]
<1> DEFINE n == Len(XferBuf(drain))
           k == Copied(n)
<1>1. n \in Nat
  BY FetchInside, LenProperties
<1>2. k \in 0 .. n
  BY <1>1, StoreInside
<1>3. ~BufferFull /\ Store(XferBuf(drain)) /\ KeepRun
  BY DEF StoreStep
<1>4. count' = NewCount(n) /\ head' = NewHead(n) /\ tail' = RoomTail(n)
  BY <1>3 DEF Store
<1>5. \A p \in Positions : buf'[p] = IF Distance(head, p) < k THEN XferBuf(drain)[Distance(head, p) + 1]
                                     ELSE buf[p]
  BY <1>3 DEF Store
<1>6. /\ good' = IF closed \/ FifoError THEN good ELSE good + k
      /\ closed' = (closed \/ FifoError \/ NowFull(n))
  BY DEF StoreStep
<1>7. NowFull(n) <=> NewCount(n) = MaxValues
  BY DEF NowFull
<1> HIDE DEF n
<1>8. /\ RoomTail(n) = tail
      /\ NewCount(n) = count + k
      /\ count + k <= MaxValues
      /\ NewHead(n) = IF head + k < MaxValues THEN head + k ELSE head + k - MaxValues
      /\ k < n => count + k = MaxValues
  BY <1>1, <1>3, StoreKeepsQueue
<1>9. Reader' = Reader /\ Reader \in Nat /\ tail \in Nat
  BY <1>3, Ranges DEF Reader, KeepRun
<1> HIDE DEF k
<1>10. count < MaxValues
  <2>1. count # MaxValues
    BY <1>3 DEF BufferFull
  <2> QED
    BY <1>2, <1>8, <2>1, <1>1, Ranges
<1>11. Unread' = Unread + k
  <2>1. Distance(tail', Reader') = Distance(tail, Reader)
    BY <1>4, <1>8, <1>9
  <2>2. Distance(tail, Reader) \in Int
    BY <1>9, Geometry DEF Distance
  <2>3. Unread' = count' - Distance(tail', Reader')
    BY DEF Unread, Distance
  <2> QED
    BY <1>1, <1>2, <1>4, <1>8, <2>1, <2>2, <2>3, Ranges DEF Unread
<1>12. ~closed' => ~closed /\ count' < MaxValues /\ good' = good + k /\ k = n
  <2>1. ASSUME ~closed'
        PROVE  ~closed /\ ~FifoError /\ count + k # MaxValues
    BY <1>6, <1>7, <1>8, <2>1
  <2>2. ~closed' => good' = good + k
    BY <1>6, <2>1
  <2>3. count + k # MaxValues => count + k < MaxValues /\ k = n
    BY <1>1, <1>2, <1>8, Ranges
  <2> QED
    BY <1>4, <1>8, <2>1, <2>2, <2>3
<1>13. \A p \in Positions : Distance(head, p) \in Int
  BY Ranges, SMT DEF Distance, Positions
<1>14. \A p \in Positions : Distance(head, p) >= k => ~(Distance(head, p) < k)
  BY <1>1, <1>2, <1>13
<1> QED
  BY <1>1, <1>2, <1>4, <1>5, <1>6, <1>8, <1>9, <1>10, <1>11, <1>12, <1>14 DEF k, n

LEMMA GetScansNumbers ==
  ASSUME NumbersIInv, NEW numScans \in 1 .. MaxScans, GetScans(numScans)
  PROVE  RunNumbers'
<1> SUFFICES ASSUME initialised, ~bRecycle
             PROVE  /\ ~closed => count' < MaxValues /\ head' = good' % MaxValues
                                  /\ Unread' = good' - Len(delivered')
                    /\ Len(delivered') < good' \/ ~closed =>
                         Len(delivered') % MaxValues = Reader' /\ good' - Len(delivered') <= Unread'
  BY DEF RunNumbers, GetScans
<1> DEFINE v == ValidScans(numScans) * ScanSize
           d == Len(delivered)
<1>0. TypeOK /\ QueueNumbers
  BY DEF NumbersIInv, QueueOK, QueueNumbers, Reader
<1>1. UNCHANGED <<head, good, closed>>
  BY DEF GetScans
<1>2. /\ v \in Nat /\ count' = count - Released /\ Unread' >= Unread - v
      /\ count < MaxValues => Unread' = Unread - v
  BY <1>0, GetScansTakes, Delivery
<1>3. count' <= count
  <2>1. ReleasedTo \in Nat
    <3>1. ReleasedTo \in Positions
      BY <1>0, ReleasedToFrame, FrameStartsInside
    <3> QED
      BY <3>1 DEF Positions
  <2>2. Released \in Nat
    BY <1>0, <2>1, ReleasePlace, Ranges
  <2> QED
    BY <1>0, <1>2, <2>2, Ranges
<1>4. /\ Reader + v <= MaxValues
      /\ Reader' = IF Reader + v = MaxValues THEN 0 ELSE Reader + v
  BY <1>0, ScansPlace DEF GetScans, Reader
<1>5. Len(delivered') = IF closed /\ d >= good THEN d ELSE d + v
  BY Delivery
<1>6. ASSUME d < good \/ ~closed
      PROVE  (d + v) % MaxValues = Reader'
  <2>1. d % MaxValues = Reader
    BY <1>6 DEF NumbersIInv, RunNumbers
  <2>2. v \in 0 .. MaxValues /\ d \in Nat
    BY <1>0, <1>2, <1>4, Ranges
  <2>3. (d + v) % MaxValues = IF (d % MaxValues) + v < MaxValues THEN (d % MaxValues) + v
                              ELSE (d % MaxValues) + v - MaxValues
    BY <2>2, GoOn
  <2> HIDE DEF v, d
  <2>4. (d + v) % MaxValues = IF Reader + v < MaxValues THEN Reader + v ELSE Reader + v - MaxValues
    BY <2>1, <2>3
  <2>5. Reader \in Nat /\ MaxValues \in Nat
    BY <1>0, Ranges
  <2> QED
    BY <1>4, <2>2, <2>4, <2>5
<1>7. /\ ~closed => count < MaxValues /\ head = good % MaxValues /\ Unread = good - d
      /\ d < good \/ ~closed => good - d <= Unread
      /\ d \in Nat /\ good \in Nat /\ count \in Nat /\ count' \in Int
      /\ Unread \in Int /\ Unread' \in Int
  <2>1. Unread \in Int /\ Unread' \in Int /\ count' \in Int
    <3>1. TypeOK'
      BY <1>0, GetScansTypeOK
    <3>2. tail' \in Nat /\ count' \in Nat /\ Reader' \in Nat
      <4>1. tail' \in Positions /\ count' \in Nat
        BY <3>1, ReleasedToFrame, <1>0, FrameStartsInside, TransferAssumption DEF GetScans, TypeOK
      <4> QED
        BY <1>0, <1>2, <1>4, <4>1, Ranges, SMTT(30) DEF Positions
    <3>3. Distance(tail, Reader) \in Int /\ Distance(tail', Reader') \in Int
      <4>1. \A a, b \in Nat : Distance(a, b) \in Int
        BY Geometry, SMT DEF Distance
      <4> QED
        BY <1>0, <3>2, <4>1, Ranges
    <3>4. Unread' = count' - Distance(tail', Reader')
      BY DEF Unread, Distance
    <3> QED
      BY <1>0, <3>2, <3>3, <3>4, Ranges DEF Unread
  <2> QED
    BY <1>0, <2>1, Ranges DEF NumbersIInv, RunNumbers
<1> HIDE DEF v, d
<1> QED
  BY <1>1, <1>2, <1>3, <1>5, <1>6, <1>7, <1>0, Ranges, SMTT(30)

LEMMA StoreRunNumbers ==
  ASSUME NumbersIInv, NEW drain \in BOOLEAN, StoreStep(drain)
  PROVE  RunNumbers'
<1> SUFFICES ASSUME initialised, ~bRecycle
             PROVE  /\ ~closed' => count' < MaxValues /\ head' = good' % MaxValues
                                   /\ Unread' = good' - Len(delivered')
                    /\ Len(delivered') < good' \/ ~closed' =>
                         Len(delivered') % MaxValues = Reader' /\ good' - Len(delivered') <= Unread'
  BY DEF RunNumbers, StoreStep, KeepRun
<1> DEFINE k == Copied(Len(XferBuf(drain)))
           d == Len(delivered)
<1>0. TypeOK /\ QueueNumbers
  BY DEF NumbersIInv, QueueOK, QueueNumbers, Reader
<1>1. /\ k \in Nat
      /\ Reader' = Reader /\ Unread' = Unread + k
      /\ count' <= MaxValues /\ count' = count + k
      /\ ~closed' => ~closed /\ count' < MaxValues /\ good' = good + k
      /\ closed => good' = good
      /\ good' \in {good, good + k}
      /\ head' = IF head + k < MaxValues THEN head + k ELSE head + k - MaxValues
  BY <1>0, StoreNumbers
<1>2. delivered' = delivered
  BY DEF StoreStep, KeepRun
<1>3. /\ ~closed => count < MaxValues /\ head = good % MaxValues /\ Unread = good - d
      /\ d < good \/ ~closed => d % MaxValues = Reader /\ good - d <= Unread
      /\ d \in Nat /\ good \in Nat /\ count \in Nat /\ Reader \in Nat
      /\ head \in Nat /\ head < MaxValues
  BY <1>0, Ranges DEF NumbersIInv, RunNumbers
<1>4. Unread \in Int
  <2>1. \A a, b \in Nat : Distance(a, b) \in Int
    BY Geometry, SMT DEF Distance
  <2>2. Distance(tail, Reader) \in Int
    BY <1>0, <2>1, Ranges
  <2> QED
    BY <1>3, <2>2 DEF Unread
<1> HIDE DEF k
<1>5. ASSUME ~closed'
      PROVE  /\ count' < MaxValues /\ head' = good' % MaxValues /\ Unread' = good' - d
             /\ d % MaxValues = Reader' /\ good' - d <= Unread'
  <2>1. ~closed /\ count' < MaxValues /\ good' = good + k
    BY <1>1, <1>5
  <2>2. head = good % MaxValues /\ Unread = good - d /\ d % MaxValues = Reader
    BY <1>3, <2>1
  <2>3. k \in 0 .. MaxValues
    BY <1>1, <1>3, Geometry
  <2>4. (good + k) % MaxValues = IF (good % MaxValues) + k < MaxValues THEN (good % MaxValues) + k
                                 ELSE (good % MaxValues) + k - MaxValues
    BY <1>3, <2>3, GoOn
  <2>5. head' = good' % MaxValues
    BY <1>1, <2>1, <2>2, <2>4
  <2> QED
    BY <1>1, <1>3, <1>4, <2>1, <2>2, <2>5
<1>6. ASSUME d < good'
      PROVE  d % MaxValues = Reader' /\ good' - d <= Unread'
  <2>1. CASE closed
    BY <1>1, <1>3, <1>4, <1>6, <2>1
  <2>2. CASE ~closed
    <3>1. d % MaxValues = Reader /\ good - d <= Unread
      BY <1>3, <2>2
    <3> QED
      BY <1>1, <1>3, <1>4, <3>1
  <2> QED
    BY <2>1, <2>2
<1> QED
  BY <1>2, <1>5, <1>6

LEMMA NextNumbers == NumbersIInv /\ [Next]_vars => NumbersIInv'
<1> SUFFICES ASSUME NumbersIInv, [Next]_vars PROVE NoRunYet' /\ RunNumbers'
  BY NextKeepsQueue DEF NumbersIInv, QueueIInv
<1>0. TypeOK
  BY DEF NumbersIInv
<1>1. CASE QuietStep
  <2>1. NoRunYet'
    BY <1>1 DEF QuietStep, KeepRun, NumbersIInv, NoRunYet
  <2>2. RunNumbers'
    BY <1>1 DEF QuietStep, KeepRun, NumbersIInv, RunNumbers, Unread, Reader, Distance
  <2> QED
    BY <2>1, <2>2
<1>2. CASE ForgetStep
  BY <1>2 DEF ForgetStep, ForgetRun, NoRunYet, RunNumbers
<1>3. CASE ClearStep
  <2>1. /\ count' = 0 /\ head' = 0 /\ tail' = 0 /\ scanIndex' = 0
        /\ initialised' /\ good' = 0 /\ delivered' = <<>>
    BY <1>3 DEF ClearStep, ClearDaqBuffer
  <2>2. 0 * ScanSize = 0 /\ 0 % MaxValues = 0 /\ 0 < MaxValues
    BY Geometry, ModSmall, SMT
  <2>3. Len(<<>>) = 0
    BY EmptySeq
  <2>4. Reader' = 0
    BY <2>1, <2>2 DEF Reader
  <2>5. Unread' = 0
    <3>1. Unread' = count' - Distance(tail', Reader')
      BY DEF Unread, Distance
    <3>2. Distance(0, 0) = 0
      BY DEF Distance
    <3> QED
      BY <2>1, <2>4, <3>1, <3>2
  <2>6. Len(delivered') = 0 /\ good' - Len(delivered') = 0 /\ Len(delivered') % MaxValues = 0
    <3>1. delivered' = <<>> /\ good' = 0
      BY <2>1
    <3>2. Len(delivered') = 0
      BY <2>3, <3>1, Zenon
    <3>3. 0 - 0 = 0
      OBVIOUS
    <3> QED
      BY <2>2, <3>1, <3>2, <3>3, Zenon
  <2>7. RunNumbers'
    BY <2>1, <2>2, <2>4, <2>5, <2>6 DEF RunNumbers
  <2> QED
    BY <2>1, <2>7 DEF NoRunYet
<1>4. ASSUME NEW numScans \in 1 .. MaxScans, GetScans(numScans)
      PROVE  NoRunYet' /\ RunNumbers'
  <2>1. ASSUME ~initialised'
        PROVE  closed' /\ good' = 0 /\ delivered' = <<>>
    <3>1. ~initialised /\ UNCHANGED <<closed, good>>
      BY <1>4, <2>1 DEF GetScans
    <3>2. closed /\ good = 0 /\ delivered = <<>> /\ Len(delivered) >= good
      BY <3>1, EmptySeq DEF NumbersIInv, NoRunYet
    <3> QED
      BY <1>4, <3>1, <3>2 DEF GetScans
  <2> QED
    BY <1>4, <2>1, GetScansNumbers DEF NoRunYet
<1>5. ASSUME NEW drain \in BOOLEAN, StoreStep(drain)
      PROVE  NoRunYet' /\ RunNumbers'
  <2>1. NoRunYet'
    BY <1>5 DEF StoreStep, KeepRun, NumbersIInv, NoRunYet
  <2> QED
    BY <1>5, <2>1, StoreRunNumbers
<1> QED
  BY <1>0, <1>1, <1>2, <1>3, <1>4, <1>5, Steps

LEMMA NumbersCorrect == Spec => []NumbersIInv
<1>1. Init => NumbersIInv
  <2>1. Init => TypeOK /\ QueueOK
    BY InitTypeOK DEF Init, QueueOK
  <2>2. Init => NoRunYet /\ RunNumbers
    BY DEF Init, NoRunYet, RunNumbers
  <2> QED
    BY <2>1, <2>2 DEF NumbersIInv
<1>2. NumbersIInv /\ [Next]_vars => NumbersIInv'
  BY NextNumbers
<1> QED
  BY <1>1, <1>2, PTL DEF Spec

-----------------------------------------------------------------------------
(* What follows from the numbers alone, whatever fails.                    *)

LEMMA FailureTakesNothing ==
  NumbersIInv /\ [Next]_vars => (~loan'.ok /\ initialised /\ ~bRecycle => scanIndex' = scanIndex)
<1> SUFFICES ASSUME NumbersIInv, [Next]_vars, ~loan'.ok, initialised, ~bRecycle
             PROVE  scanIndex' = scanIndex
  OBVIOUS
<1>0. TypeOK
  BY DEF NumbersIInv
<1>1. CASE QuietStep \/ ForgetStep \/ \E drain \in BOOLEAN : StoreStep(drain)
  BY <1>1 DEF QuietStep, ForgetStep, StoreStep, KeepRun
<1>2. CASE ClearStep
  BY <1>2 DEF ClearStep, ClearDaqBuffer, NoLoan
<1>3. ASSUME NEW numScans \in 1 .. MaxScans, GetScans(numScans)
      PROVE  scanIndex' = scanIndex
  <2>1. ValidScans(numScans) = 0
    BY <1>3, Delivery
  <2>2. scanIndex \in Nat /\ scanIndex < MaxScans /\ scanIndex + 0 = scanIndex
    BY <1>0, Geometry, SMT DEF TypeOK
  <2>3. scanIndex' = (scanIndex + ValidScans(numScans)) % MaxScans
    BY <1>3 DEF GetScans
  <2> QED
    BY <2>1, <2>2, <2>3, Geometry, ModSmall
<1> QED
  BY <1>0, <1>1, <1>2, <1>3, Steps

\* In the single-run and wrapped modes, a call that returns no scans because
\* the release of frames left the buffer empty has not moved ScanIndex past
\* scans nobody was given: pd_ain_get_scans moves it before it knows.
THEOREM FailedGetScansCorrect == Spec => FailedGetScansTakesNothing
BY NumbersCorrect, FailureTakesNothing, PTL DEF Spec, FailedGetScansTakesNothing

\* Quotients, a multiple added.
LEMMA FramesBefore ==
  ASSUME NEW q \in Nat, NEW p \in Positions
  PROVE  (q * MaxValues + p) \div FrameValues = q * NumFrames + FrameOf(p)
<1> DEFINE f == p \div FrameValues
           r == p % FrameValues
           m == q * NumFrames + f
<1>1. f \in Nat /\ r \in 0 .. FrameValues - 1 /\ p = f * FrameValues + r
  <2>1. p \in Nat
    BY DEF Positions
  <2> QED
    BY <2>1, Geometry, DivMod
<1> HIDE DEF f, r
<1>2. m \in Nat /\ q * MaxValues + p = m * FrameValues + r /\ q * MaxValues + p \in Nat
  BY <1>1, Geometry, SMT
<1> HIDE DEF m
<1>3. (q * MaxValues + p) \div FrameValues = m
  <2> DEFINE a == q * MaxValues + p
             d == a \div FrameValues
  <2>1. d \in Nat /\ d * FrameValues <= a /\ a < d * FrameValues + FrameValues
    BY <1>2, Geometry, DivMod
  <2>2. a = m * FrameValues + r /\ a \in Nat
    BY <1>2
  <2> HIDE DEF a, d
  <2>3. CASE d < m
    <3>1. (d + 1) * FrameValues <= m * FrameValues
      BY <1>2, <2>1, <2>3, Geometry, TimesMonotone
    <3>2. (d + 1) * FrameValues = d * FrameValues + FrameValues
      BY <2>1, Geometry, SMT
    <3> QED
      BY <1>1, <1>2, <2>1, <2>2, <3>1, <3>2, Geometry, SMT
  <2>4. CASE m < d
    <3>1. (m + 1) * FrameValues <= d * FrameValues
      BY <1>2, <2>1, <2>4, Geometry, TimesMonotone
    <3>2. (m + 1) * FrameValues = m * FrameValues + FrameValues
      BY <1>2, Geometry, SMT
    <3> QED
      BY <1>1, <1>2, <2>1, <2>2, <3>1, <3>2, Geometry, SMT
  <2> QED
    BY <1>2, <2>1, <2>3, <2>4 DEF d, a
<1> QED
  BY <1>3 DEF m, f, FrameOf

\* A store that does not reach the end of the buffer moves the head forward by
\* the samples copied.
LEMMA HeadForward ==
  ASSUME TypeOK, QueueNumbers, ~bRecycle, ~BufferFull, NEW n \in Nat, n > 0, ~Wrapped(n)
  PROVE  NewHead(n) = head + Copied(n) /\ NewHead(n) \in Positions
<1>1. /\ head \in Nat /\ head < MaxValues /\ tail \in Nat /\ tail < MaxValues
      /\ MaxValues \in Nat \ {0}
  BY Ranges
<1>2. RoomTail(n) = tail
  BY StoreKeepsQueue
<1>3. NewHead(n) \in Positions
  BY StoreInside
<1>4. CASE head >= tail
  <2>1. ToEnd(n) = Least(n, MaxValues - head) /\ ToEnd(n) > 0
    BY <1>1, <1>2, <1>4, SMT DEF ToEnd, Least
  <2>2. EndHead(n) # 0
    BY <2>1 DEF Wrapped
  <2>3. head + ToEnd(n) < MaxValues /\ ToEnd(n) \in Nat
    <3>1. ToEnd(n) \in Nat /\ head + ToEnd(n) <= MaxValues
      BY <1>1, <2>1, SMT DEF Least
    <3>2. head + ToEnd(n) # MaxValues
      BY <1>1, <2>2, <3>1, ModSmall DEF EndHead
    <3> QED
      BY <1>1, <3>1, <3>2
  <2>4. EndHead(n) = head + ToEnd(n)
    BY <1>1, <2>3, ModSmall DEF EndHead
  <2>5. ToTail(n) = 0
    BY <1>1, <1>2, <1>4, <2>3, <2>4 DEF ToTail
  <2> QED
    BY <1>1, <1>3, <2>3, <2>4, <2>5 DEF NewHead, Copied
<1>5. CASE head < tail
  <2>1. ToEnd(n) = 0
    BY <1>1, <1>2, <1>5 DEF ToEnd
  <2>2. EndHead(n) = head
    BY <1>1, <2>1, ModSmall DEF EndHead
  <2> QED
    BY <1>1, <1>3, <2>1, <2>2, StoreInside DEF NewHead, Copied
<1> QED
  BY <1>1, <1>4, <1>5

LEMMA FramesAnnounced ==
  NumbersIInv /\ [Next]_vars =>
    (good' > good /\ initialised /\ ~bRecycle /\ good' \div FrameValues > good \div FrameValues
       => "eFrameDone" \in eventsNew')
<1> SUFFICES ASSUME NumbersIInv, [Next]_vars, good' > good, initialised, ~bRecycle,
                    good' \div FrameValues > good \div FrameValues
             PROVE  "eFrameDone" \in eventsNew'
  OBVIOUS
<1>0. TypeOK /\ QueueNumbers /\ good \in Nat
  BY DEF NumbersIInv, QueueOK, QueueNumbers, Reader, TypeOK
<1>1. PICK drain \in BOOLEAN : StoreStep(drain)
  <2>1. ASSUME good' = good \/ good' = 0
        PROVE  FALSE
    BY <1>0, <2>1
  <2>2. ~QuietStep /\ ~ForgetStep /\ ~ClearStep
    BY <2>1 DEF QuietStep, ForgetStep, ForgetRun, ClearStep, ClearDaqBuffer
  <2>3. \A numScans \in 1 .. MaxScans : ~GetScans(numScans)
    BY <2>1 DEF GetScans
  <2> QED
    BY <1>0, <2>2, <2>3, Steps
<1> DEFINE n == Len(XferBuf(drain))
           k == Copied(n)
<1>2. n \in Nat /\ k \in 0 .. n /\ good' \in {good, good + k}
  BY <1>0, <1>1, StoreNumbers
<1>3. ~BufferFull /\ ~closed /\ good' = good + k /\ k > 0 /\ n > 0
  <2>1. good' # good
    BY <1>0
  <2>2. ~closed /\ good' = good + k
    BY <1>1, <2>1 DEF StoreStep
  <2> QED
    BY <1>0, <1>1, <1>2, <2>1, <2>2 DEF StoreStep
<1>4. head = good % MaxValues /\ head \in Positions
  BY <1>0, <1>3 DEF NumbersIInv, RunNumbers, TypeOK
<1>5. StoreEvents(n) \subseteq eventsNew'
  BY <1>1 DEF StoreStep
<1>6. CASE Wrapped(n)
  BY <1>5, <1>6 DEF StoreEvents
<1>7. CASE ~Wrapped(n)
  <2> HIDE DEF n
  <2>1. NewHead(n) = head + Copied(n) /\ NewHead(n) \in Positions
    BY <1>0, <1>2, <1>3, <1>7, HeadForward
  <2> DEFINE q == good \div MaxValues
  <2>2. q \in Nat /\ good = q * MaxValues + head
    BY <1>0, <1>4, Geometry, DivMod
  <2>3. good' = q * MaxValues + NewHead(n)
    <3>1. q * MaxValues \in Int /\ head \in Int
      BY <2>2, <1>4, Geometry, SMT DEF Positions
    <3> QED
      BY <1>2, <1>3, <2>1, <2>2, <3>1
  <2>4. /\ good \div FrameValues = q * NumFrames + FrameOf(head)
        /\ good' \div FrameValues = q * NumFrames + FrameOf(NewHead(n))
    BY <1>4, <2>1, <2>2, <2>3, FramesBefore
  <2>5. FrameOf(head) \in Int /\ FrameOf(NewHead(n)) \in Int /\ q * NumFrames \in Int
    <3>1. FrameOf(head) \in Int /\ FrameOf(NewHead(n)) \in Int
      <4>1. \A p \in Positions : FrameOf(p) \in Int
        BY FrameOfPosition
      <4> QED
        BY <1>4, <2>1, <4>1
    <3> QED
      BY <2>2, <3>1, Geometry, SMT
  <2>6. FrameOf(NewHead(n)) > FrameOf(head)
    BY <2>4, <2>5
  <2>7. "eFrameDone" \in StoreEvents(n)
    BY <2>6 DEF StoreEvents
  <2> QED
    BY <1>5, <2>7
<1> QED
  BY <1>6, <1>7

\* Whenever the samples of a run complete a frame, the handler that stores them
\* raises eFrameDone: it finds this out from two positions of the head alone,
\* and no size of transfer makes it miss one.
THEOREM FrameDoneCorrect == Spec => FrameDoneRaised
BY NumbersCorrect, FramesAnnounced, PTL DEF Spec, FrameDoneRaised

\* How many whole scans lie between two positions.
LEMMA ScansBetween ==
  ASSUME NEW m \in Nat, NEW r \in 0 .. ScanSize - 1
  PROVE  (m * ScanSize + r) \div ScanSize = m
<1> DEFINE a == m * ScanSize + r
           d == a \div ScanSize
<1>1. a \in Nat /\ r \in Nat /\ r < ScanSize
  BY Geometry, SMT
<1>2. d \in Nat /\ d * ScanSize <= a /\ a < d * ScanSize + ScanSize
  BY <1>1, Geometry, DivMod
<1>3. CASE d < m
  <2>1. (d + 1) * ScanSize <= m * ScanSize
    BY <1>2, <1>3, Geometry, TimesMonotone
  <2>2. (d + 1) * ScanSize = d * ScanSize + ScanSize
    BY <1>2, Geometry, SMT
  <2> QED
    BY <1>1, <1>2, <2>1, <2>2, Geometry, SMT
<1>4. CASE m < d
  <2>1. (m + 1) * ScanSize <= d * ScanSize
    BY <1>2, <1>4, Geometry, TimesMonotone
  <2>2. (m + 1) * ScanSize = m * ScanSize + ScanSize
    BY Geometry, SMT
  <2> QED
    BY <1>1, <1>2, <2>1, <2>2, Geometry, SMT
<1> QED
  BY <1>2, <1>3, <1>4

LEMMA AllScansOffered ==
  ASSUME NumbersIInv, initialised, ~bRecycle, ~closed
  PROVE  AvailScans = Least((good - Len(delivered)) \div ScanSize, MaxScans - scanIndex)
<1> DEFINE u == good - Len(delivered)
           r == head % ScanSize
<1>0. TypeOK /\ QueueNumbers
  BY DEF NumbersIInv, QueueOK, QueueNumbers, Reader
<1>1. /\ head \in Nat /\ head < MaxValues /\ tail \in Nat /\ tail < MaxValues
      /\ Reader \in Nat /\ Reader < MaxValues /\ MaxValues \in Nat
  BY <1>0, Ranges
<1>2. count = Distance(tail, head) /\ Distance(tail, Reader) <= count /\ u = count - Distance(tail, Reader)
  <2>1. count < MaxValues /\ u = Unread /\ count \in Nat
    BY <1>0, Ranges DEF NumbersIInv, RunNumbers
  <2> QED
    BY <1>0, <1>1, <2>1 DEF QueueNumbers, Unread
<1>3. u = IF Reader <= head THEN head - Reader ELSE MaxValues - Reader + head
  <2> HIDE DEF u
  <2> QED
    BY <1>1, <1>2, SMT DEF Distance
<1>4. /\ HeadScan \in 0 .. MaxScans - 1 /\ scanIndex \in 0 .. MaxScans - 1
      /\ MaxScans \in Nat /\ ScanSize \in Nat \ {0}
  <2>1. head \in Positions
    BY <1>0 DEF TypeOK
  <2> QED
    BY <1>0, <2>1, ScanOfPosition, Geometry DEF TypeOK, HeadScan
<1>5. r \in 0 .. ScanSize - 1 /\ head = HeadScan * ScanSize + r
  BY <1>1, Geometry, DivMod DEF HeadScan
<1> HIDE DEF u, r
<1>6. CASE scanIndex <= HeadScan
  <2>1. scanIndex * ScanSize <= HeadScan * ScanSize
    BY <1>4, <1>6, TimesMonotone
  <2>2. HeadScan * ScanSize \in Nat /\ Reader <= head
    BY <1>4, <1>5, <2>1, SMT DEF Reader
  <2>3. u = (HeadScan - scanIndex) * ScanSize + r
    BY <1>3, <1>4, <1>5, <2>2, SMT DEF Reader
  <2>4. HeadScan - scanIndex \in Nat
    BY <1>4, <1>6
  <2>5. u \div ScanSize = HeadScan - scanIndex
    BY <1>5, <2>3, <2>4, ScansBetween
  <2> QED
    BY <1>4, <1>6, <2>5 DEF AvailScans, Least, u
<1>7. CASE HeadScan < scanIndex
  <2>1. (HeadScan + 1) * ScanSize <= scanIndex * ScanSize
    BY <1>4, <1>7, TimesMonotone
  <2>2. (HeadScan + 1) * ScanSize = HeadScan * ScanSize + ScanSize /\ HeadScan * ScanSize \in Nat
    BY <1>4, SMT
  <2>3. head < Reader
    BY <1>1, <1>4, <1>5, <2>1, <2>2 DEF Reader
  <2>4. u = (MaxScans - scanIndex + HeadScan) * ScanSize + r
    <3>1. u = MaxValues - Reader + head
      BY <1>1, <1>3, <2>3
    <3>2. (MaxScans - scanIndex + HeadScan) * ScanSize
             = MaxScans * ScanSize - scanIndex * ScanSize + HeadScan * ScanSize
      BY <1>4, SMT
    <3>3. MaxScans * ScanSize \in Int /\ scanIndex * ScanSize \in Int
      BY <1>4, SMT
    <3> QED
      BY <1>1, <1>4, <1>5, <2>2, <3>1, <3>2, <3>3, Geometry DEF Reader
  <2>5. MaxScans - scanIndex + HeadScan \in Nat
    BY <1>4
  <2>6. u \div ScanSize = MaxScans - scanIndex + HeadScan
    BY <1>5, <2>4, <2>5, ScansBetween
  <2> QED
    BY <1>4, <1>7, <2>6 DEF AvailScans, Least, u
<1> QED
  BY <1>4, <1>6, <1>7

\* While a run goes on, a call of AInGetScans hands out every scan that was
\* stored and not handed out, up to the end of the buffer: comparing ScanIndex
\* with HeadScan alone never leaves the reader stuck behind stored scans.
THEOREM ScansAvailableCorrect == Spec => ScansAvailable
<1> DEFINE Offered == \A numScans \in 1 .. MaxScans :
             GetScans(numScans) /\ initialised /\ ~bRecycle /\ ~closed =>
               loan'.scans = Least(numScans, Least((good - Len(delivered)) \div ScanSize,
                                                   MaxScans - scanIndex))
<1>1. NumbersIInv => Offered
  BY AllScansOffered DEF GetScans, ValidScans
<1> QED
  BY <1>1, NumbersCorrect, PTL DEF ScansAvailable

\* A fetch of samples reads no more of them than the transfer buffer then holds.
LEMMA FetchedAreWords ==
  ASSUME TypeOK, NEW drain \in BOOLEAN
  PROVE  /\ Len(XferBuf(drain)) = FetchedWords(drain) + Polled(drain)
         /\ FetchedFromFifo(drain) <= FetchedWords(drain)
<1>1. /\ FetchedFromFifo(drain) \in Nat /\ FetchedWords(drain) \in Nat /\ Polled(drain) \in Nat
  <2>1. Len(fifo) \in Nat
    BY DEF TypeOK
  <2> QED
    BY <2>1, FetchInside
<1>2. FetchedFromFifo(drain) <= FetchedWords(drain)
  BY <1>1, TransferAssumption, SMT DEF FetchedWords, Greatest
<1>3. Len(XferBuf(drain)) = FetchedWords(drain) + Polled(drain)
  <2>1. FetchedWords(drain) + Polled(drain) \in Nat
    BY <1>1
  <2> QED
    BY <2>1, LenProperties DEF XferBuf
<1> QED
  BY <1>2, <1>3

\* Only pd_process_driver_events goes from the fetch to the notification.
LEMMA OnlyProcessing ==
  ASSUME [Next]_vars, phase = "process", phase' = "notify"
  PROVE  ProcessDriverEvents
<1>1. ASSUME \/ UnregisterDaqBuffer
             \/ \E mode \in Modes, allocated \in BOOLEAN : RegisterDaqBuffer(mode, allocated)
             \/ Convert \/ UNCHANGED vars
      PROVE  phase' = phase
  BY <1>1 DEF UnregisterDaqBuffer, RegisterDaqBuffer, Unlocked, Convert, vars
<1>2. ASSUME \/ \E ok \in BOOLEAN : AsyncInit(ok) \/ AsyncStart(ok) \/ AsyncStop(ok) \/ AsyncTerm(ok)
             \/ AsyncInitUnregistered \/ Reset \/ ClearData
             \/ \E numScans \in 1 .. MaxScans : GetScans(numScans)
      PROVE  phase = "idle"
  BY <1>2 DEF AsyncInit, AsyncStart, AsyncStop, AsyncTerm, AsyncInitUnregistered, Reset, ClearData,
    GetScans, Setup, Ioctl, Locked
<1>3. ASSUME \/ \E imm : ReadBoardStatus(imm)
             \/ \E waitedFor \in Waits : NotifyUserEvents(waitedFor)
      PROVE  phase = "idle" \/ phase = "notify"
  BY <1>3 DEF ReadBoardStatus, NotifyUserEvents
<1> QED
  BY <1>1, <1>2, <1>3 DEF Next, Application, Handler, BottomHalf, ImmediateUpdate

LEMMA DropsReported ==
  ASSUME ~DspFaults
  PROVE  NumbersIInv /\ [Next]_vars =>
    (phase = "process" /\ phase' = "notify" /\ bCheckHalfDone /\ ~closed /\ ~bRecycle
     /\ Len(fifo) - Len(fifo') > good' - good
     => /\ "eStopped" \in eventsNew' /\ SubsysState' = "ssStopped"
        /\ bWrap \/ status.ff => "eBufferError" \in eventsNew')
<1> SUFFICES ASSUME NumbersIInv, [Next]_vars,
                    phase = "process", phase' = "notify", bCheckHalfDone, ~closed, ~bRecycle,
                    Len(fifo) - Len(fifo') > good' - good
             PROVE  /\ "eStopped" \in eventsNew' /\ SubsysState' = "ssStopped"
                    /\ bWrap \/ status.ff => "eBufferError" \in eventsNew'
  OBVIOUS
<1>0. TypeOK /\ initialised /\ QueueNumbers /\ good \in Nat /\ Len(fifo) \in Nat
  BY DEF NumbersIInv, NoRunYet, QueueOK, QueueNumbers, Reader, TypeOK
<1> DEFINE Raised(new) == "eStopped" \in new /\ (bWrap \/ status.ff => "eBufferError" \in new)
<1>1. ASSUME NEW new, NEW k, Conclude(new, k), Raised(new)
      PROVE  /\ "eStopped" \in eventsNew' /\ SubsysState' = "ssStopped"
             /\ bWrap \/ status.ff => "eBufferError" \in eventsNew'
  BY <1>1 DEF Conclude
<1>2. /\ status.ff => FifoError
      /\ FifoError => ErrorEvents = {"eStopped", "eBufferError"}
      /\ Raised(ErrorEvents \cup FullEvents)
  BY DEF FifoError, ErrorEvents, FullEvents
<1>3. ASSUME UNCHANGED fifo, NEW new, Conclude(new, 0)
      PROVE  FALSE
  <2>1. good' = good
    BY <1>0, <1>3 DEF Conclude
  <2> QED
    BY <1>0, <1>3, <2>1
<1>4. PICK drain \in BOOLEAN : ProcessSamples(drain)
  BY <1>3, OnlyProcessing DEF ProcessDriverEvents, ProcessNothing, ProcessUnregistered, ProcessFetchFails
<1> DEFINE n == Len(XferBuf(drain))
<1>5. /\ n \in Nat /\ Copied(n) \in 0 .. n
      /\ Len(fifo) - Len(fifo') <= n
  <2>1. n \in Nat
    BY <1>0, FetchInside, LenProperties
  <2>2. /\ n = FetchedWords(drain) + Polled(drain)
        /\ FetchedFromFifo(drain) <= FetchedWords(drain)
    BY <1>0, FetchedAreWords
  <2>3. /\ FetchedFromFifo(drain) \in Int /\ FetchedWords(drain) \in Int /\ Polled(drain) \in Int
        /\ FetchedFromFifo(drain) + Polled(drain) \in 0 .. Len(fifo)
    BY <1>0, FetchInside
  <2>4. Len(fifo') = Len(fifo) - (FetchedFromFifo(drain) + Polled(drain))
    BY <1>0, <1>4, <2>3, SuffixTypeOK DEF ProcessSamples
  <2> HIDE DEF n
  <2>5. Copied(n) \in 0 .. n
    BY <1>0, <2>1, StoreInside
  <2> QED
    BY <1>0, <2>1, <2>2, <2>3, <2>4, <2>5
<1>6. CASE n = 0
  <2>1. Conclude(ErrorEvents, 0)
    BY <1>4, <1>6 DEF ProcessSamples
  <2>2. good' = good
    BY <1>0, <2>1 DEF Conclude
  <2> QED
    BY <1>0, <1>5, <1>6, <2>2
<1>7. CASE n # 0 /\ BufferFull
  <2>1. Conclude(ErrorEvents \cup FullEvents, 0)
    BY <1>4, <1>7 DEF ProcessSamples
  <2> QED
    BY <1>1, <1>2, <2>1
<1>8. CASE n # 0 /\ ~BufferFull
  <2>1. Conclude(ErrorEvents \cup StoreEvents(n), Copied(n))
    BY <1>4, <1>8 DEF ProcessSamples
  <2>2. CASE FifoError
    <3>1. Raised(ErrorEvents \cup StoreEvents(n))
      BY <1>2, <2>2
    <3> QED
      BY <1>1, <2>1, <3>1
  <2>3. CASE ~FifoError /\ NowFull(n)
    <3>1. FullEvents \subseteq StoreEvents(n) /\ ErrorEvents = {}
      BY <2>3 DEF StoreEvents, ErrorEvents
    <3>2. Raised(ErrorEvents \cup StoreEvents(n))
      BY <1>2, <3>1
    <3> QED
      BY <1>1, <2>1, <3>2
  <2>4. CASE ~FifoError /\ ~NowFull(n)
    <3>1. good' = good + Copied(n)
      BY <2>1, <2>4 DEF Conclude
    <3> HIDE DEF n
    <3>2. Copied(n) = n
      <4>1. NewCount(n) # MaxValues
        BY <2>4 DEF NowFull
      <4>2. NewCount(n) = count + Copied(n) /\ (Copied(n) < n => count + Copied(n) = MaxValues)
        BY <1>0, <1>5, <1>8, StoreKeepsQueue
      <4> QED
        BY <1>5, <4>1, <4>2
    <3> QED
      BY <1>0, <1>5, <3>1, <3>2
  <2> QED
    BY <2>2, <2>3, <2>4
<1> QED
  BY <1>6, <1>7, <1>8

\* As long as no command to the board fails, samples that leave the FIFO and do
\* not reach the DAQ buffer are reported in the step that drops them, also when
\* the transfer is larger than the room left, or the poll of ImmediateUpdate
\* and the racing conversions change what the fetch finds.
THEOREM DropsReportedCorrect ==
  ASSUME ~DspFaults
  PROVE  Spec => NothingDroppedSilently
BY NumbersCorrect, DropsReported, PTL DEF Spec, NothingDroppedSilently

-----------------------------------------------------------------------------
(* The driver's record of the subsystem and the board.                     *)

LEMMA IdleStaysIdle ==
  ASSUME ~DspFaults
  PROVE  StoppedMeansIdle /\ [Next]_vars => StoppedMeansIdle'
<1> SUFFICES ASSUME StoppedMeansIdle, [Next]_vars PROVE StoppedMeansIdle'
  OBVIOUS
<1>1. ASSUME NEW ok \in BOOLEAN, AsyncInit(ok) \/ AsyncInitUnregistered
      PROVE  StoppedMeansIdle'
  BY <1>1 DEF AsyncInit, AsyncInitUnregistered, board, StoppedMeansIdle
<1>2. ASSUME NEW ok \in BOOLEAN, AsyncStart(ok) \/ AsyncStop(ok) \/ AsyncTerm(ok)
      PROVE  StoppedMeansIdle'
  <2>1. ok = TRUE
    BY <1>2 DEF AsyncStart, AsyncStop, AsyncTerm
  <2> QED
    BY <1>2, <2>1 DEF AsyncStart, AsyncStop, AsyncTerm, StopConversions, StoppedMeansIdle
<1>3. CASE Reset
  BY <1>3 DEF Reset, StoppedMeansIdle
<1>4. ASSUME NEW new, NEW k, Conclude(new, k)
      PROVE  StoppedMeansIdle'
  BY <1>4 DEF Conclude, StopConversions, StoppedMeansIdle
<1>5. ASSUME UNCHANGED <<SubsysState, converting>>
      PROVE  StoppedMeansIdle'
  BY <1>5 DEF StoppedMeansIdle
<1>6. CASE ProcessDriverEvents
  BY <1>4, <1>6 DEF ProcessDriverEvents, ProcessNothing, ProcessUnregistered, ProcessFetchFails,
                    ProcessSamples
<1>7. CASE Application
  BY <1>1, <1>2, <1>3, <1>5, <1>7
     DEF Application, RegisterDaqBuffer, UnregisterDaqBuffer, ClearData, GetScans,
         ImmediateUpdate, ReadBoardStatus, board
<1> QED
  BY <1>5, <1>6, <1>7
     DEF Next, Convert, Handler, BottomHalf, ReadBoardStatus, NotifyUserEvents, vars, board

\* As long as no command to the board fails, conversions run only while the
\* driver records the subsystem as running: no order of the ioctls and the
\* handler's own stop leaves the board converting behind its back.
THEOREM StoppedCorrect ==
  ASSUME ~DspFaults
  PROVE  Spec => []StoppedMeansIdle
<1>1. Init => StoppedMeansIdle
  BY DEF Init, StoppedMeansIdle
<1>2. StoppedMeansIdle /\ [Next]_vars => StoppedMeansIdle'
  BY IdleStaysIdle
<1> QED
  BY <1>1, <1>2, PTL DEF Spec

-----------------------------------------------------------------------------
(* Loaned scans.  With the queue modes alone the numbers are those of a    *)
(* queue also before AInAsyncInit, when AInGetScans may be called as well. *)

\* What was loaned last lies in the queue, where nothing is stored.
LoanInQueue == \A p \in LoanedPositions : Distance(tail, p) < count

LoanIInv ==
  /\ NumbersIInv /\ ~bRecycle /\ QueueNumbers
  /\ LoanedPositions \subseteq Positions /\ LoanInQueue

LEMMA NothingLoaned == loan = NoLoan => LoanedPositions = {}
<1>1. 0 * ScanSize = 0 /\ (0 + 0) * ScanSize - 1 = 0 - 1
  BY Geometry, SMT
<1> QED
  BY <1>1 DEF NoLoan, LoanedPositions

\* The bottom half stores beyond the values of the queue.
LEMMA StoredOutsideQueue ==
  ASSUME TypeOK, QueueNumbers, ~bRecycle, NEW drain \in BOOLEAN, StoreStep(drain),
         NEW p \in Positions, Distance(tail, p) < count
  PROVE  buf'[p] = buf[p]
<1> DEFINE k == Copied(Len(XferBuf(drain)))
<1>1. /\ count' = count + k /\ count < MaxValues /\ count' <= MaxValues
      /\ k \in Nat
      /\ Distance(head, p) >= k => buf'[p] = buf[p]
  BY StoreNumbers
<1>2. /\ head \in Nat /\ head < MaxValues /\ tail \in Nat /\ tail < MaxValues
      /\ p \in Nat /\ p < MaxValues /\ MaxValues \in Nat /\ count \in Nat
  BY Ranges DEF Positions
<1>3. count = Distance(tail, head)
  BY <1>1, <1>2 DEF QueueNumbers
<1> HIDE DEF k
<1>4. Distance(head, p) >= MaxValues - count
  BY <1>2, <1>3, SMT DEF Distance
<1>5. Distance(head, p) \in Int
  BY <1>2 DEF Distance
<1> QED
  BY <1>1, <1>2, <1>4, <1>5

LEMMA NextKeepsLoan ==
  ASSUME \A m \in Modes : ~m.recycle
  PROVE  /\ LoanIInv /\ [Next]_vars => LoanIInv'
         /\ LoanIInv /\ [Next]_vars =>
              (~bRecycle /\ loan' = loan => \A p \in LoanedPositions : buf'[p] = buf[p])
<1> SUFFICES ASSUME LoanIInv, [Next]_vars
             PROVE  /\ ~bRecycle' /\ QueueNumbers'
                    /\ LoanedPositions' \subseteq Positions /\ LoanInQueue'
                    /\ loan' = loan => \A p \in LoanedPositions : buf'[p] = buf[p]
  BY NextNumbers DEF LoanIInv
<1>0. TypeOK /\ QueueNumbers /\ ~bRecycle /\ NumbersIInv /\ LoanedPositions \subseteq Positions
  BY DEF LoanIInv, NumbersIInv
<1>1. ~bRecycle'
  <2>1. ASSUME NEW mode \in Modes, NEW allocated \in BOOLEAN, RegisterDaqBuffer(mode, allocated)
        PROVE  ~bRecycle'
    BY <2>1 DEF RegisterDaqBuffer
  <2>2. ASSUME UNCHANGED bRecycle
        PROVE  ~bRecycle'
    BY <1>0, <2>2
  <2>3. CASE ProcessDriverEvents
    BY <2>2, <2>3 DEF ProcessDriverEvents, ProcessNothing, ProcessUnregistered, ProcessFetchFails,
                      ProcessSamples, Process
  <2>4. CASE Application
    BY <2>1, <2>2, <2>4
       DEF Application, UnregisterDaqBuffer, AsyncInit, AsyncStart, AsyncStop, AsyncTerm,
           AsyncInitUnregistered, Reset, ClearData, GetScans, ImmediateUpdate, ReadBoardStatus,
           bufInfo
  <2> QED
    BY <2>2, <2>3, <2>4
       DEF Next, Convert, Handler, BottomHalf, ReadBoardStatus, NotifyUserEvents, vars, bufInfo
<1>2. CASE QuietStep
  BY <1>0, <1>1, <1>2 DEF QuietStep, KeepRun, LoanIInv, LoanInQueue, LoanedPositions, QueueNumbers,
                          Reader, Distance
<1>3. CASE ForgetStep
  <2>1. LoanedPositions' = {} /\ (loan' = loan => LoanedPositions = {})
    <3>1. loan' = NoLoan
      BY <1>3 DEF ForgetStep, ForgetRun
    <3>2. (loan = NoLoan => LoanedPositions = {})'
      BY NothingLoaned, PTL
    <3> QED
      BY <3>1, <3>2, NothingLoaned
  <2> QED
    BY <1>0, <1>1, <1>3, <2>1 DEF ForgetStep, LoanInQueue, QueueNumbers, Reader, Distance
<1>4. CASE ClearStep
  <2>1. LoanedPositions' = {} /\ (loan' = loan => LoanedPositions = {})
    <3>1. loan' = NoLoan
      BY <1>4 DEF ClearStep, ClearDaqBuffer
    <3>2. (loan = NoLoan => LoanedPositions = {})'
      BY NothingLoaned, PTL
    <3> QED
      BY <3>1, <3>2, NothingLoaned
  <2>2. count' = 0 /\ head' = 0 /\ tail' = 0 /\ scanIndex' = 0 /\ 0 * ScanSize = 0
    BY <1>4, Geometry, SMT DEF ClearStep, ClearDaqBuffer
  <2> QED
    BY <1>1, <2>1, <2>2 DEF LoanInQueue, QueueNumbers, Reader, Distance
<1>5. ASSUME NEW numScans \in 1 .. MaxScans, GetScans(numScans)
      PROVE  /\ QueueNumbers' /\ LoanedPositions' \subseteq Positions /\ LoanInQueue'
             /\ UNCHANGED buf
  <2> DEFINE valid == ValidScans(numScans)
             v == valid * ScanSize
  <2>1. UNCHANGED buf /\ loan'.first = scanIndex /\ loan'.scans = valid
    BY <1>5 DEF GetScans
  <2>2. /\ QueueNumbers' /\ Distance(tail', Reader) + v <= count'
    BY <1>0, <1>5, GetScansTakes
  <2>3. /\ valid \in Nat /\ scanIndex \in Nat
        /\ v \in Nat /\ Reader + v <= MaxValues /\ Reader \in Nat
        /\ (scanIndex + valid) * ScanSize = Reader + v
    <3>1. valid \in Nat /\ scanIndex \in Nat
      BY <1>0, ScansInside, Geometry, SMT DEF TypeOK
    <3>2. Reader + v <= MaxValues
      BY <1>0, ScansPlace DEF Reader
    <3> QED
      BY <1>0, <3>1, <3>2, Ranges, SMTT(30) DEF Reader
  <2>4. LoanedPositions' = Reader .. Reader + v - 1
    BY <2>1, <2>3 DEF LoanedPositions, Reader
  <2>5. tail' \in Nat /\ tail' < MaxValues
    <3>1. tail' \in Positions
      BY <1>0, <1>5, ReleasedToFrame, FrameStartsInside DEF GetScans
    <3> QED
      BY <3>1, Geometry, SMT DEF Positions
  <2>6. count' \in Nat
    BY <1>0, <1>5, GetScansTypeOK, TransferAssumption DEF TypeOK
  <2> HIDE DEF v, valid
  <2>7. LoanedPositions' \subseteq Positions
    BY <2>3, <2>4, Geometry DEF Positions
  <2>8. ASSUME NEW p \in LoanedPositions'
        PROVE  Distance(tail', p) < count'
    <3>1. p \in Int /\ p >= Reader /\ p < Reader + v
      BY <2>3, <2>4
    <3>2. \A t \in 0 .. MaxValues - 1, a, w, c \in Nat :
             a + w <= MaxValues /\ Distance(t, a) + w <= c /\ a <= p /\ p < a + w => Distance(t, p) < c
      BY <3>1, Geometry, SMT DEF Distance
    <3>3. tail' \in 0 .. MaxValues - 1
      BY <2>5, Geometry
    <3> QED
      BY <2>2, <2>3, <2>6, <3>1, <3>2, <3>3
  <2>9. LoanInQueue'
    BY <2>8 DEF LoanInQueue, Distance
  <2> QED
    BY <2>1, <2>2, <2>7, <2>9
<1>6. ASSUME NEW drain \in BOOLEAN, StoreStep(drain)
      PROVE  /\ QueueNumbers' /\ LoanedPositions' \subseteq Positions /\ LoanInQueue'
             /\ \A p \in LoanedPositions : buf'[p] = buf[p]
  <2>1. LoanedPositions' = LoanedPositions
    BY <1>6 DEF StoreStep, KeepRun, LoanedPositions
  <2>2. \A p \in LoanedPositions : buf'[p] = buf[p]
    BY <1>0, <1>6, StoredOutsideQueue DEF LoanIInv, LoanInQueue
  <2> DEFINE n == Len(XferBuf(drain))
             k == Copied(n)
  <2>3. /\ n \in Nat /\ k \in 0 .. n
        /\ tail' = tail /\ Reader' = Reader /\ count' = count + k
    BY <1>0, <1>6, StoreNumbers
  <2>4. QueueNumbers'
    <3>1. \/ count' = Distance(tail, head')
          \/ count' = MaxValues /\ head' = tail
      <4>1. ~BufferFull /\ count' = NewCount(n) /\ head' = NewHead(n)
        BY <1>6 DEF StoreStep, Store
      <4> HIDE DEF n
      <4> QED
        BY <1>0, <2>3, <4>1, StoreKeepsQueue
    <3> HIDE DEF n, k
    <3>2. Distance(tail, Reader) <= count'
      <4>1. Distance(tail, Reader) \in Int
        BY <1>0, Ranges DEF Distance
      <4> QED
        BY <1>0, <2>3, <4>1, Ranges DEF QueueNumbers
    <3> QED
      BY <2>3, <3>1, <3>2 DEF QueueNumbers, Distance
  <2>5. LoanInQueue'
    <3> HIDE DEF n, k
    <3>1. ASSUME NEW p \in LoanedPositions
          PROVE  Distance(tail, p) < count'
      <4>1. Distance(tail, p) < count /\ p \in Nat
        BY <1>0, <3>1 DEF LoanIInv, LoanInQueue, Positions
      <4>2. Distance(tail, p) \in Int
        BY <1>0, <4>1, Ranges DEF Distance
      <4> QED
        BY <1>0, <2>3, <4>1, <4>2, Ranges
    <3> QED
      BY <2>1, <2>3, <3>1 DEF LoanInQueue, Distance
  <2> QED
    BY <1>0, <2>1, <2>2, <2>4, <2>5
<1> QED
  BY <1>0, <1>1, <1>2, <1>3, <1>4, <1>5, <1>6, Steps

LEMMA InitLoan == Init => LoanIInv
<1>1. Init => NumbersIInv
  BY InitTypeOK DEF Init, QueueOK, NoRunYet, RunNumbers, NumbersIInv
<1>2. Init => ~bRecycle /\ QueueNumbers
  <2>1. 0 * ScanSize = 0
    BY Geometry, SMT
  <2> QED
    BY <2>1 DEF Init, QueueNumbers, Reader, Distance
<1>3. Init => LoanedPositions = {}
  BY NothingLoaned DEF Init
<1> QED
  BY <1>1, <1>2, <1>3 DEF LoanIInv, LoanInQueue

\* In the single-run and wrapped modes: until the application calls AInGetScans
\* again, nothing overwrites the scans the last call offered it, which it reads
\* from the mapped buffer without a lock.
THEOREM LoanUndisturbedCorrect ==
  ASSUME \A m \in Modes : ~m.recycle
  PROVE  Spec => LoanUndisturbed
<1>1. Init => LoanIInv
  BY InitLoan
<1>2. LoanIInv /\ [Next]_vars => LoanIInv'
  BY NextKeepsLoan
<1>3. LoanIInv /\ [Next]_vars =>
        (~bRecycle /\ loan' = loan => \A p \in LoanedPositions : buf'[p] = buf[p])
  BY NextKeepsLoan
<1> QED
  BY <1>1, <1>2, <1>3, PTL DEF Spec, LoanUndisturbed

-----------------------------------------------------------------------------
(* The samples themselves.  While commands succeed, conversions do not race *)
(* the handler and ImmediateUpdate is not called, a run that goes on knows  *)
(* what its FIFO holds.                                                     *)

Undisturbed == ~DspFaults /\ ~RacingConversions /\ ~ImmediateUpdates

\* A latched bit of the board tells the truth, and so does the status the
\* handler has read.
BoardFollowed ==
  /\ ~status.imm
  /\ ~closed =>
       /\ "eStopped" \notin eventsNew
       /\ FHFSC => Len(fifo) >= BlkXferValues
       /\ FFSC => Len(fifo) = FifoSize
       /\ phase = "process" =>
            /\ FHFSC => status.fhf
            /\ FFSC => status.ff
            /\ status.fhf => Len(fifo) >= BlkXferValues

\* The FIFO goes on where the DAQ buffer ends, and unless it has overflown the
\* next conversion goes on where it ends.
FifoFollows ==
  /\ \A i \in 1 .. Len(fifo) : fifo[i] = base + good + i
  /\ FFSC \/ made = base + good + Len(fifo)

\* The handler fetches what the transfer buffer then holds: samples only.
LEMMA FetchIsWhole ==
  ASSUME TypeOK, BoardFollowed, ~closed, phase = "process", NEW drain \in BOOLEAN, drain => status.fhf
  PROVE  /\ Polled(drain) = 0
         /\ FetchedFromFifo(drain) \in 0 .. Len(fifo)
         /\ Len(XferBuf(drain)) = FetchedFromFifo(drain)
         /\ \A i \in 1 .. FetchedFromFifo(drain) : XferBuf(drain)[i] = fifo[i]
<1> DEFINE m == FetchedFromFifo(drain)
<1>0. Len(fifo) \in Nat
  BY DEF TypeOK
<1>1. Polled(drain) = 0
  BY DEF BoardFollowed, Polled
<1>2. m \in 0 .. Len(fifo)
  BY FetchInside
<1>3. FetchedWords(drain) = m
  <2>1. CASE status.fhf
    <3>1. Len(fifo) >= BlkXferValues
      BY <2>1 DEF BoardFollowed
    <3>2. m >= BlkXferValues
      BY <1>0, <3>1, TransferAssumption, SMT DEF FetchedFromFifo, Least
    <3> HIDE DEF m
    <3> QED
      BY <1>0, <1>2, <2>1, <3>2, TransferAssumption DEF FetchedWords, Greatest, m
  <2>2. CASE ~status.fhf
    BY <2>2 DEF FetchedWords
  <2> QED
    BY <2>1, <2>2
<1>4. Len(XferBuf(drain)) = m
  BY <1>0, <1>1, <1>2, <1>3, FetchedAreWords
<1>5. ASSUME NEW i \in 1 .. m
      PROVE  XferBuf(drain)[i] = fifo[i]
  <2>1. i \in 1 .. FetchedWords(drain) + Polled(drain) /\ ~(i <= Polled(drain)) /\ i <= m
    BY <1>0, <1>1, <1>2, <1>3
  <2> QED
    BY <2>1 DEF XferBuf
<1> QED
  BY <1>1, <1>2, <1>4, <1>5

\* What the handler does to the board, without faults.
LEMMA ProcessFollowed ==
  ASSUME Undisturbed, TypeOK, BoardFollowed, ProcessDriverEvents, ~closed'
  PROVE  /\ ~closed /\ "eStopped" \notin eventsNew'
         /\ FFSC' = FFSC /\ made' = made /\ base' = base /\ phase' = "notify" /\ status' = status
         /\ \/ UNCHANGED <<fifo, good, FHFSC>>
            \/ ~FHFSC' /\ ~FFSC /\ \E drain \in BOOLEAN : ProcessSamples(drain)
<1>0. good + 0 = good
  BY DEF TypeOK
<1>1. ASSUME Process, NEW new, NEW k, Conclude(new, k)
      PROVE  /\ ~closed /\ "eStopped" \notin new /\ "eStopped" \notin eventsNew'
             /\ FHFSC' = (FHFSC /\ ~(bCheckHalfDone /\ status.fhf))
             /\ good' = IF FifoError THEN good ELSE good + k
             /\ FFSC' = FFSC /\ made' = made /\ base' = base /\ phase' = "notify" /\ status' = status
             /\ phase = "process" /\ (FHFSC => status.fhf) /\ (FFSC => status.ff)
  <2>1. ~closed /\ "eStopped" \notin new
    BY <1>1 DEF Conclude
  <2>2. "eStopped" \notin eventsNew'
    BY <1>1, <2>1 DEF Conclude, BoardFollowed
  <2> QED
    BY <1>1, <2>1, <2>2 DEF Conclude, Process, BoardFollowed
<1>2. CASE ProcessNothing
  <2>1. Process /\ ~bCheckHalfDone /\ Conclude({}, 0) /\ UNCHANGED fifo
    BY <1>2 DEF ProcessNothing
  <2>2. FHFSC' = FHFSC
    BY <1>1, <2>1 DEF TypeOK
  <2>3. good' = good
    BY <1>0, <1>1, <2>1
  <2> QED
    BY <1>1, <2>1, <2>2, <2>3
<1>3. CASE ProcessUnregistered
  BY <1>1, <1>3 DEF ProcessUnregistered
<1>4. CASE ProcessFetchFails
  BY <1>4 DEF ProcessFetchFails, Undisturbed
<1>5. ASSUME NEW drain \in BOOLEAN, ProcessSamples(drain)
      PROVE  /\ ~closed /\ "eStopped" \notin eventsNew'
             /\ FFSC' = FFSC /\ made' = made /\ base' = base /\ phase' = "notify" /\ status' = status
             /\ ~FHFSC' /\ ~FFSC
  <2>1. PICK new, k : Process /\ bCheckHalfDone /\ Conclude(new, k) /\ ErrorEvents \subseteq new
    BY <1>5 DEF ProcessSamples
  <2>2. ~FHFSC'
    BY <1>1, <2>1 DEF TypeOK
  <2>3. ~FFSC
    BY <1>1, <2>1 DEF ErrorEvents, FifoError
  <2> QED
    BY <1>1, <2>1, <2>2, <2>3
<1> QED
  BY <1>2, <1>3, <1>4, <1>5 DEF ProcessDriverEvents

LEMMA NextKeepsBoard ==
  ASSUME Undisturbed
  PROVE  TypeOK /\ BoardFollowed /\ [Next]_vars => BoardFollowed'
<1> SUFFICES ASSUME TypeOK, BoardFollowed, [Next]_vars PROVE BoardFollowed'
  OBVIOUS
<1>0. Len(fifo) \in Nat /\ ~status.imm
  BY DEF TypeOK, BoardFollowed
<1>1. CASE Convert
  <2>1. phase = "idle"
    BY <1>1 DEF Convert, Undisturbed
  <2>2. /\ FHFSC' => FHFSC \/ Len(fifo') >= BlkXferValues
        /\ FFSC' => FFSC \/ Len(fifo') = FifoSize
        /\ UNCHANGED <<closed, eventsNew, phase, status>>
    BY <1>1 DEF Convert, history
  <2>3. /\ Len(fifo) < FifoSize => Len(fifo') = Len(fifo) + 1
        /\ ~(Len(fifo) < FifoSize) => fifo' = fifo
    BY <1>1, AppendProperties DEF Convert, TypeOK
  <2>4. /\ Len(fifo) >= BlkXferValues => Len(fifo') >= BlkXferValues
        /\ Len(fifo) = FifoSize => Len(fifo') = FifoSize
    BY <1>0, <2>3, TransferAssumption, SMT
  <2> QED
    BY <2>1, <2>2, <2>4 DEF BoardFollowed
<1>2. ASSUME closed', status'.imm = status.imm \/ status' = NoStatus
      PROVE  BoardFollowed'
  BY <1>0, <1>2 DEF BoardFollowed, NoStatus
<1>3. CASE UnregisterDaqBuffer \/ Reset \/ ClearData
  BY <1>2, <1>3 DEF UnregisterDaqBuffer, Unlocked, ForgetRun, Reset, ClearData, Setup, Locked
<1>4. ASSUME NEW mode \in Modes, NEW allocated \in BOOLEAN, RegisterDaqBuffer(mode, allocated)
      PROVE  BoardFollowed'
  BY <1>2, <1>4 DEF RegisterDaqBuffer, Unlocked, ForgetRun
<1>5. ASSUME NEW ok \in BOOLEAN, AsyncInit(ok)
      PROVE  BoardFollowed'
  <2>1. ok = TRUE
    BY <1>5 DEF AsyncInit, Undisturbed
  <2>2. ~FHFSC' /\ ~FFSC' /\ eventsNew' = {} /\ phase' = "idle" /\ status' = status
    BY <1>5, <2>1 DEF AsyncInit, ClearDaqBuffer, Setup, Locked
  <2> QED
    BY <1>0, <2>2 DEF BoardFollowed
<1>6. ASSUME UNCHANGED <<closed, eventsNew, FHFSC, FFSC, fifo, phase, status>>
      PROVE  BoardFollowed'
  BY <1>6 DEF BoardFollowed
<1>7. ASSUME \/ \E ok \in BOOLEAN : AsyncStart(ok) \/ AsyncStop(ok) \/ AsyncTerm(ok)
             \/ AsyncInitUnregistered
             \/ \E numScans \in 1 .. MaxScans : GetScans(numScans)
             \/ UNCHANGED vars
      PROVE  BoardFollowed'
  BY <1>6, <1>7 DEF AsyncStart, AsyncStop, AsyncTerm, AsyncInitUnregistered, GetScans, Ioctl,
                    Locked, history, board, vars
<1>8. CASE BottomHalf
  <2>1. /\ status' = [ff  |-> FFSC \/ Len(fifo) = FifoSize,
                      fhf |-> FHFSC \/ Len(fifo) >= BlkXferValues,
                      imm |-> FALSE]
        /\ UNCHANGED <<closed, eventsNew, FHFSC, FFSC, fifo>>
    BY <1>8 DEF BottomHalf, ReadBoardStatus, history, board
  <2> QED
    BY <2>1 DEF BoardFollowed
<1>9. CASE ProcessDriverEvents
  <2>1. CASE closed'
    <3>1. UNCHANGED status
      BY <1>9 DEF ProcessDriverEvents, ProcessNothing, ProcessUnregistered, ProcessFetchFails,
                  ProcessSamples, Process
    <3> QED
      BY <1>2, <2>1, <3>1
  <2>2. CASE ~closed'
    BY <1>0, <1>9, <2>2, ProcessFollowed DEF BoardFollowed
  <2> QED
    BY <2>1, <2>2
<1>10. ASSUME NEW waitedFor \in Waits, NotifyUserEvents(waitedFor)
       PROVE  BoardFollowed'
  BY <1>10 DEF NotifyUserEvents, NoStatus, BoardFollowed, board, history
<1> QED
  BY <1>1, <1>3, <1>4, <1>5, <1>7, <1>8, <1>9, <1>10
     DEF Next, Application, Handler, ImmediateUpdate, Undisturbed

\* The first m samples leave the FIFO for the DAQ buffer.
LEMMA FifoMovesOn ==
  ASSUME TypeOK, FifoFollows, NEW m \in 0 .. Len(fifo),
         fifo' = SubSeq(fifo, m + 1, Len(fifo)), good' = good + m, UNCHANGED <<base, made, FFSC>>
  PROVE  FifoFollows'
<1>0. fifo \in Seq(Samples) /\ Len(fifo) \in Nat /\ good \in Nat /\ base \in Int /\ m \in Nat
  BY DEF TypeOK
<1>1. Len(fifo') = Len(fifo) - m
  BY SuffixTypeOK
<1>2. ASSUME NEW i \in 1 .. Len(fifo')
      PROVE  fifo'[i] = base + good' + i
  <2>1. i + m \in 1 .. Len(fifo)
    BY <1>0, <1>1
  <2>2. fifo'[i] = fifo[(m + 1) + i - 1] /\ (m + 1) + i - 1 = i + m
    <3>1. /\ m + 1 \in 1 .. Len(fifo) + 1 /\ Len(fifo) \in m .. Len(fifo)
          /\ i \in 1 .. Len(fifo) - (m + 1) + 1
      BY <1>0, <1>1
    <3> QED
      BY <1>0, <3>1, SubSeqProperties
  <2>3. fifo[i + m] = base + good + (i + m)
    BY <2>1 DEF FifoFollows
  <2> QED
    BY <1>0, <1>1, <2>2, <2>3
<1>3. FFSC' \/ made' = base' + good' + Len(fifo')
  <2>1. base + good + Len(fifo) = base + (good + m) + (Len(fifo) - m)
    BY <1>0
  <2> QED
    BY <1>1, <2>1 DEF FifoFollows
<1> QED
  BY <1>2, <1>3 DEF FifoFollows

LEMMA FifoKept ==
  ASSUME Undisturbed, TypeOK, BoardFollowed, [Next]_vars, ~closed', ~closed => FifoFollows,
         \A drain \in BOOLEAN :
           StoreStep(drain) => Copied(Len(XferBuf(drain))) = Len(XferBuf(drain))
  PROVE  FifoFollows'
<1>0. /\ fifo \in Seq(Samples) /\ Len(fifo) \in Nat /\ good \in Nat /\ base \in Int /\ made \in Nat
  BY TransferAssumption DEF TypeOK, Samples
<1>1. CASE Convert
  <2>1. ~closed /\ FifoFollows /\ UNCHANGED <<base, good>> /\ made' = made + 1
    BY <1>1 DEF Convert, history
  <2>2. CASE Len(fifo) < FifoSize
    <3>1. fifo' = Append(fifo, made + 1)
      BY <1>1, <2>2 DEF Convert
    <3>2. ~FFSC
      BY <1>0, <2>1, <2>2, TransferAssumption DEF BoardFollowed
    <3>3. made = base + good + Len(fifo)
      BY <2>1, <3>2 DEF FifoFollows
    <3>4. made + 1 \in Samples
      BY <1>1, TransferAssumption DEF Convert, TypeOK, Samples
    <3>5. /\ Len(fifo') = Len(fifo) + 1
          /\ fifo'[Len(fifo) + 1] = made + 1
          /\ \A i \in 1 .. Len(fifo) : fifo'[i] = fifo[i]
      BY <1>0, <3>1, <3>4, AppendProperties
    <3>6. ASSUME NEW i \in 1 .. Len(fifo')
          PROVE  fifo'[i] = base + good + i
      <4>1. CASE i = Len(fifo) + 1
        BY <1>0, <3>3, <3>5, <4>1
      <4>2. CASE i \in 1 .. Len(fifo)
        BY <2>1, <3>5, <4>2 DEF FifoFollows
      <4> QED
        BY <1>0, <3>5, <4>1, <4>2
    <3> QED
      BY <1>0, <2>1, <3>3, <3>5, <3>6 DEF FifoFollows
  <2>3. CASE ~(Len(fifo) < FifoSize)
    <3>1. fifo' = fifo /\ Len(fifo') = FifoSize
      BY <1>0, <1>1, <2>3, TransferAssumption DEF Convert, TypeOK
    <3>2. FFSC'
      BY <1>1, <3>1 DEF Convert
    <3> QED
      BY <2>1, <3>1, <3>2 DEF FifoFollows
  <2> QED
    BY <2>2, <2>3
<1>2. ASSUME NEW ok \in BOOLEAN, AsyncInit(ok)
      PROVE  FifoFollows'
  <2>1. /\ base' = made - Len(fifo) /\ good' = 0 /\ UNCHANGED <<made, fifo>>
        /\ closed' = ~Unbroken
    BY <1>2 DEF AsyncInit, ClearDaqBuffer
  <2>2. \A i \in 1 .. Len(fifo) : fifo[i] = made - Len(fifo) + i
    BY <2>1 DEF Unbroken
  <2>3. \A i \in 1 .. Len(fifo) : made - Len(fifo) + i = made - Len(fifo) + 0 + i
    BY <1>0
  <2>4. made = made - Len(fifo) + 0 + Len(fifo)
    BY <1>0
  <2> QED
    BY <2>1, <2>2, <2>3, <2>4 DEF FifoFollows
<1>3. ASSUME ~closed, UNCHANGED <<fifo, good, base, made, FFSC>>
      PROVE  FifoFollows'
  BY <1>3 DEF FifoFollows
<1>4. ASSUME \/ UnregisterDaqBuffer \/ Reset \/ ClearData
             \/ \E mode \in Modes, allocated \in BOOLEAN : RegisterDaqBuffer(mode, allocated)
      PROVE  FALSE
  BY <1>4 DEF UnregisterDaqBuffer, RegisterDaqBuffer, ForgetRun, Reset, ClearData
<1>5. ASSUME \/ \E ok \in BOOLEAN : AsyncStart(ok) \/ AsyncStop(ok) \/ AsyncTerm(ok)
             \/ AsyncInitUnregistered
             \/ \E numScans \in 1 .. MaxScans : GetScans(numScans)
             \/ \E imm : ReadBoardStatus(imm)
             \/ \E waitedFor \in Waits : NotifyUserEvents(waitedFor)
             \/ UNCHANGED vars
      PROVE  FifoFollows'
  <2>1. UNCHANGED <<closed, fifo, good, base, made, FFSC>>
    BY <1>5 DEF AsyncStart, AsyncStop, AsyncTerm, AsyncInitUnregistered, GetScans,
                ReadBoardStatus, NotifyUserEvents, history, board, vars
  <2> QED
    BY <1>3, <2>1
<1>6. ASSUME NEW drain \in BOOLEAN, ProcessSamples(drain)
      PROVE  FifoFollows'
  <2> DEFINE m == FetchedFromFifo(drain)
             n == Len(XferBuf(drain))
  <2>1. ProcessDriverEvents /\ phase = "process" /\ (drain => status.fhf)
    BY <1>6 DEF ProcessDriverEvents, ProcessSamples, Process
  <2>2. ~closed /\ UNCHANGED <<base, made, FFSC>>
    BY <2>1, ProcessFollowed
  <2>3. Polled(drain) = 0 /\ m \in 0 .. Len(fifo) /\ n = m
    BY <2>1, <2>2, FetchIsWhole
  <2>4. fifo' = SubSeq(fifo, m + 1, Len(fifo))
    <3>1. m + Polled(drain) = m
      BY <1>0, <2>3
    <3> QED
      BY <1>6, <3>1 DEF ProcessSamples
  <2>5. good' = good + m
    <3>1. CASE n = 0
      <4>1. Conclude(ErrorEvents, 0)
        BY <1>6, <3>1 DEF ProcessSamples
      <4>2. good' = good
        BY <1>0, <4>1 DEF Conclude
      <4> QED
        BY <1>0, <2>3, <3>1, <4>2
    <3>2. CASE n # 0 /\ BufferFull
      <4>1. Conclude(ErrorEvents \cup FullEvents, 0)
        BY <1>6, <3>2 DEF ProcessSamples
      <4>2. closed'
        BY <4>1 DEF Conclude, FullEvents
      <4> QED
        BY <4>2
    <3>3. CASE n # 0 /\ ~BufferFull
      <4>1. StoreStep(drain)
        BY <1>6, <3>3, SamplesStored
      <4>2. Copied(n) = n
        BY <4>1
      <4>3. good' = good + Copied(n)
        BY <4>1 DEF StoreStep
      <4> QED
        BY <2>3, <4>2, <4>3
    <3> QED
      BY <3>1, <3>2, <3>3
  <2> HIDE DEF m, n
  <2> QED
    BY <2>2, <2>3, <2>4, <2>5, FifoMovesOn
<1>7. CASE ProcessDriverEvents
  <2>1. CASE UNCHANGED <<fifo, good>>
    BY <1>3, <1>7, <2>1, ProcessFollowed
  <2> QED
    BY <1>6, <1>7, <2>1, ProcessFollowed
<1> QED
  BY <1>1, <1>2, <1>4, <1>5, <1>6, <1>7 DEF Next, Application, Handler, BottomHalf, ImmediateUpdate

-----------------------------------------------------------------------------
(* The unread samples and the stream.                                      *)

ValuesIInv ==
  /\ NumbersIInv /\ BoardFollowed
  /\ ~closed /\ ~bRecycle => FifoFollows
  /\ UnreadIntact /\ StreamUnbroken

\* While the run goes on no more is delivered than was stored.
LEMMA DeliveredWasStored ==
  ASSUME NumbersIInv, initialised, ~bRecycle, ~closed
  PROVE  Len(delivered) <= good
<1>1. TypeOK /\ QueueNumbers /\ Unread = good - Len(delivered)
  BY DEF NumbersIInv, RunNumbers, QueueOK, QueueNumbers, Reader
<1>2. Distance(tail, Reader) \in Int
  BY <1>1, Ranges DEF Distance
<1> QED
  BY <1>1, <1>2, Ranges DEF QueueNumbers, Unread

\* The place of an unread sample is a place in the queue.
LEMMA UnreadInQueue ==
  ASSUME NumbersIInv, initialised, ~bRecycle, NEW i \in Len(delivered) + 1 .. good
  PROVE  /\ (i - 1) % MaxValues \in Positions
         /\ Distance(tail, (i - 1) % MaxValues) < count
<1> DEFINE d == Len(delivered)
           j == i - 1 - d
           p == (i - 1) % MaxValues
<1>0. TypeOK /\ QueueNumbers
  BY DEF NumbersIInv, QueueOK, QueueNumbers, Reader
<1>1. /\ Reader \in Nat /\ Reader < MaxValues /\ tail \in Nat /\ tail < MaxValues
      /\ count \in Nat /\ MaxValues \in Nat \ {0} /\ d \in Nat /\ good \in Nat
      /\ head \in Nat /\ head < MaxValues
  BY <1>0, Ranges
<1>2. i \in Int /\ j \in Nat /\ j < good - d /\ i - 1 = d + j /\ d < good
  BY <1>1
<1>3. d % MaxValues = Reader /\ good - d <= Unread
  BY <1>2 DEF NumbersIInv, RunNumbers
<1>4. Distance(tail, Reader) \in Nat /\ Distance(tail, Reader) <= count /\ count <= MaxValues
  BY <1>0, <1>1, SMT DEF QueueNumbers, Distance
<1>5. j < count - Distance(tail, Reader) /\ j \in 0 .. MaxValues
  BY <1>1, <1>2, <1>3, <1>4 DEF Unread
<1>6. p = IF Reader + j < MaxValues THEN Reader + j ELSE Reader + j - MaxValues
  <2> HIDE DEF d, j
  <2> QED
    BY <1>1, <1>2, <1>3, <1>5, GoOn
<1> HIDE DEF d, j, p
<1>7. p \in Positions
  BY <1>1, <1>2, <1>5, <1>6, SMT DEF Positions
<1>8. Distance(tail, p) < count
  BY <1>1, <1>2, <1>4, <1>5, <1>6, SMT DEF Distance
<1> QED
  BY <1>7, <1>8 DEF p

\* What is stored for the run comes in order behind what is stored already.
LEMMA StoredInOrder ==
  ASSUME ValuesIInv, initialised, ~bRecycle, NEW drain \in BOOLEAN, StoreStep(drain),
         NEW i \in good + 1 .. good'
  PROVE  buf'[(i - 1) % MaxValues] = base + i
<1> DEFINE n == Len(XferBuf(drain))
           k == Copied(n)
           j == i - 1 - good
           p == (i - 1) % MaxValues
<1>0. TypeOK /\ NumbersIInv /\ QueueNumbers
  BY DEF ValuesIInv, NumbersIInv, QueueOK, QueueNumbers, Reader
<1>1. /\ head \in Nat /\ head < MaxValues /\ MaxValues \in Nat \ {0} /\ good \in Nat
      /\ base \in Int /\ count \in Nat
  BY <1>0, Ranges DEF TypeOK
<1>2. /\ n \in Nat /\ k \in 0 .. n /\ count' = count + k /\ count' <= MaxValues
      /\ good' \in {good, good + k}
      /\ \A q \in Positions : Distance(head, q) < k => buf'[q] = XferBuf(drain)[Distance(head, q) + 1]
  BY <1>0, StoreNumbers
<1>3. good' # good
  BY <1>1
<1>4. ~closed /\ ~FifoError /\ phase = "process" /\ (drain => status.fhf)
  <2>1. ~closed /\ ~FifoError
    BY <1>3 DEF StoreStep
  <2>2. phase = "process" /\ (drain => status.fhf)
    BY DEF StoreStep
  <2> QED
    BY <2>1, <2>2
<1>5. /\ n \in 0 .. Len(fifo)
      /\ \A q \in 1 .. n : XferBuf(drain)[q] = fifo[q]
      /\ \A q \in 1 .. Len(fifo) : fifo[q] = base + good + q
      /\ Len(fifo) \in Nat
  BY <1>0, <1>4, FetchIsWhole DEF ValuesIInv, FifoFollows, TypeOK
<1>6. head = good % MaxValues
  BY <1>0, <1>4 DEF NumbersIInv, RunNumbers
<1> HIDE DEF n, k
<1>7. j \in Nat /\ j < k /\ k <= MaxValues /\ i - 1 = good + j /\ j \in 0 .. MaxValues
  BY <1>1, <1>2, <1>3
<1>8. p = IF head + j < MaxValues THEN head + j ELSE head + j - MaxValues
  <2> HIDE DEF j
  <2> QED
    BY <1>1, <1>6, <1>7, GoOn
<1>9. i = good + (j + 1)
  BY <1>1, <1>7
<1> HIDE DEF j, p
<1>10. p \in Positions /\ Distance(head, p) = j
  <2>1. CASE head + j < MaxValues
    <3>1. p = head + j
      BY <1>8, <2>1
    <3> QED
      BY <1>1, <1>7, <2>1, <3>1, SMT DEF Positions, Distance
  <2>2. CASE ~(head + j < MaxValues)
    <3>1. p = head + j - MaxValues
      BY <1>8, <2>2
    <3>2. j < MaxValues
      BY <1>1, <1>2, <1>7
    <3> QED
      BY <1>1, <1>7, <2>2, <3>1, <3>2, SMT DEF Positions, Distance
  <2> QED
    BY <2>1, <2>2
<1>11. j + 1 \in 1 .. n /\ j + 1 \in 1 .. Len(fifo)
  BY <1>2, <1>5, <1>7
<1>12. buf'[p] = base + good + (j + 1)
  BY <1>2, <1>5, <1>7, <1>10, <1>11
<1> QED
  BY <1>1, <1>7, <1>9, <1>12 DEF p

LEMMA StoreKeepsValues ==
  ASSUME ValuesIInv, initialised, ~bRecycle, NEW drain \in BOOLEAN, StoreStep(drain)
  PROVE  UnreadIntact' /\ StreamUnbroken'
<1>0. TypeOK /\ NumbersIInv /\ QueueNumbers
  BY DEF ValuesIInv, NumbersIInv, QueueOK, QueueNumbers, Reader
<1>1. UNCHANGED <<delivered, base, bRecycle>>
  BY DEF StoreStep, KeepRun
<1>2. good' \in Nat /\ good' >= good /\ (good' # good => ~closed)
  <2>1. Copied(Len(XferBuf(drain))) \in Nat /\ good \in Nat
    BY <1>0, StoreNumbers DEF TypeOK
  <2> QED
    BY <2>1 DEF StoreStep
<1>3. Len(delivered) \in Nat /\ good \in Nat
  BY <1>0, Ranges
<1>4. ASSUME NEW i \in Len(delivered) + 1 .. good'
      PROVE  buf'[(i - 1) % MaxValues] = base + i
  <2>1. CASE i <= good
    <3>1. i \in Len(delivered) + 1 .. good
      BY <1>2, <1>3, <2>1
    <3>2. buf[(i - 1) % MaxValues] = base + i
      BY <3>1 DEF ValuesIInv, UnreadIntact
    <3>3. (i - 1) % MaxValues \in Positions /\ Distance(tail, (i - 1) % MaxValues) < count
      BY <1>0, <3>1, UnreadInQueue
    <3> QED
      BY <1>0, <3>2, <3>3, StoredOutsideQueue
  <2>2. CASE i > good
    <3>1. i \in good + 1 .. good'
      BY <1>2, <1>3, <2>2
    <3> QED
      BY <3>1, StoredInOrder
  <2> QED
    BY <1>2, <1>3, <2>1, <2>2
<1>5. ASSUME NEW i \in 1 .. Least(Len(delivered), good')
      PROVE  delivered[i] = base + i
  <2>1. i \in 1 .. Least(Len(delivered), good)
    <3>1. CASE good' = good
      BY <3>1
    <3>2. CASE good' # good
      <4>1. Len(delivered) <= good
        BY <1>0, <1>2, <3>2, DeliveredWasStored
      <4> QED
        BY <1>2, <1>3, <4>1, SMT DEF Least
    <3> QED
      BY <3>1, <3>2
  <2> QED
    BY <2>1 DEF ValuesIInv, StreamUnbroken
<1> QED
  BY <1>1, <1>4, <1>5 DEF UnreadIntact, StreamUnbroken

LEMMA GetScansKeepsValues ==
  ASSUME ValuesIInv, initialised, ~bRecycle, NEW numScans \in 1 .. MaxScans, GetScans(numScans)
  PROVE  UnreadIntact' /\ StreamUnbroken'
<1> DEFINE d == Len(delivered)
           v == ValidScans(numScans) * ScanSize
<1>0. TypeOK /\ NumbersIInv
  BY DEF ValuesIInv, NumbersIInv
<1>1. UNCHANGED <<good, base, bRecycle, initialised, buf, closed>>
  BY DEF GetScans
<1>2. /\ d \in Nat /\ good \in Nat /\ v \in Nat
      /\ \A i \in d + 1 .. good : buf[(i - 1) % MaxValues] = base + i
      /\ \A i \in 1 .. Least(d, good) : delivered[i] = base + i
  BY <1>0, Delivery, Ranges DEF ValuesIInv, UnreadIntact, StreamUnbroken
<1>3. CASE closed /\ d >= good
  <2>1. delivered' = delivered
    BY <1>0, <1>3, Delivery
  <2> QED
    BY <1>1, <2>1 DEF ValuesIInv, UnreadIntact, StreamUnbroken
<1>4. CASE ~(closed /\ d >= good)
  <2>1. /\ Len(delivered') = d + v
        /\ \A i \in 1 .. d : delivered'[i] = delivered[i]
        /\ \A j \in 1 .. v : delivered'[d + j] = buf[Reader + j - 1] /\ Reader + j - 1 \in Positions
    BY <1>0, <1>4, Delivery
  <2>2. d % MaxValues = Reader /\ d <= good
    <3>1. d < good \/ ~closed
      BY <1>2, <1>4
    <3> QED
      BY <1>0, <1>2, <3>1, DeliveredWasStored DEF NumbersIInv, RunNumbers
  <2> HIDE DEF d, v
  <2>3. ASSUME NEW i \in Len(delivered') + 1 .. good
        PROVE  buf[(i - 1) % MaxValues] = base + i
    <3>1. i \in d + 1 .. good
      BY <1>2, <2>1
    <3> QED
      BY <1>2, <3>1
  <2>4. ASSUME NEW i \in 1 .. Least(d + v, good)
        PROVE  delivered'[i] = base + i
    <3>1. CASE i <= d
      <4>1. i \in 1 .. d /\ i \in 1 .. Least(d, good)
        BY <1>2, <2>2, <3>1, SMT DEF Least
      <4> QED
        BY <1>2, <2>1, <4>1
    <3>2. CASE i > d
      <4> DEFINE j == i - d
      <4>1. j \in 1 .. v /\ i = d + j /\ i \in d + 1 .. good
        BY <1>2, <3>2, SMT DEF Least
      <4>2. delivered'[d + j] = buf[Reader + j - 1] /\ Reader + j - 1 \in Positions
        BY <2>1, <4>1
      <4>3. (i - 1) % MaxValues = Reader + j - 1
        <5>1. Reader \in Nat /\ Reader < MaxValues /\ MaxValues \in Nat \ {0}
          BY <1>0, Ranges
        <5>2. j - 1 \in 0 .. MaxValues /\ d + (j - 1) = i - 1 /\ Reader + (j - 1) < MaxValues
          BY <1>2, <4>1, <4>2, <5>1 DEF Positions
        <5>3. (d + (j - 1)) % MaxValues = IF (d % MaxValues) + (j - 1) < MaxValues
                                         THEN (d % MaxValues) + (j - 1)
                                         ELSE (d % MaxValues) + (j - 1) - MaxValues
          BY <1>2, <5>2, GoOn
        <5> HIDE DEF j
        <5> QED
          BY <1>2, <2>2, <4>1, <5>1, <5>2, <5>3
      <4>4. buf[(i - 1) % MaxValues] = base + i
        BY <1>2, <4>1
      <4> QED
        BY <4>1, <4>2, <4>3, <4>4
    <3>3. i \in Int
      BY <1>2
    <3> QED
      BY <1>2, <3>1, <3>2, <3>3
  <2>5. UnreadIntact'
    BY <1>1, <2>3 DEF UnreadIntact
  <2>6. StreamUnbroken'
    BY <1>1, <2>1, <2>4 DEF StreamUnbroken
  <2> QED
    BY <2>5, <2>6
<1> QED
  BY <1>3, <1>4

LEMMA NextKeepsValues ==
  ASSUME Undisturbed
  PROVE  ValuesIInv /\ [Next]_vars => ValuesIInv'
<1> SUFFICES ASSUME ValuesIInv, [Next]_vars PROVE ValuesIInv'
  OBVIOUS
<1>0. TypeOK /\ NumbersIInv /\ BoardFollowed
  BY DEF ValuesIInv, NumbersIInv
<1>1. NumbersIInv'
  BY <1>0, NextNumbers
<1>2. BoardFollowed'
  BY <1>0, NextKeepsBoard
<1>3. ASSUME ~closed', ~bRecycle'
      PROVE  FifoFollows'
  <2>1. ~closed => ~bRecycle
    BY <1>0, <1>3, Steps DEF QuietStep, ForgetStep, ForgetRun, ClearStep, GetScans, StoreStep, KeepRun
  <2>2. ASSUME NEW drain \in BOOLEAN, StoreStep(drain)
        PROVE  Copied(Len(XferBuf(drain))) = Len(XferBuf(drain))
    <3>1. ~closed /\ ~bRecycle
      BY <1>3, <2>1, <2>2 DEF StoreStep
    <3>2. initialised /\ QueueNumbers
      BY <1>0, <3>1 DEF NumbersIInv, NoRunYet, QueueOK, QueueNumbers, Reader
    <3> QED
      BY <1>0, <1>3, <2>2, <3>1, <3>2, StoreNumbers
  <2>3. ~closed => FifoFollows
    BY <2>1 DEF ValuesIInv
  <2> QED
    BY <1>0, <1>3, <2>2, <2>3, FifoKept
<1>4. UnreadIntact' /\ StreamUnbroken'
  <2>1. CASE QuietStep
    BY <2>1 DEF QuietStep, KeepRun, ValuesIInv, UnreadIntact, StreamUnbroken
  <2>2. CASE ForgetStep
    BY <2>2 DEF ForgetStep, ForgetRun, UnreadIntact, StreamUnbroken
  <2>3. CASE ClearStep
    <3>1. good' = 0 /\ delivered' = <<>>
      BY <2>3 DEF ClearStep, ClearDaqBuffer
    <3>2. Len(delivered') = 0
      BY <3>1, EmptySeq, Zenon
    <3>3. Len(delivered') + 1 .. good' = {} /\ 1 .. Least(Len(delivered'), good') = {}
      BY <3>1, <3>2 DEF Least
    <3> QED
      BY <3>3 DEF UnreadIntact, StreamUnbroken
  <2>4. ASSUME NEW numScans \in 1 .. MaxScans, GetScans(numScans)
        PROVE  UnreadIntact' /\ StreamUnbroken'
    <3>1. CASE initialised /\ ~bRecycle
      BY <2>4, <3>1, GetScansKeepsValues
    <3>2. CASE ~(initialised /\ ~bRecycle)
      BY <2>4, <3>2 DEF GetScans, UnreadIntact, StreamUnbroken
    <3> QED
      BY <3>1, <3>2
  <2>5. ASSUME NEW drain \in BOOLEAN, StoreStep(drain)
        PROVE  UnreadIntact' /\ StreamUnbroken'
    <3>1. CASE initialised /\ ~bRecycle
      BY <2>5, <3>1, StoreKeepsValues
    <3>2. CASE ~(initialised /\ ~bRecycle)
      BY <2>5, <3>2 DEF StoreStep, KeepRun, UnreadIntact, StreamUnbroken
    <3> QED
      BY <3>1, <3>2
  <2> QED
    BY <1>0, <2>1, <2>2, <2>3, <2>4, <2>5, Steps
<1> QED
  BY <1>1, <1>2, <1>3, <1>4 DEF ValuesIInv

LEMMA InitValues == Init => ValuesIInv
<1> SUFFICES ASSUME Init PROVE ValuesIInv
  OBVIOUS
<1>1. NumbersIInv
  BY InitTypeOK DEF Init, QueueOK, NoRunYet, RunNumbers, NumbersIInv
<1>2. BoardFollowed
  BY DEF Init, BoardFollowed, NoStatus
<1> QED
  BY <1>1, <1>2 DEF Init, ValuesIInv, UnreadIntact, StreamUnbroken

LEMMA ValuesCorrect ==
  ASSUME Undisturbed
  PROVE  Spec => []ValuesIInv
<1>1. ValuesIInv /\ [Next]_vars => ValuesIInv'
  BY NextKeepsValues
<1> QED
  BY <1>1, InitValues, PTL DEF Spec

\* In the single-run and wrapped modes, for every geometry, FIFO and transfer
\* size: what is stored and not yet handed out is in the buffer, in the order
\* of the conversions, however the driver and the reader chase each other.
THEOREM UnreadIntactCorrect ==
  ASSUME Undisturbed
  PROVE  Spec => []UnreadIntact
<1>1. ValuesIInv => UnreadIntact
  BY DEF ValuesIInv
<1> QED
  BY <1>1, ValuesCorrect, PTL

\* So the application is given every conversion of the run once and in order,
\* also those left to be read after the run was stopped.
THEOREM StreamUnbrokenCorrect ==
  ASSUME Undisturbed
  PROVE  Spec => []StreamUnbroken
<1>1. ValuesIInv => StreamUnbroken
  BY DEF ValuesIInv
<1> QED
  BY <1>1, ValuesCorrect, PTL

-----------------------------------------------------------------------------
(* Buffered input implements the lossless stream of SampleStream.          *)

\* What AInStream takes for the variable out, and how much of it there is.
Out     == [i \in 1 .. Least(Len(delivered), good) |-> delivered[i] - base]
OutSize == Least(Len(delivered), good)

\* A sequence that counts.
CountTo(n) == [i \in 1 .. n |-> i]

LEMMA Counting ==
  ASSUME NEW a \in Nat, NEW n \in Nat
  PROVE  /\ CountTo(a) \in Seq(Nat) /\ Len(CountTo(a)) = a
         /\ a = 0 => CountTo(a) = <<>>
         /\ CountTo(a + n) = CountTo(a) \o [i \in 1 .. n |-> a + i]
<1>1. ASSUME NEW m \in Nat
      PROVE  CountTo(m) \in Seq(Nat) /\ Len(CountTo(m)) = m
  <2>1. CountTo(m) \in Seq(Nat)
    BY IsASeq DEF CountTo
  <2> QED
    BY <2>1, LenProperties DEF CountTo
<1>2. a = 0 => CountTo(a) = <<>>
  BY <1>1, EmptySeq
<1> DEFINE more == [i \in 1 .. n |-> a + i]
<1>3. more \in Seq(Nat) /\ Len(more) = n
  <2>1. \A i \in 1 .. n : a + i \in Nat
    OBVIOUS
  <2>2. more \in Seq(Nat)
    BY <2>1, IsASeq
  <2> QED
    BY <2>2, LenProperties
<1>4. CountTo(a + n) = CountTo(a) \o more
  <2>1. \A i \in 1 .. n : more[i] = a + i
    OBVIOUS
  <2> HIDE DEF more
  <2>2. /\ CountTo(a) \o more \in Seq(Nat)
        /\ Len(CountTo(a) \o more) = a + n
        /\ \A i \in 1 .. a + n :
             (CountTo(a) \o more)[i] = IF i <= a THEN CountTo(a)[i] ELSE more[i - a]
    <3> DEFINE c == CountTo(a)
    <3>1. c \in Seq(Nat) /\ Len(c) = a /\ more \in Seq(Nat) /\ Len(more) = n
      BY <1>1, <1>3
    <3> HIDE DEF c
    <3>2. /\ c \o more \in Seq(Nat)
          /\ Len(c \o more) = Len(c) + Len(more)
          /\ \A i \in 1 .. Len(c) + Len(more) :
               (c \o more)[i] = IF i <= Len(c) THEN c[i] ELSE more[i - Len(c)]
      BY <3>1, ConcatProperties
    <3>3. /\ c \o more \in Seq(Nat)
          /\ Len(c \o more) = a + n
          /\ \A i \in 1 .. a + n :
               (c \o more)[i] = IF i <= a THEN c[i] ELSE more[i - a]
      BY <3>1, <3>2, Zenon
    <3> QED
      BY <3>3 DEF c
  <2>3. a + n \in Nat /\ CountTo(a + n) \in Seq(Nat) /\ Len(CountTo(a + n)) = a + n
    BY <1>1
  <2>4. ASSUME NEW i \in 1 .. a + n
        PROVE  (CountTo(a) \o more)[i] = CountTo(a + n)[i]
    <3>1. CASE i <= a
      <4>1. i \in 1 .. a
        BY <3>1
      <4> QED
        BY <2>2, <3>1, <4>1 DEF CountTo
    <3>2. CASE ~(i <= a)
      <4>1. i - a \in 1 .. n /\ a + (i - a) = i
        BY <3>2
      <4> QED
        BY <2>1, <2>2, <3>2, <4>1 DEF CountTo
    <3> QED
      BY <3>1, <3>2
  <2> QED
    BY <2>2, <2>3, <2>4, SeqEqual
<1> QED
  BY <1>1, <1>2, <1>4

RefinementIInv == LoanIInv /\ ValuesIInv

LEMMA OutCounts ==
  ASSUME RefinementIInv
  PROVE  /\ OutSize \in Nat /\ OutSize <= good /\ OutSize <= Len(delivered)
         /\ Len(delivered) \in Nat /\ good \in Nat
         /\ Out = CountTo(OutSize)
<1>0. TypeOK /\ NumbersIInv /\ ~bRecycle
  BY DEF RefinementIInv, LoanIInv, ValuesIInv, NumbersIInv
<1>1. Len(delivered) \in Nat /\ good \in Nat /\ base \in Int
  BY <1>0, Ranges DEF TypeOK
<1>2. OutSize \in Nat /\ OutSize <= good /\ OutSize <= Len(delivered)
  BY <1>1, SMT DEF OutSize, Least
<1>3. ASSUME NEW i \in 1 .. OutSize
      PROVE  delivered[i] - base = i
  <2>1. initialised
    <3>1. good > 0
      BY <1>1, <1>2
    <3> QED
      BY <1>0, <1>1, <3>1 DEF NumbersIInv, NoRunYet
  <2>2. delivered[i] = base + i
    BY <1>0, <2>1 DEF RefinementIInv, ValuesIInv, StreamUnbroken, OutSize
  <2> QED
    BY <1>1, <1>2, <2>2
<1>4. Out = CountTo(OutSize)
  BY <1>3 DEF Out, OutSize, CountTo
<1> QED
  BY <1>1, <1>2, <1>4

LEMMA InitStream == Init => Stream!StreamInit
<1> SUFFICES ASSUME Init PROVE Stream!StreamInit
  OBVIOUS
<1>1. good = 0 /\ closed /\ delivered = <<>>
  BY DEF Init
<1>2. Len(delivered) = 0
  BY <1>1, EmptySeq, Zenon
<1>3. OutSize = 0
  BY <1>1, <1>2 DEF OutSize, Least
<1>4. Out = <<>>
  <2>1. Out = CountTo(0)
    BY <1>3 DEF Out, OutSize, CountTo
  <2> QED
    BY <2>1, Counting
<1> QED
  BY <1>1, <1>4 DEF Stream!StreamInit, Out

LEMMA NextStream ==
  ASSUME Undisturbed, \A m \in Modes : ~m.recycle
  PROVE  RefinementIInv /\ RefinementIInv' /\ [Next]_vars => [Stream!StreamNext]_(Stream!streamVars)
<1> SUFFICES ASSUME RefinementIInv, RefinementIInv', [Next]_vars
             PROVE  Stream!StreamNext \/ UNCHANGED Stream!streamVars
  OBVIOUS
<1>0. /\ TypeOK /\ NumbersIInv /\ ~bRecycle /\ QueueNumbers
      /\ closed \in BOOLEAN /\ closed' \in BOOLEAN
  BY DEF RefinementIInv, LoanIInv, NumbersIInv, TypeOK
<1>1. /\ OutSize \in Nat /\ OutSize <= good /\ OutSize <= Len(delivered)
      /\ Len(delivered) \in Nat /\ good \in Nat
      /\ Out = CountTo(OutSize) /\ Len(Out) = OutSize
  BY OutCounts, Counting
<1>2. /\ OutSize' \in Nat /\ OutSize' <= good' /\ OutSize' <= Len(delivered')
      /\ Len(delivered') \in Nat /\ good' \in Nat
      /\ Out' = CountTo(OutSize')
  <2>1. (/\ OutSize \in Nat /\ OutSize <= good /\ OutSize <= Len(delivered)
         /\ Len(delivered) \in Nat /\ good \in Nat
         /\ Out = CountTo(OutSize))'
    BY OutCounts, PTL
  <2> QED
    BY <2>1 DEF CountTo
<1>3. MaxValues \in Nat \ {0}
  BY Geometry
<1>4. ASSUME good' = good, Out' = Out, closed => closed'
      PROVE  Stream!StreamNext \/ UNCHANGED Stream!streamVars
  <2>1. CASE closed' = closed
    BY <1>4, <2>1 DEF Stream!streamVars, Out
  <2>2. CASE closed' # closed
    <3>1. ~~closed'
      BY <1>0, <1>4, <2>2
    <3> QED
      BY <1>4, <3>1 DEF Stream!StreamNext, Stream!Close, Out
  <2> QED
    BY <2>1, <2>2
<1>5. CASE QuietStep
  BY <1>4, <1>5 DEF QuietStep, KeepRun, Out
<1>6. CASE ForgetStep \/ ClearStep
  <2>1. good' = 0
    BY <1>6 DEF ForgetStep, ForgetRun, ClearStep, ClearDaqBuffer
  <2>2. Out' = <<>>
    <3>1. OutSize' = 0
      BY <1>2, <2>1
    <3> QED
      BY <1>2, <3>1, Counting
  <2>3. (~closed)' \in BOOLEAN
    OBVIOUS
  <2> QED
    BY <2>1, <2>2, <2>3 DEF Stream!StreamNext, Stream!Begin, Out
<1>7. ASSUME NEW drain \in BOOLEAN, StoreStep(drain)
      PROVE  Stream!StreamNext \/ UNCHANGED Stream!streamVars
  <2> DEFINE k == Copied(Len(XferBuf(drain)))
  <2>1. UNCHANGED <<delivered, base, initialised>> /\ (closed => closed')
    BY <1>7 DEF StoreStep, KeepRun
  <2>2. k \in Nat /\ count' = count + k /\ count' <= MaxValues /\ good' \in {good, good + k}
        /\ (closed => good' = good)
    BY <1>0, <1>7, StoreNumbers
  <2>3. CASE good' = good
    BY <1>4, <2>1, <2>3 DEF Out
  <2>4. CASE good' # good
    <3>1. ~closed /\ initialised
      BY <1>0, <2>2, <2>4 DEF NumbersIInv, NoRunYet
    <3> HIDE DEF k
    <3>2. /\ Len(delivered) <= good /\ Unread = good - Len(delivered)
          /\ count \in Nat
      BY <1>0, <3>1, DeliveredWasStored, Ranges DEF NumbersIInv, RunNumbers
    <3>3. Unread <= count
      <4>1. \A a, b \in Nat : a < MaxValues /\ b < MaxValues => Distance(a, b) \in Nat
        BY <1>3, SMT DEF Distance
      <4>2. Distance(tail, Reader) \in Nat
        BY <1>0, <4>1, Ranges
      <4> QED
        BY <3>2, <4>2 DEF Unread
    <3>4. OutSize = Len(delivered) /\ OutSize' = Len(delivered)
      BY <1>1, <1>2, <2>1, <2>2, <2>4, <3>2, SMT DEF OutSize, Least
    <3>5. Out' = Out
      BY <1>1, <1>2, <3>4
    <3>6. k \in 1 .. MaxValues /\ good' = good + k /\ good' - Len(Out) <= MaxValues
      BY <1>1, <1>3, <2>2, <2>4, <3>2, <3>3, <3>4
    <3>7. (~closed)' \in BOOLEAN
      OBVIOUS
    <3>8. Stream!StoreSamples(k)
      BY <3>1, <3>5, <3>6, <3>7 DEF Stream!StoreSamples, Out
    <3> QED
      BY <3>6, <3>8 DEF Stream!StreamNext
  <2> QED
    BY <2>3, <2>4
<1>8. ASSUME NEW numScans \in 1 .. MaxScans, GetScans(numScans)
      PROVE  Stream!StreamNext \/ UNCHANGED Stream!streamVars
  <2> DEFINE n == OutSize' - OutSize
             v == ValidScans(numScans) * ScanSize
  <2>1. UNCHANGED <<good, closed, base, initialised>>
    BY <1>8 DEF GetScans
  <2>2. CASE delivered' = delivered
    BY <1>4, <2>1, <2>2 DEF Out
  <2>3. CASE delivered' # delivered
    <3>1. initialised
      <4>1. ~initialised => closed /\ good = 0 /\ Len(delivered) >= 0
        BY <1>0, <1>1 DEF NumbersIInv, NoRunYet
      <4>2. ~initialised => closed /\ Len(delivered) >= good
        BY <4>1
      <4> QED
        BY <1>8, <2>3, <4>2 DEF GetScans
    <3>2. Len(delivered') = Len(delivered) + v /\ v \in Nat
      BY <1>0, <1>8, <2>3, <3>1, Delivery
    <3>3. v <= MaxValues
      <4>1. scanIndex * ScanSize + v <= MaxValues /\ scanIndex * ScanSize \in Nat
        BY <1>0, ScansPlace
      <4> QED
        BY <1>3, <3>2, <4>1
    <3> HIDE DEF v
    <3>4. n \in 0 .. MaxValues /\ OutSize + n = OutSize'
      BY <1>1, <1>2, <1>3, <2>1, <3>2, <3>3, SMT DEF OutSize, Least
    <3>5. OutSize + n <= good
      BY <1>2, <2>1, <3>4
    <3> HIDE DEF n
    <3>6. Out' = Out \o [i \in 1 .. n |-> Len(Out) + i]
      <4>1. n \in Nat
        BY <1>3, <3>4
      <4>2. Out' = CountTo(OutSize + n)
        BY <1>2, <3>4
      <4>3. CountTo(OutSize + n) = CountTo(OutSize) \o [i \in 1 .. n |-> OutSize + i]
        BY <1>1, <4>1, Counting
      <4>4. CountTo(OutSize) = Out /\ OutSize = Len(Out)
        BY <1>1
      <4> QED
        BY <4>2, <4>3, <4>4
    <3>7. CASE n = 0
      <4>1. Out' = Out
        BY <1>1, <1>2, <3>4, <3>7
      <4> QED
        BY <1>4, <2>1, <4>1
    <3>8. CASE n # 0
      <4>1. PICK taken \in 1 .. MaxValues : taken = n
        BY <1>3, <3>4, <3>8
      <4>2. Stream!TakeSamples(taken)
        BY <1>1, <2>1, <3>5, <3>6, <4>1 DEF Stream!TakeSamples, Out
      <4>3. \E m \in 1 .. MaxValues : Stream!StoreSamples(m) \/ Stream!TakeSamples(m)
        BY <4>1, <4>2
      <4>4. Stream!StreamNext
        BY <4>3 DEF Stream!StreamNext
      <4> QED
        BY <4>4
    <3> QED
      BY <3>7, <3>8
  <2> QED
    BY <2>2, <2>3
<1> QED
  BY <1>0, <1>5, <1>6, <1>7, <1>8, Steps

\* In the single-run and wrapped modes, undisturbed, the driver, the board and
\* the application together are a bounded lossless stream: every step of theirs
\* begins a run, stores the next samples, takes the next samples, closes the run
\* or is none of the stream's.
THEOREM ImplementsStreamCorrect ==
  ASSUME Undisturbed, \A m \in Modes : ~m.recycle
  PROVE  Spec => ImplementsStream
<1>1. Init => RefinementIInv
  BY InitValues, InitLoan DEF RefinementIInv
<1>2. RefinementIInv /\ [Next]_vars => RefinementIInv'
  BY NextKeepsLoan, NextKeepsValues DEF RefinementIInv
<1>3. RefinementIInv /\ RefinementIInv' /\ [Next]_vars => [Stream!StreamNext]_(Stream!streamVars)
  BY NextStream
<1> QED
  BY <1>1, <1>2, <1>3, InitStream, PTL DEF Spec, ImplementsStream, Stream!StreamSpec

-----------------------------------------------------------------------------
(* The recycled buffer, for an application that keeps up: it never calls   *)
(* AInGetScans when the driver has moved the tail past its reader, in      *)
(* which case the call makes count go below zero.                          *)

KeepsUp ==
  initialised /\ bRecycle /\ (\E numScans \in 1 .. MaxScans : GetScans(numScans)) =>
    Distance(tail, Reader) <= count

\* Count is the number of values from tail to head.
RecycleQueue == initialised /\ bRecycle => count = Distance(tail, head)

RecycleIInv ==
  /\ TypeOK /\ NoRunYet /\ BoardFollowed
  /\ RecycleQueue
  /\ ~closed /\ bRecycle => FifoFollows
  /\ RecycleKeepsNewest

\* The tail moves to a frame boundary at most a frame past the head to come.
LEMMA RecycledTail ==
  ASSUME TypeOK, NEW n \in Nat, n <= MaxValues - FrameValues, Recycles(n)
  PROVE  \E d \in 1 .. FrameValues :
            RoomTail(n) = IF head + n + d < MaxValues THEN head + n + d ELSE head + n + d - MaxValues
<1> DEFINE h == head + n + FrameValues
           p == h % MaxValues
           r == p % FrameValues
<1>0. /\ head \in Nat /\ head < MaxValues /\ MaxValues \in Nat \ {0}
      /\ FrameValues \in Nat \ {0} /\ FrameValues <= MaxValues
  <2>1. 1 * FrameValues <= NumFrames * FrameValues
    BY Geometry, TimesMonotone
  <2> QED
    BY <2>1, Ranges, Geometry
<1>1. p = IF head + (n + FrameValues) < MaxValues THEN head + (n + FrameValues)
          ELSE head + (n + FrameValues) - MaxValues
  <2>1. n + FrameValues \in 0 .. MaxValues /\ head % MaxValues = head
    BY <1>0, ModSmall
  <2>2. (head + (n + FrameValues)) % MaxValues =
          IF (head % MaxValues) + (n + FrameValues) < MaxValues
          THEN (head % MaxValues) + (n + FrameValues)
          ELSE (head % MaxValues) + (n + FrameValues) - MaxValues
    BY <1>0, <2>1, GoOn
  <2>3. h = head + (n + FrameValues)
    BY <1>0
  <2> QED
    BY <2>1, <2>2, <2>3
<1>2. p \in Nat /\ p < MaxValues
  BY <1>0, <1>1
<1>3. p = (p \div FrameValues) * FrameValues + r /\ r \in 0 .. FrameValues - 1
  BY <1>0, <1>2, DivMod
<1>4. RoomTail(n) = (p \div FrameValues) * FrameValues
  BY DEF RoomTail, FrameOf
<1>5. PICK t \in Int : t = RoomTail(n) /\ t = p - r
  <2>1. p \div FrameValues \in Nat
    BY <1>0, <1>2, DivMod
  <2> QED
    BY <1>0, <1>3, <1>4, <2>1
<1>6. t >= 0
  <2>1. t \in FrameStarts
    BY <1>5, StoreInside
  <2> QED
    BY <2>1, FrameStartsInside DEF Positions
<1> DEFINE d == FrameValues - r
<1>7. d \in 1 .. FrameValues
  BY <1>0, <1>3
<1> HIDE DEF p, r
<1>8. t = IF head + n + d < MaxValues THEN head + n + d ELSE head + n + d - MaxValues
  BY <1>0, <1>1, <1>3, <1>5, <1>6
<1> QED
  BY <1>5, <1>7, <1>8

\* Storing in a recycled buffer that count describes: everything fetched is
\* stored, and count describes it again.
LEMMA RecycleStore ==
  ASSUME TypeOK, bRecycle, count = Distance(tail, head), NEW n \in Nat,
         n <= MaxValues - FrameValues
  PROVE  /\ Copied(n) = n
         /\ NewHead(n) = IF head + n < MaxValues THEN head + n ELSE head + n - MaxValues
         /\ NewCount(n) = Distance(RoomTail(n), NewHead(n))
         /\ NewCount(n) <= count + n
<1>0. /\ head \in Nat /\ head < MaxValues
      /\ tail \in Nat /\ tail < MaxValues
      /\ count \in Nat /\ count < MaxValues
      /\ MaxValues \in Nat \ {0} /\ Word \in Nat \ {0} /\ 2 * MaxValues < Word
      /\ FrameValues \in Nat \ {0}
  <2>1. /\ head \in Nat /\ head < MaxValues /\ tail \in Nat /\ tail < MaxValues
        /\ count \in Nat
    BY Ranges
  <2>2. count < MaxValues
    BY <2>1, Geometry DEF Distance
  <2> QED
    BY <2>1, <2>2, Geometry, TransferAssumption
<1>1. (count + n) % Word = count + n
  BY <1>0, ModSmall
<1>2. PICK t \in Nat :
        /\ t = RoomTail(n) /\ t < MaxValues
        /\ \/ t = tail /\ count + n < MaxValues /\ RoomCount(n) = count
           \/ \E d \in 1 .. FrameValues :
                /\ t = IF head + n + d < MaxValues THEN head + n + d ELSE head + n + d - MaxValues
                /\ count + n >= MaxValues
                /\ RoomCount(n) = MaxValues - n - d
  <2>1. CASE ~Recycles(n)
    BY <1>0, <1>1, <2>1 DEF Recycles, RoomTail, RoomCount
  <2>2. CASE Recycles(n)
    <3>1. PICK d \in 1 .. FrameValues :
            RoomTail(n) = IF head + n + d < MaxValues THEN head + n + d ELSE head + n + d - MaxValues
      BY <2>2, RecycledTail
    <3>2. RoomTail(n) \in Nat /\ RoomTail(n) < MaxValues
      <4>1. RoomTail(n) \in Positions
        BY StoreInside, FrameStartsInside
      <4> QED
        BY <1>0, <4>1 DEF Positions
    <3>3. count + n >= MaxValues
      BY <1>1, <2>2 DEF Recycles
    <3>4. count - Distance(tail, RoomTail(n)) = MaxValues - n - d
      BY <1>0, <3>1, <3>2, <3>3, SMT DEF Distance
    <3>5. MaxValues - n - d \in Nat /\ MaxValues - n - d < Word
      BY <1>0
    <3>6. RoomCount(n) = MaxValues - n - d
      BY <1>0, <2>2, <3>4, <3>5, ModSmall DEF RoomCount
    <3> QED
      BY <3>1, <3>2, <3>3, <3>6
  <2> QED
    BY <2>1, <2>2
<1>3. /\ ToEnd(n) = IF head >= t THEN Least(n, MaxValues - head) ELSE 0
      /\ ToEnd(n) \in Nat
      /\ head + ToEnd(n) <= MaxValues
      /\ n - ToEnd(n) \in Nat
  BY <1>0, <1>2, SMT DEF ToEnd, Least
<1>4. EndHead(n) = IF head + ToEnd(n) = MaxValues THEN 0 ELSE head + ToEnd(n)
  <2>1. head + ToEnd(n) \in Nat
    BY <1>0, <1>3
  <2> QED
    BY <1>0, <1>3, <2>1, ModSmall DEF EndHead
<1>5. ToTail(n) = IF EndHead(n) < t THEN Least(n - ToEnd(n), t - EndHead(n)) ELSE 0
  BY <1>2 DEF ToTail
<1>6. ToEnd(n) + ToTail(n) = n
  <2>1. CASE t = tail /\ count + n < MaxValues
    BY <1>0, <1>3, <1>4, <1>5, <2>1, SMT DEF Least, Distance
  <2>2. ASSUME NEW d \in 1 .. FrameValues,
               t = IF head + n + d < MaxValues THEN head + n + d ELSE head + n + d - MaxValues
        PROVE  ToEnd(n) + ToTail(n) = n
    BY <1>0, <1>3, <1>4, <1>5, <2>2, SMT DEF Least
  <2> QED
    BY <1>2, <2>1, <2>2
<1>7. NewHead(n) = IF head + n < MaxValues THEN head + n ELSE head + n - MaxValues
  <2>1. t < MaxValues /\ ToTail(n) = n - ToEnd(n) /\ NewHead(n) = EndHead(n) + ToTail(n)
    BY <1>2, <1>3, <1>6, <1>5, <1>4, <1>0, SMT DEF NewHead, Least
  <2>2. ToTail(n) > 0 => EndHead(n) + ToTail(n) <= t
    BY <1>0, <1>3, <1>4, <1>5, <2>1, SMT DEF Least
  <2> QED
    BY <1>0, <1>3, <1>4, <2>1, <2>2, SMT DEF Least
<1>8. NewCount(n) = (RoomCount(n) + n) % Word
  BY <1>6 DEF NewCount, Copied
<1>9. NewCount(n) = Distance(t, NewHead(n)) /\ NewCount(n) <= count + n
  <2>1. CASE t = tail /\ count + n < MaxValues /\ RoomCount(n) = count
    BY <1>0, <1>1, <1>7, <1>8, <2>1, SMT DEF Distance
  <2>2. ASSUME NEW d \in 1 .. FrameValues,
               t = IF head + n + d < MaxValues THEN head + n + d ELSE head + n + d - MaxValues,
               count + n >= MaxValues, RoomCount(n) = MaxValues - n - d
        PROVE  NewCount(n) = Distance(t, NewHead(n)) /\ NewCount(n) <= count + n
    <3>1. RoomCount(n) + n = MaxValues - d /\ MaxValues - d \in Nat /\ MaxValues - d < Word
      BY <1>0, <2>2
    <3>2. NewCount(n) = MaxValues - d
      BY <1>0, <1>8, <3>1, ModSmall
    <3> QED
      BY <1>0, <1>7, <2>2, <3>2, SMT DEF Distance
  <2> QED
    BY <1>2, <2>1, <2>2
<1> QED
  BY <1>2, <1>6, <1>7, <1>9 DEF Copied

\* The d-th position before position a.
LEMMA GoBack ==
  ASSUME NEW a \in Nat, a < MaxValues, NEW d \in 1 .. MaxValues
  PROVE  (a + MaxValues - d) % MaxValues = IF a >= d THEN a - d ELSE a + MaxValues - d
<1>0. MaxValues \in Nat \ {0}
  BY Geometry
<1>1. CASE a >= d
  <2>1. a - d \in Nat /\ a - d < MaxValues /\ MaxValues \in 0 .. MaxValues
    BY <1>0, <1>1
  <2>2. (a - d) % MaxValues = a - d
    BY <1>0, <2>1, ModSmall
  <2>3. ((a - d) + MaxValues) % MaxValues =
          IF ((a - d) % MaxValues) + MaxValues < MaxValues THEN ((a - d) % MaxValues) + MaxValues
          ELSE ((a - d) % MaxValues) + MaxValues - MaxValues
    BY <2>1, GoOn
  <2>4. (a - d) + MaxValues = a + MaxValues - d
    BY <1>0
  <2> QED
    BY <1>0, <1>1, <2>1, <2>2, <2>3, <2>4
<1>2. CASE ~(a >= d)
  <2>1. a + MaxValues - d \in Nat /\ a + MaxValues - d < MaxValues
    BY <1>0, <1>2
  <2> QED
    BY <1>0, <1>2, <2>1, ModSmall
<1> QED
  BY <1>1, <1>2

\* What one step fetches fits into the transfer buffer.
LEMMA TransferFits ==
  ASSUME TypeOK, BoardFollowed, NEW drain \in BOOLEAN
  PROVE  Len(XferBuf(drain)) \in Nat /\ Len(XferBuf(drain)) <= XferBufValues
<1>0. Len(fifo) \in Nat
  BY DEF TypeOK
<1>1. Polled(drain) = 0
  BY DEF BoardFollowed, Polled
<1>2. FetchedFromFifo(drain) \in Nat /\ FetchedFromFifo(drain) <= XferBufValues
  BY <1>0, TransferAssumption, SMT DEF FetchedFromFifo, Least
<1>3. FetchedWords(drain) \in Nat /\ FetchedWords(drain) <= XferBufValues
  BY <1>2, TransferAssumption, SMT DEF FetchedWords, Greatest
<1>4. Len(XferBuf(drain)) = FetchedWords(drain)
  BY <1>1, <1>3, FetchedAreWords
<1> QED
  BY <1>3, <1>4

LEMMA RecycleStoreKeeps ==
  ASSUME XferBufValues <= MaxValues - FrameValues,
         RecycleIInv, initialised, bRecycle, NEW drain \in BOOLEAN, StoreStep(drain)
  PROVE  /\ Copied(Len(XferBuf(drain))) = Len(XferBuf(drain))
         /\ RecycleQueue' /\ RecycleKeepsNewest'
<1> DEFINE n == Len(XferBuf(drain))
<1>0. /\ TypeOK /\ BoardFollowed
      /\ head \in Nat /\ head < MaxValues /\ tail \in Nat /\ tail < MaxValues
      /\ MaxValues \in Nat \ {0} /\ FrameValues \in Nat \ {0}
      /\ good \in Nat /\ base \in Int /\ count \in Nat
  BY Ranges, Geometry DEF RecycleIInv, TypeOK
<1>1. n \in Nat /\ n <= MaxValues - FrameValues
  <2>1. n \in Nat /\ n <= XferBufValues
    BY <1>0, TransferFits
  <2> QED
    BY <1>0, <2>1, TransferAssumption
<1>2. count = Distance(tail, head) /\ count < MaxValues
  <2>1. count = Distance(tail, head)
    BY DEF RecycleIInv, RecycleQueue
  <2> QED
    BY <1>0, <2>1 DEF Distance
<1>3. /\ count' = NewCount(n) /\ head' = NewHead(n) /\ tail' = RoomTail(n)
      /\ \A p \in Positions : buf'[p] = IF Distance(head, p) < Copied(n)
                                        THEN XferBuf(drain)[Distance(head, p) + 1] ELSE buf[p]
      /\ UNCHANGED <<initialised, bRecycle, base>>
      /\ ~closed' => ~closed /\ good' = good + Copied(n)
      /\ phase = "process" /\ (drain => status.fhf)
  BY DEF StoreStep, Store, KeepRun
<1>4. ~closed =>
        /\ \A i \in 1 .. n : XferBuf(drain)[i] = fifo[i] /\ i \in 1 .. Len(fifo)
        /\ \A i \in 1 .. Len(fifo) : fifo[i] = base + good + i
  <2>1. ASSUME ~closed
        PROVE  n \in 0 .. Len(fifo) /\ \A i \in 1 .. n : XferBuf(drain)[i] = fifo[i]
    BY <1>0, <1>3, <2>1, FetchIsWhole
  <2>2. Len(fifo) \in Nat
    BY <1>0 DEF TypeOK
  <2>3. ~closed => FifoFollows
    BY DEF RecycleIInv
  <2> HIDE DEF n
  <2> QED
    BY <1>1, <2>1, <2>2, <2>3 DEF FifoFollows
<1> HIDE DEF n
<1>5. /\ Copied(n) = n
      /\ NewHead(n) = IF head + n < MaxValues THEN head + n ELSE head + n - MaxValues
      /\ NewCount(n) = Distance(RoomTail(n), NewHead(n))
      /\ NewCount(n) <= count + n
  BY <1>0, <1>1, <1>2, RecycleStore
<1>6. RecycleQueue'
  BY <1>3, <1>5 DEF RecycleQueue, Distance
<1>7. ASSUME ~closed', NEW d \in 1 .. Distance(tail', head')
      PROVE  buf'[(head' + MaxValues - d) % MaxValues] = base + good' + 1 - d
  <2>1. head' \in Nat /\ head' < MaxValues /\ tail' \in Nat /\ tail' < MaxValues
    <3>1. head' \in Positions /\ tail' \in Positions
      BY <1>0, <1>1, <1>3, StoreInside, FrameStartsInside
    <3> QED
      BY <1>0, <3>1 DEF Positions
  <2>2. Distance(tail', head') \in Nat /\ Distance(tail', head') < MaxValues
    <3>1. \A a, b \in Nat : a < MaxValues /\ b < MaxValues =>
            Distance(a, b) \in Nat /\ Distance(a, b) < MaxValues
      BY <1>0, SMT DEF Distance
    <3> QED
      BY <2>1, <3>1
  <2>3. d \in 1 .. MaxValues /\ d < MaxValues /\ d <= count + n
    <3>1. Distance(tail', head') <= count + n
      BY <1>3, <1>5
    <3> QED
      BY <1>0, <1>1, <2>2, <3>1
  <2> DEFINE q == (head' + MaxValues - d) % MaxValues
  <2>4. q = IF head' >= d THEN head' - d ELSE head' + MaxValues - d
    BY <2>1, <2>3, GoBack
  <2> HIDE DEF q
  <2>5. q \in Positions
    <3>1. \A h \in Nat : h < MaxValues =>
            (IF h >= d THEN h - d ELSE h + MaxValues - d) \in Positions
      BY <1>0, <2>3 DEF Positions
    <3> QED
      BY <2>1, <2>4, <3>1
  <2>6. CASE d <= n
    <3>1. Distance(head, q) = n - d
      BY <1>0, <1>1, <1>3, <1>5, <2>1, <2>3, <2>4, <2>6, SMT DEF Distance
    <3>2. n - d < n /\ n - d + 1 \in 1 .. n
      BY <1>1, <2>3, <2>6
    <3>3. buf'[q] = XferBuf(drain)[n - d + 1]
      BY <1>3, <1>5, <2>5, <3>1, <3>2
    <3>4. buf'[q] = base + good + (n - d + 1)
      BY <1>3, <1>4, <1>7, <3>2, <3>3
    <3> QED
      BY <1>0, <1>1, <1>3, <1>5, <1>7, <2>3, <3>4 DEF q
  <2>7. CASE ~(d <= n)
    <3> DEFINE e == d - n
    <3>1. e \in 1 .. MaxValues /\ e <= count
      BY <1>0, <1>1, <2>3, <2>7
    <3>2. (head + MaxValues - e) % MaxValues = IF head >= e THEN head - e ELSE head + MaxValues - e
      BY <1>0, <3>1, GoBack
    <3>3. q = (head + MaxValues - e) % MaxValues
      BY <1>0, <1>1, <1>3, <1>5, <2>1, <2>3, <2>4, <2>7, <3>1, <3>2
    <3>4. Distance(head, q) >= n /\ Distance(head, q) \in Int
      BY <1>0, <1>1, <2>3, <2>7, <3>2, <3>3, SMT DEF Distance
    <3>5. buf'[q] = buf[q]
      <4>1. ~(Distance(head, q) < n)
        BY <1>1, <3>4
      <4> QED
        BY <1>3, <1>5, <2>5, <4>1
    <3>6. e \in 1 .. Distance(tail, head)
      BY <1>0, <1>2, <3>1
    <3> HIDE DEF e
    <3>7. buf[q] = base + good + 1 - e
      BY <1>3, <1>7, <3>3, <3>6 DEF RecycleIInv, RecycleKeepsNewest
    <3> QED
      BY <1>0, <1>1, <1>3, <1>5, <1>7, <2>3, <3>5, <3>7 DEF q, e
  <2> QED
    BY <2>6, <2>7, <1>1, <2>3
<1>8. RecycleKeepsNewest'
  BY <1>3, <1>7 DEF RecycleKeepsNewest, Distance
<1> QED
  BY <1>5, <1>6, <1>8 DEF n

LEMMA RecycleGetScansKeeps ==
  ASSUME RecycleIInv, KeepsUp, initialised, bRecycle,
         NEW numScans \in 1 .. MaxScans, GetScans(numScans)
  PROVE  RecycleQueue' /\ RecycleKeepsNewest'
<1>0. /\ TypeOK
      /\ head \in Nat /\ head < MaxValues /\ tail \in Nat /\ tail < MaxValues
      /\ MaxValues \in Nat \ {0} /\ count \in Nat
  BY Ranges, Geometry DEF RecycleIInv
<1>1. count = Distance(tail, head) /\ count < MaxValues
  <2>1. count = Distance(tail, head)
    BY DEF RecycleIInv, RecycleQueue
  <2> QED
    BY <1>0, <2>1 DEF Distance
<1>2. QueueNumbers
  BY <1>1 DEF KeepsUp, QueueNumbers
<1>3. QueueNumbers' /\ count' = count - Released
  BY <1>0, <1>2, GetScansTakes
<1>4. UNCHANGED <<head, buf, initialised, bRecycle, closed, base, good>> /\ tail' = ReleasedTo
  BY DEF GetScans
<1>5. Released \in Nat
  <2>1. scanIndex * ScanSize \in Nat
    BY <1>0, Ranges DEF Reader
  <2>2. ReleasedTo \in Nat
    <3>1. ReleasedTo \in Positions
      BY <1>0, ReleasedToFrame, FrameStartsInside
    <3> QED
      BY <3>1 DEF Positions
  <2> QED
    BY <1>0, <2>1, <2>2, ReleasePlace, SMT
<1>6. count' <= count /\ count' < MaxValues
  <2>1. count' = count - Released
    BY <1>3
  <2> QED
    BY <1>0, <1>1, <1>5, <2>1
<1>7. count' = Distance(tail', head')
  BY <1>3, <1>6, <1>0 DEF QueueNumbers, Distance
<1>8. RecycleQueue'
  BY <1>7 DEF RecycleQueue, Distance
<1>9. ASSUME ~closed', NEW d \in 1 .. Distance(tail', head')
      PROVE  buf'[(head' + MaxValues - d) % MaxValues] = base' + good' + 1 - d
  <2>1. d \in 1 .. Distance(tail, head)
    BY <1>0, <1>1, <1>6, <1>7
  <2> QED
    BY <1>4, <1>9, <2>1 DEF RecycleIInv, RecycleKeepsNewest
<1> QED
  BY <1>8, <1>9 DEF RecycleKeepsNewest, Distance

LEMMA NextKeepsNewest ==
  ASSUME Undisturbed, XferBufValues <= MaxValues - FrameValues
  PROVE  RecycleIInv /\ KeepsUp /\ [Next]_vars => RecycleIInv'
<1> SUFFICES ASSUME RecycleIInv, KeepsUp, [Next]_vars PROVE RecycleIInv'
  OBVIOUS
<1>0. TypeOK /\ NoRunYet /\ BoardFollowed
  BY DEF RecycleIInv
<1>1. TypeOK' /\ BoardFollowed'
  BY <1>0, NextTypeOK, NextKeepsBoard
<1>2. NoRunYet'
  <2>1. CASE QuietStep \/ ForgetStep \/ ClearStep
    BY <1>0, <2>1 DEF QuietStep, ForgetStep, ForgetRun, ClearStep, ClearDaqBuffer, KeepRun, NoRunYet
  <2>2. ASSUME NEW numScans \in 1 .. MaxScans, GetScans(numScans)
        PROVE  NoRunYet'
    <3>1. UNCHANGED <<initialised, closed, good>>
      BY <2>2 DEF GetScans
    <3>2. ~initialised => delivered' = delivered
      <4>1. good = 0 /\ delivered = <<>> => Len(delivered) >= good
        BY EmptySeq
      <4> QED
        BY <1>0, <2>2, <4>1 DEF GetScans, NoRunYet
    <3> QED
      BY <1>0, <3>1, <3>2 DEF NoRunYet
  <2>3. ASSUME NEW drain \in BOOLEAN, StoreStep(drain)
        PROVE  NoRunYet'
    BY <1>0, <2>3 DEF StoreStep, KeepRun, NoRunYet
  <2> QED
    BY <1>0, <2>1, <2>2, <2>3, Steps
<1>3. RecycleQueue' /\ RecycleKeepsNewest'
  <2>1. CASE QuietStep
    BY <2>1 DEF QuietStep, KeepRun, RecycleIInv, RecycleQueue, RecycleKeepsNewest, Distance
  <2>2. CASE ForgetStep
    BY <2>2 DEF ForgetStep, ForgetRun, RecycleQueue, RecycleKeepsNewest
  <2>3. CASE ClearStep
    <3>1. count' = 0 /\ head' = 0 /\ tail' = 0 /\ Distance(0, 0) = 0
      BY <2>3 DEF ClearStep, ClearDaqBuffer, Distance
    <3>2. 1 .. 0 = {}
      OBVIOUS
    <3> QED
      BY <3>1, <3>2 DEF RecycleQueue, RecycleKeepsNewest, Distance
  <2>4. ASSUME NEW numScans \in 1 .. MaxScans, GetScans(numScans)
        PROVE  RecycleQueue' /\ RecycleKeepsNewest'
    <3>1. CASE initialised /\ bRecycle
      BY <2>4, <3>1, RecycleGetScansKeeps
    <3>2. CASE ~(initialised /\ bRecycle)
      BY <2>4, <3>2 DEF GetScans, RecycleQueue, RecycleKeepsNewest
    <3> QED
      BY <3>1, <3>2
  <2>5. ASSUME NEW drain \in BOOLEAN, StoreStep(drain)
        PROVE  RecycleQueue' /\ RecycleKeepsNewest'
    <3>1. CASE initialised /\ bRecycle
      BY <2>5, <3>1, RecycleStoreKeeps
    <3>2. CASE ~(initialised /\ bRecycle)
      BY <2>5, <3>2 DEF StoreStep, KeepRun, RecycleQueue, RecycleKeepsNewest
    <3> QED
      BY <3>1, <3>2
  <2> QED
    BY <1>0, <2>1, <2>2, <2>3, <2>4, <2>5, Steps
<1>4. ASSUME ~closed', bRecycle'
      PROVE  FifoFollows'
  <2>1. ~closed => bRecycle
    BY <1>0, <1>4, Steps DEF QuietStep, ForgetStep, ForgetRun, ClearStep, GetScans, StoreStep, KeepRun
  <2>2. ASSUME NEW drain \in BOOLEAN, StoreStep(drain)
        PROVE  Copied(Len(XferBuf(drain))) = Len(XferBuf(drain))
    <3>1. ~closed /\ bRecycle
      BY <1>4, <2>1, <2>2 DEF StoreStep
    <3>2. initialised
      BY <1>0, <3>1 DEF NoRunYet
    <3> QED
      BY <2>2, <3>1, <3>2, RecycleStoreKeeps
  <2>3. ~closed => FifoFollows
    BY <2>1 DEF RecycleIInv
  <2> QED
    BY <1>0, <1>4, <2>2, <2>3, FifoKept
<1> QED
  BY <1>1, <1>2, <1>3, <1>4 DEF RecycleIInv

\* In the recycled modes: as long as the application keeps up with the driver,
\* and a transfer leaves room for a frame, the values from tail to head are the
\* newest samples of the run, in order.  (Without KeepsUp they are not: the
\* driver then drops samples it has fetched.)
THEOREM RecycleCorrect ==
  ASSUME Undisturbed, XferBufValues <= MaxValues - FrameValues
  PROVE  Spec /\ [][KeepsUp]_vars => []RecycleKeepsNewest
<1>1. Init => RecycleIInv
  <2> SUFFICES ASSUME Init PROVE RecycleIInv
    OBVIOUS
  <2>1. TypeOK
    BY InitTypeOK
  <2> QED
    BY <2>1 DEF Init, NoRunYet, BoardFollowed, NoStatus, RecycleQueue, RecycleKeepsNewest, RecycleIInv
<1>2. RecycleIInv /\ [Next]_vars /\ [KeepsUp]_vars => RecycleIInv'
  <2>1. RecycleIInv /\ [Next]_vars /\ KeepsUp => RecycleIInv'
    BY NextKeepsNewest
  <2>2. RecycleIInv /\ UNCHANGED vars => RecycleIInv'
    <3> SUFFICES ASSUME RecycleIInv, UNCHANGED vars PROVE RecycleIInv'
      OBVIOUS
    <3>1. TypeOK'
      BY NextTypeOK DEF RecycleIInv
    <3> QED
      BY <3>1 DEF RecycleIInv, vars, bufInfo, board, history, NoRunYet, BoardFollowed, FifoFollows,
                  RecycleQueue, RecycleKeepsNewest, Distance
  <2> QED
    BY <2>1, <2>2
<1>3. RecycleIInv => RecycleKeepsNewest
  BY DEF RecycleIInv
<1> QED
  BY <1>1, <1>2, <1>3, PTL DEF Spec
=============================================================================
