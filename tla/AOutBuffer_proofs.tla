------------------------- MODULE AOutBuffer_proofs -------------------------
(***************************************************************************)
(* Theorems about buffered analog output, for every buffer geometry, FIFO  *)
(* and transfer size, set of layouts and buffer modes, and number of       *)
(* faults: the indices stay inside the buffer, completed frames are        *)
(* announced, and the driver's record agrees with the board.               *)
(***************************************************************************)
EXTENDS AOutRing, Arithmetic, SequenceTheorems, TLAPS

-----------------------------------------------------------------------------
(* The geometry of the buffer.                                             *)

LEMMA Geometry ==
  /\ ScanSize \in Nat \ {0} /\ FrameSize \in Nat \ {0} /\ NumFrames \in Nat \ {0}
  /\ FrameValues \in Nat \ {0}
  /\ MaxValues \in Nat \ {0}
  /\ MaxScans \in Nat \ {0}
  /\ FrameValues = FrameSize * ScanSize
  /\ MaxValues = NumFrames * FrameValues
  /\ MaxValues = MaxScans * ScanSize
<1>1. FrameValues \in Nat \ {0}
  BY AOutGeometryAssumption, SMT DEF FrameValues
<1>2. MaxScans \in Nat \ {0}
  BY AOutGeometryAssumption, SMT DEF MaxScans
<1>3. MaxValues \in Nat \ {0} /\ MaxValues = NumFrames * FrameValues
  BY <1>1, AOutGeometryAssumption, SMT DEF MaxValues
<1>4. MaxValues = MaxScans * ScanSize
  BY AOutGeometryAssumption, SMT DEF MaxValues, MaxScans, FrameValues
<1> QED
  BY <1>1, <1>2, <1>3, <1>4, AOutGeometryAssumption DEF FrameValues

\* The first positions of the frames.
FrameStarts == {f * FrameValues : f \in 0 .. NumFrames - 1}

LEMMA FrameInside ==
  ASSUME NEW f \in 0 .. NumFrames - 1
  PROVE  f * FrameValues \in FrameStarts /\ f * FrameValues \in Positions
<1>1. f * FrameValues <= (NumFrames - 1) * FrameValues
  BY Geometry, TimesMonotone
<1>2. (NumFrames - 1) * FrameValues = MaxValues - FrameValues
  BY Geometry, SMT
<1>3. f * FrameValues \in Nat
  BY Geometry, SMT
<1> QED
  BY <1>1, <1>2, <1>3, Geometry, SMT DEF FrameStarts, Positions

\* The frame of a scan of the buffer, and the scan of a position.
LEMMA FrameOfScan ==
  ASSUME NEW s \in 0 .. MaxScans - 1
  PROVE  s \div FrameSize \in 0 .. NumFrames - 1
<1>1. s \in Nat /\ s < NumFrames * FrameSize
  BY Geometry, SMT DEF MaxScans
<1>2. s \div FrameSize \in Nat /\ s \div FrameSize < NumFrames
  BY <1>1, Geometry, DivMod, DivBelow
<1> QED
  BY <1>2, Geometry

LEMMA ScanOfPosition ==
  ASSUME NEW p \in Positions
  PROVE  p \div ScanSize \in 0 .. MaxScans - 1
<1>1. p \in Nat /\ p < MaxScans * ScanSize
  BY Geometry DEF Positions
<1>2. p \div ScanSize \in Nat /\ p \div ScanSize < MaxScans
  BY <1>1, Geometry, DivMod, DivBelow
<1> QED
  BY <1>2, Geometry

\* What the variables that hold numbers are.
LEMMA Numbers ==
  ASSUME TypeOK
  PROVE  /\ head \in Nat /\ head < MaxValues
         /\ tail \in Nat /\ tail < MaxValues
         /\ count \in Nat /\ count < Word
         /\ scanIndex \in Nat /\ scanIndex < MaxScans
         /\ Word \in Nat \ {0} /\ MaxValues < Word
         /\ fifo \in Seq(Values) /\ Len(fifo) \in Nat
<1>1. fifo \in Seq(Values) /\ Len(fifo) \in Nat
  BY DEF TypeOK
<1> QED
  BY <1>1, AOutTransferAssumption, Geometry, SMT DEF TypeOK, Positions

-----------------------------------------------------------------------------
(* pd_aout_put_xbuf.                                                       *)

\* The inductive invariant: the types, and a FIFO that is not overfull, by
\* which the number of words the board allows is never negative.
TypeIInv == TypeOK /\ Len(fifo) <= FifoSize

LEMMA AdjType == Adj \in {1, 2} /\ (layout = "pairs" => Adj = 2) /\ (layout # "pairs" => Adj = 1)
BY DEF Adj

\* The sizes of a block and of its two pieces.
LEMMA BlockSizes ==
  ASSUME TypeIInv, NEW n \in Nat
  PROVE  /\ AvlSamples \in 0 .. MaxValues
         /\ NumToCopy(n) \in 0 .. AvlSamples
         /\ SamplesA(n) \in 0 .. NumToCopy(n)
         /\ head + SamplesA(n) <= MaxValues
         /\ SamplesB(n) \in 0 .. NumToCopy(n)
         /\ SamplesA(n) + SamplesB(n) = NumToCopy(n)
         /\ SamplesB(n) > 0 => head + SamplesA(n) = MaxValues
         /\ XFerSize(n) \in Nat
         /\ XFerSize(n) * Adj <= NumToCopy(n)
         /\ Taken(n) \in 0 .. XFerSize(n)
         /\ Taken(n) <= FifoRoom
<1>0. TypeOK /\ Len(fifo) <= FifoSize
  BY DEF TypeIInv
<1>1. AvlSamples \in 0 .. MaxValues
  BY <1>0, Numbers, Geometry, SMT DEF AvlSamples
<1>2. NumToCopy(n) \in 0 .. AvlSamples
  <2>1. Least(n, TranSize) \in Nat
    BY AOutTransferAssumption, SMT DEF Least
  <2>2. Adj * Least(n, TranSize) \in Nat
    BY <2>1, AdjType, SMT
  <2> QED
    BY <1>1, <2>2, SMT DEF NumToCopy, Least
<1>3. /\ SamplesA(n) \in 0 .. NumToCopy(n)
      /\ head + SamplesA(n) <= MaxValues
      /\ SamplesB(n) \in 0 .. NumToCopy(n)
      /\ SamplesA(n) + SamplesB(n) = NumToCopy(n)
      /\ SamplesB(n) > 0 => head + SamplesA(n) = MaxValues
  <2>1. NumToCopy(n) \in Nat
    BY <1>1, <1>2, SMT
  <2>2. SamplesA(n) = IF NumToCopy(n) < MaxValues - head THEN NumToCopy(n) ELSE MaxValues - head
    BY DEF SamplesA, Least
  <2>3. SamplesB(n) = NumToCopy(n) - SamplesA(n)
    BY DEF SamplesB
  <2>4. head \in Nat /\ head < MaxValues
    BY <1>0, Numbers
  <2> QED
    BY <2>1, <2>2, <2>3, <2>4, Geometry, SMT
<1>4. XFerSize(n) \in Nat /\ XFerSize(n) * Adj <= NumToCopy(n)
  <2>1. NumToCopy(n) \in Nat /\ Adj \in Nat \ {0}
    BY <1>1, <1>2, AdjType, SMT
  <2> QED
    BY <2>1, DivMod DEF XFerSize
<1>5. Taken(n) \in 0 .. XFerSize(n) /\ Taken(n) <= FifoRoom
  <2>1. FifoRoom \in Nat
    BY <1>0, Numbers, AOutTransferAssumption, SMT DEF FifoRoom
  <2> QED
    BY <1>4, <2>1, SMT DEF Taken, Least
<1> QED
  BY <1>1, <1>2, <1>3, <1>4, <1>5

\* A word that is copied is a position of the buffer, or nothing was copied to it.
LEMMA WordInside ==
  ASSUME TypeIInv, NEW n \in Nat, NEW i \in 1 .. XFerSize(n)
  PROVE  XFerWord(n, i) \in Values
<1>0. /\ head \in Nat /\ head < MaxValues /\ MaxValues \in Nat
      /\ NumToCopy(n) \in Nat /\ NumToCopy(n) <= MaxValues
      /\ SamplesA(n) \in Nat /\ SamplesA(n) <= NumToCopy(n)
      /\ SamplesB(n) \in Nat /\ SamplesA(n) + SamplesB(n) = NumToCopy(n)
      /\ head + SamplesA(n) <= MaxValues
      /\ SamplesB(n) > 0 => head + SamplesA(n) = MaxValues
      /\ XFerSize(n) \in Nat /\ XFerSize(n) * Adj <= NumToCopy(n)
  <2>1. head \in Nat /\ head < MaxValues /\ MaxValues \in Nat
    BY Numbers, Geometry DEF TypeIInv
  <2>2. /\ AvlSamples \in 0 .. MaxValues
        /\ NumToCopy(n) \in 0 .. AvlSamples
        /\ SamplesA(n) \in 0 .. NumToCopy(n)
        /\ SamplesB(n) \in 0 .. NumToCopy(n)
    BY BlockSizes
  <2>3. /\ SamplesA(n) + SamplesB(n) = NumToCopy(n)
        /\ head + SamplesA(n) <= MaxValues
        /\ SamplesB(n) > 0 => head + SamplesA(n) = MaxValues
        /\ XFerSize(n) \in Nat /\ XFerSize(n) * Adj <= NumToCopy(n)
    BY BlockSizes
  <2>4. /\ NumToCopy(n) \in Nat /\ NumToCopy(n) <= MaxValues
        /\ SamplesA(n) \in Nat /\ SamplesA(n) <= NumToCopy(n) /\ SamplesB(n) \in Nat
    BY <2>1, <2>2, SMT
  <2> QED
    BY <2>1, <2>3, <2>4
<1>1. ASSUME NEW j \in 1 .. NumToCopy(n)
      PROVE  InTurn(n, j) \in Positions
  BY <1>0, SMT DEF InTurn, Positions
<1>2. Positions \subseteq Values /\ NoValue \in Values
  BY DEF Values
<1>3. CASE layout = "direct"
  <2>1. i \in 1 .. NumToCopy(n)
    BY <1>0, <1>3, AdjType, SMT
  <2> QED
    BY <1>1, <1>2, <1>3, <2>1 DEF XFerWord
<1>4. CASE layout = "pairs"
  <2>1. 2 * i - 1 \in 1 .. NumToCopy(n)
    BY <1>0, <1>4, AdjType, SMT
  <2> QED
    BY <1>1, <1>2, <1>4, <2>1 DEF XFerWord
<1>5. CASE layout = "fixed"
  <2>1. i <= SamplesB(n) => i - 1 \in Positions
    BY <1>0, SMT DEF Positions
  <2>2. i <= SamplesA(n) => head + i - 1 \in Positions
    BY <1>0, SMT DEF Positions
  <2> QED
    BY <1>2, <1>5, <2>1, <2>2 DEF XFerWord
<1>6. CASE layout \notin {"direct", "pairs", "fixed"}
  <2>1. i <= NumToCopy(n)
    BY <1>0, <1>6, AdjType, SMT
  <2>2. i <= SamplesA(n) => head + i - 1 \in Positions
    BY <1>0, SMT DEF Positions
  <2>3. i = SamplesA(n) + 1 => SamplesB(n) - 1 \in Positions
    BY <1>0, <2>1, SMT DEF Positions
  <2> QED
    BY <1>2, <1>6, <2>2, <2>3 DEF XFerWord
<1> QED
  BY <1>3, <1>4, <1>5, <1>6

\* A sequence of words nobody tells apart.
LEMMA OldWords ==
  ASSUME NEW k \in Nat
  PROVE  NoLongerToldApart(k) \in Seq(Values) /\ Len(NoLongerToldApart(k)) = k
<1>1. Old \in Values
  BY DEF Values
<1>2. [i \in 1 .. k |-> Old] \in Seq(Values)
  BY <1>1, IsASeq
<1> QED
  BY <1>2, LenProperties DEF NoLongerToldApart

\* What the words that arrive do to the FIFO.
LEMMA PutFifo ==
  ASSUME TypeIInv, NEW n \in Nat, NEW words \in Nat, NEW arrive \in 0 .. XFerSize(n),
         arrive <= FifoRoom, PutWords(n, words, arrive)
  PROVE  fifo' \in Seq(Values) /\ Len(fifo') = Len(fifo) + arrive /\ Len(fifo') <= FifoSize
<1>0. /\ fifo \in Seq(Values) /\ Len(fifo) \in Nat /\ arrive \in Nat
      /\ Len(fifo) + arrive <= FifoSize
  BY BlockSizes, Numbers, AOutTransferAssumption, SMT DEF TypeIInv, FifoRoom
<1>1. CASE arrive = words
  <2> DEFINE new == [i \in 1 .. arrive |-> XFerWord(n, i)]
  <2>1. \A i \in 1 .. arrive : XFerWord(n, i) \in Values
    <3>1. 1 .. arrive \subseteq 1 .. XFerSize(n)
      BY BlockSizes, SMT
    <3> QED
      BY <3>1, WordInside
  <2>2. new \in Seq(Values)
    BY <1>0, <2>1, IsASeq
  <2>3. Len(new) = arrive
    BY <1>0, <2>2, LenProperties
  <2>4. fifo \o new \in Seq(Values) /\ Len(fifo \o new) = Len(fifo) + Len(new)
    BY <1>0, <2>2, ConcatProperties
  <2> QED
    BY <1>0, <1>1, <2>3, <2>4 DEF PutWords
<1>2. CASE arrive # words
  <2>1. Len(fifo) + arrive \in Nat
    BY <1>0
  <2> QED
    BY <1>0, <1>2, <2>1, OldWords DEF PutWords
<1> QED
  BY <1>1, <1>2

\* Where the head comes to be after at most a whole block.
LEMMA HeadPlace ==
  ASSUME TypeIInv, NEW n \in Nat, NEW words \in 0 .. XFerSize(n)
  PROVE  /\ words * Adj \in 0 .. NumToCopy(n)
         /\ HeadAfter(words) \in Positions
         /\ \/ HeadAfter(words) = head + words * Adj
            \/ HeadAfter(words) = head + words * Adj - MaxValues /\ head + words * Adj >= MaxValues
<1>1. /\ XFerSize(n) * Adj <= NumToCopy(n)
      /\ NumToCopy(n) \in Nat /\ NumToCopy(n) <= MaxValues
  BY BlockSizes, Geometry, SMT
<1>2. words * Adj \in Nat /\ words * Adj <= NumToCopy(n)
  BY <1>1, AdjType, BlockSizes, SMT
<1>3. HeadAfter(words) = IF head + words * Adj >= MaxValues THEN head + words * Adj - MaxValues
                         ELSE head + words * Adj
  BY DEF HeadAfter
<1>4. head \in Nat /\ head < MaxValues
  BY Numbers DEF TypeIInv
<1> DEFINE d == words * Adj
<1>5. d \in Nat /\ d <= MaxValues
  BY <1>1, <1>2, Geometry, SMT
<1>6. HeadAfter(words) = IF head + d >= MaxValues THEN head + d - MaxValues ELSE head + d
  BY <1>3
<1> HIDE DEF d
<1>7. /\ HeadAfter(words) \in Positions
      /\ \/ HeadAfter(words) = head + d
         \/ HeadAfter(words) = head + d - MaxValues /\ head + d >= MaxValues
  BY <1>4, <1>5, <1>6, Geometry, SMT DEF Positions
<1> QED
  BY <1>1, <1>2, <1>7, SMT DEF d

\* One outcome of a put covers them all.
LEMMA PutCases ==
  ASSUME TypeIInv, NEW n \in Nat, NEW ok \in BOOLEAN, PutXBuf(n, ok)
  PROVE  \E words \in 0 .. XFerSize(n), arrive \in 0 .. XFerSize(n) :
           /\ arrive <= FifoRoom /\ PutWords(n, words, arrive)
           /\ ok => words = Taken(n) /\ arrive = Taken(n)
<1>0. /\ XFerSize(n) \in Nat /\ Taken(n) \in 0 .. XFerSize(n) /\ Taken(n) <= FifoRoom
      /\ 0 \in 0 .. XFerSize(n) /\ XFerSize(n) \in 0 .. XFerSize(n) /\ 0 <= FifoRoom
  <2>1. XFerSize(n) \in Nat /\ Taken(n) \in 0 .. XFerSize(n) /\ Taken(n) <= FifoRoom
    BY BlockSizes
  <2>2. FifoRoom \in Int
    BY Numbers, AOutTransferAssumption, SMT DEF TypeIInv, FifoRoom
  <2> QED
    BY <2>1, <2>2, SMT
<1>1. CASE ok
  BY <1>0, <1>1 DEF PutXBuf
<1>2. CASE ~ok
  <2>1. PICK words \in {Taken(n), XFerSize(n)}, arrive \in {0, Taken(n)} : PutWords(n, words, arrive)
    BY <1>2 DEF PutXBuf
  <2> QED
    BY <1>0, <1>2, <2>1
<1> QED
  BY <1>1, <1>2

\* A put keeps the types of everything it changes.
LEMMA PutTypes ==
  ASSUME TypeIInv, NEW n \in Nat, NEW ok \in BOOLEAN, PutXBuf(n, ok)
  PROVE  /\ fifo' \in Seq(Values) /\ Len(fifo') <= FifoSize
         /\ head' \in Positions /\ tail' \in Positions
         /\ count' \in 0 .. Word - 1
         /\ fresh' \subseteq Positions
<1>1. PICK words \in 0 .. XFerSize(n), arrive \in 0 .. XFerSize(n) :
        arrive <= FifoRoom /\ PutWords(n, words, arrive)
  BY PutCases
<1>2. words \in Nat /\ words * Adj \in Nat
  BY BlockSizes, AdjType, SMT
<1>3. fifo' \in Seq(Values) /\ Len(fifo') <= FifoSize
  BY <1>1, <1>2, PutFifo
<1>4. head' \in Positions /\ tail' \in Positions
  BY <1>1, HeadPlace DEF PutWords, TypeIInv, TypeOK
<1>5. count' \in 0 .. Word - 1
  <2>1. count + words * Adj \in Int
    BY <1>2, Numbers DEF TypeIInv
  <2> QED
    BY <1>1, <2>1, Numbers, ModRange DEF PutWords, TypeIInv
<1>6. fresh' \subseteq Positions
  BY <1>1 DEF PutWords, TypeIInv, TypeOK
<1> QED
  BY <1>3, <1>4, <1>5, <1>6

-----------------------------------------------------------------------------
(* AOutGetScans.                                                           *)

\* The scans offered lie between the reader and the end of the buffer.
LEMMA ScansInside ==
  ASSUME TypeOK, NEW numScans \in Nat
  PROVE  /\ ValidScans(numScans) \in 0 .. MaxScans
         /\ scanIndex + ValidScans(numScans) <= MaxScans
<1>1. HeadScan \in 0 .. MaxScans - 1
  BY ScanOfPosition DEF TypeOK, HeadScan
<1>2. scanIndex \in 0 .. MaxScans - 1
  BY DEF TypeOK
<1>3. AvailScans \in 0 .. MaxScans - scanIndex
  BY <1>1, <1>2, Geometry, SMT DEF AvailScans
<1> QED
  BY <1>2, <1>3, Geometry, SMT DEF ValidScans, Least

\* In values.
LEMMA OfferedPlace ==
  ASSUME TypeOK, NEW numScans \in Nat
  PROVE  /\ scanIndex * ScanSize \in Nat
         /\ (scanIndex + ValidScans(numScans)) * ScanSize \in Nat
         /\ scanIndex * ScanSize <= (scanIndex + ValidScans(numScans)) * ScanSize
         /\ (scanIndex + ValidScans(numScans)) * ScanSize <= MaxValues
         /\ Offered(numScans) \subseteq Positions
<1> DEFINE s == scanIndex * ScanSize
           e == (scanIndex + ValidScans(numScans)) * ScanSize
<1>1. /\ scanIndex \in Nat /\ scanIndex + ValidScans(numScans) \in Nat
      /\ scanIndex <= scanIndex + ValidScans(numScans)
      /\ scanIndex + ValidScans(numScans) <= MaxScans
  <2>1. scanIndex \in Nat /\ MaxScans \in Nat
    BY Numbers, Geometry
  <2>2. ValidScans(numScans) \in 0 .. MaxScans /\ scanIndex + ValidScans(numScans) <= MaxScans
    BY ScansInside
  <2> QED
    BY <2>1, <2>2, SMT
<1>2. s \in Nat /\ e \in Nat
  BY <1>1, Geometry, SMT
<1>3. s <= e
  BY <1>1, Geometry, TimesMonotone
<1>4. e <= MaxValues
  <2>1. e <= MaxScans * ScanSize
    BY <1>1, Geometry, TimesMonotone
  <2> QED
    BY <2>1, Geometry
<1> HIDE DEF s, e
<1>5. s .. e - 1 \subseteq Positions
  BY <1>2, <1>3, <1>4, Geometry, SMT DEF Positions
<1>6. Offered(numScans) = s .. e - 1 \/ Offered(numScans) = {}
  BY DEF Offered, s, e
<1> QED
  BY <1>2, <1>3, <1>4, <1>5, <1>6 DEF s, e

LEMMA RefilledType ==
  ASSUME TypeOK
  PROVE  /\ RefilledTo \in Positions
         /\ Refilled \in Int
<1>1. ScanFrame \in 0 .. NumFrames - 1
  BY FrameOfScan DEF TypeOK, ScanFrame
<1>2. ScanFrame * FrameValues \in Positions /\ 0 \in Positions
  BY <1>1, FrameInside, Geometry, SMT DEF Positions
<1>3. ScanFrame * FrameValues \in Int /\ tail \in Int /\ tail \in Positions
  BY <1>2, Numbers DEF Positions, TypeOK
<1>4. RefilledTo \in Positions
  BY <1>2, <1>3 DEF RefilledTo
<1>5. Refilled \in Int
  BY <1>3, Geometry, SMT DEF Refilled
<1> QED
  BY <1>4, <1>5

LEMMA GetScansTypes ==
  ASSUME TypeIInv, NEW numScans \in Requests, GetScans(numScans)
  PROVE  TypeIInv'
<1>0. TypeOK /\ numScans \in Nat
  BY AOutSwitchAssumption DEF TypeIInv
<1>1. scanIndex' \in 0 .. MaxScans - 1
  <2>1. scanIndex + ValidScans(numScans) \in Int
    BY <1>0, ScansInside, Numbers
  <2> QED
    BY <2>1, Geometry, ModRange DEF GetScans, ScanIndexAfter
<1>2. tail' \in Positions
  BY <1>0, RefilledType DEF GetScans
<1>3. count' \in 0 .. Word - 1
  <2>1. count - Refilled \in Int
    BY <1>0, RefilledType, Numbers
  <2> QED
    BY <1>0, <2>1, Numbers, ModRange DEF GetScans
<1>4. granted' \subseteq Positions
  BY <1>0, OfferedPlace DEF GetScans
<1> QED
  BY <1>0, <1>1, <1>2, <1>3, <1>4
     DEF TypeIInv, TypeOK, GetScans, Ioctl, Locked, Unlocked, config, handler, latches

-----------------------------------------------------------------------------
(* The other steps keep the types.                                         *)

LEMMA InitTypes == Init => TypeIInv
<1> SUFFICES ASSUME Init PROVE TypeIInv
  OBVIOUS
<1>1. 0 \in Positions /\ 0 \in 0 .. MaxScans - 1
  BY Geometry, SMT DEF Positions
<1>2. 0 \in 0 .. Word - 1 /\ 0 <= FifoSize
  BY AOutTransferAssumption, Geometry, SMT
<1>3. <<>> \in Seq(Values) /\ Len(<<>>) = 0
  BY EmptySeq
<1>4. 0 \in 0 .. MaxSetups /\ 0 \in 0 .. MaxFaults
  BY AOutSwitchAssumption, SMT
<1> QED
  BY <1>1, <1>2, <1>3, <1>4 DEF Init, TypeIInv, TypeOK, NoStatus

\* The counters of the bounds.
LEMMA OutcomeTypes ==
  ASSUME TypeOK, NEW ok \in BOOLEAN, Outcome(ok)
  PROVE  faults' \in 0 .. MaxFaults
BY AOutSwitchAssumption, SMT DEF TypeOK, Outcome

LEMMA CountedTypes ==
  ASSUME TypeOK, Counted
  PROVE  setups' \in 0 .. MaxSetups
BY AOutSwitchAssumption, SMT DEF TypeOK, Counted

LEMMA PlayTypes == TypeIInv /\ Play => TypeIInv'
<1> SUFFICES ASSUME TypeIInv, Play PROVE TypeIInv'
  OBVIOUS
<1>1. fifo' \in Seq(Values) /\ Len(fifo') <= FifoSize
  <2>0. fifo \in Seq(Values) /\ Len(fifo) \in Nat /\ Len(fifo) <= FifoSize
    BY DEF TypeIInv, TypeOK
  <2>1. CASE fifo = <<>>
    BY <2>0, <2>1 DEF Play
  <2>2. CASE fifo # <<>>
    <3>1. Tail(fifo) \in Seq(Values) /\ Len(Tail(fifo)) = Len(fifo) - 1
      BY <2>0, <2>2, HeadTailProperties
    <3> QED
      BY <2>0, <2>2, <3>1, AOutTransferAssumption, SMT DEF Play
  <2> QED
    BY <2>1, <2>2
<1>2. HalfDoneSC' \in BOOLEAN /\ BufDoneSC' \in BOOLEAN /\ UndRunErrSC' \in BOOLEAN
  BY DEF Play, TypeIInv, TypeOK
<1> QED
  BY <1>1, <1>2 DEF TypeIInv, TypeOK, Play, bufInfo, config, handler, refill

LEMMA ApplicationTypes == TypeIInv /\ Application => TypeIInv'
<1> SUFFICES ASSUME TypeIInv, Application PROVE TypeIInv'
  OBVIOUS
<1>0. /\ TypeOK /\ Len(fifo) <= FifoSize
      /\ 0 \in Positions /\ 0 \in 0 .. MaxScans - 1 /\ 0 \in 0 .. Word - 1 /\ 0 <= FifoSize
      /\ <<>> \in Seq(Values) /\ Len(<<>>) = 0
  <2>1. 0 \in Positions /\ 0 \in 0 .. MaxScans - 1
    BY Geometry, SMT DEF Positions
  <2>2. 0 \in 0 .. Word - 1 /\ 0 <= FifoSize
    BY AOutTransferAssumption, Geometry, SMT
  <2> QED
    BY <2>1, <2>2, EmptySeq DEF TypeIInv
<1>a. Setup \/ (Unlocked /\ Counted) => setups' \in 0 .. MaxSetups /\ UNCHANGED <<layout, phase, status>>
  BY <1>0, CountedTypes DEF Setup, Locked, Unlocked, handler
<1>b. Ioctl => UNCHANGED <<layout, phase, status, setups>>
  BY DEF Ioctl, Locked, Unlocked, handler
<1>c. \A ok \in BOOLEAN : StopConversions(ok) => converting' \in BOOLEAN
  BY <1>0 DEF StopConversions, TypeOK
<1>1. ASSUME NEW mode \in Modes, NEW allocated \in BOOLEAN, RegisterDaqBuffer(mode, allocated)
      PROVE  TypeIInv'
  <2>1. bWrap' \in BOOLEAN /\ bRecycle' \in BOOLEAN /\ databuf' \in {"never", "none", "set"}
    BY <1>1, AOutSwitchAssumption DEF RegisterDaqBuffer
  <2>2. faults' \in 0 .. MaxFaults
    BY <1>0, <1>1, OutcomeTypes DEF RegisterDaqBuffer
  <2>3. /\ initialised' \in BOOLEAN
        /\ fresh' \subseteq Positions /\ granted' \subseteq Positions
    BY <1>1 DEF RegisterDaqBuffer
  <2> QED
    BY <1>0, <1>1, <1>a, <2>1, <2>2, <2>3
       DEF TypeIInv, TypeOK, RegisterDaqBuffer, config, latches
<1>2. CASE UnregisterDaqBuffer
  <2>1. /\ databuf' \in {"never", "none", "set"} /\ initialised' \in BOOLEAN
        /\ fresh' \subseteq Positions /\ granted' \subseteq Positions
    BY <1>2 DEF UnregisterDaqBuffer
  <2> QED
    BY <1>0, <1>2, <2>1
       DEF TypeIInv, TypeOK, UnregisterDaqBuffer, Unlocked, handler, config, latches
<1>3. ASSUME NEW ok \in BOOLEAN, NEW regen \in BOOLEAN, NEW check \in Checks, AsyncInit(ok, regen, check)
      PROVE  TypeIInv'
  <2>1. /\ SubsysState' \in {"ssConfig", "ssStandby", "ssRunning", "ssStopped"}
        /\ bCheckFifoError' \in BOOLEAN /\ eventsNew' \subseteq Events
    BY <1>3, AOutSwitchAssumption DEF AsyncInit
  <2>2. HalfDoneSC' \in BOOLEAN /\ BufDoneSC' \in BOOLEAN /\ UndRunErrSC' \in BOOLEAN
    BY <1>0, <1>3 DEF AsyncInit, TypeOK, latches
  <2>3. regenerate' \in BOOLEAN
    <3>1. regenerate' = (regen \/ (bRecycle /\ MaxValues <= TranSize))
      BY <1>3 DEF AsyncInit
    <3> QED
      BY <3>1, Zenon
  <2>4. fresh' \subseteq Positions /\ granted' \subseteq Positions
    BY <1>3 DEF AsyncInit
  <2>5. faults' \in 0 .. MaxFaults
    BY <1>0, <1>3, OutcomeTypes DEF AsyncInit
  <2>6. fifo' \in Seq(Values) /\ Len(fifo') <= FifoSize
    <3>1. Len(fifo) \in Nat
      BY <1>0 DEF TypeOK
    <3> QED
      BY <1>0, <1>3, <3>1, OldWords DEF AsyncInit
  <2> QED
    BY <1>0, <1>3, <1>a, <2>1, <2>2, <2>3, <2>4, <2>5, <2>6 DEF TypeIInv, TypeOK, AsyncInit
<1>4. ASSUME NEW ok \in BOOLEAN, NEW enabled \in BOOLEAN, AsyncStart(ok, enabled)
      PROVE  TypeIInv'
  <2>1. StartCount \in Nat
    BY AOutTransferAssumption, Geometry, SMT DEF StartCount
  <2>2. /\ fifo' \in Seq(Values) /\ Len(fifo') <= FifoSize
        /\ head' \in Positions /\ tail' \in Positions
        /\ count' \in 0 .. Word - 1 /\ fresh' \subseteq Positions
    BY <1>4, <2>1, PutTypes DEF AsyncStart
  <2>3. /\ SubsysState' \in {"ssConfig", "ssStandby", "ssRunning", "ssStopped"}
        /\ converting' \in BOOLEAN /\ bRev3Mode' \in BOOLEAN
    BY <1>0, <1>4 DEF AsyncStart, TypeOK
  <2>4. faults' \in 0 .. MaxFaults
    <3>1. (ok /\ enabled) \in BOOLEAN
      OBVIOUS
    <3> QED
      BY <1>0, <1>4, <3>1, OutcomeTypes DEF AsyncStart
  <2> QED
    BY <1>0, <1>4, <1>b, <2>2, <2>3, <2>4 DEF TypeIInv, TypeOK, AsyncStart, latches
<1>5. ASSUME NEW ok \in BOOLEAN, AsyncStop(ok)
      PROVE  TypeIInv'
  <2>1. /\ SubsysState' \in {"ssConfig", "ssStandby", "ssRunning", "ssStopped"}
        /\ bRev3Mode' \in BOOLEAN
    BY <1>0, <1>5 DEF AsyncStop, TypeOK
  <2>2. faults' \in 0 .. MaxFaults
    BY <1>0, <1>5, OutcomeTypes DEF AsyncStop
  <2>3. converting' \in BOOLEAN
    BY <1>5, <1>c DEF AsyncStop
  <2> QED
    BY <1>0, <1>5, <1>b, <2>1, <2>2, <2>3 DEF TypeIInv, TypeOK, AsyncStop, bufInfo, latches, refill
<1>6. ASSUME NEW ok \in BOOLEAN, AsyncTerm(ok)
      PROVE  TypeIInv'
  <2>1. /\ SubsysState' \in {"ssConfig", "ssStandby", "ssRunning", "ssStopped"}
        /\ bAsyncMode' \in BOOLEAN /\ bCheckFifoError' \in BOOLEAN
    BY <1>0, <1>6 DEF AsyncTerm, TypeOK
  <2>2. faults' \in 0 .. MaxFaults
    BY <1>0, <1>6, OutcomeTypes DEF AsyncTerm
  <2>3. converting' \in BOOLEAN
    BY <1>6, <1>c DEF AsyncTerm
  <2> QED
    BY <1>0, <1>6, <1>b, <2>1, <2>2, <2>3 DEF TypeIInv, TypeOK, AsyncTerm, bufInfo, latches, refill
<1>7. CASE AsyncInitUnregistered \/ AsyncStopIdle
  BY <1>0, <1>7, <1>b
     DEF TypeIInv, TypeOK, AsyncInitUnregistered, AsyncStopIdle, bufInfo, config, latches, refill
<1>8. CASE Reset
  <2>1. /\ bRev3Mode' \in BOOLEAN /\ converting' \in BOOLEAN
        /\ HalfDoneSC' \in BOOLEAN /\ BufDoneSC' \in BOOLEAN /\ UndRunErrSC' \in BOOLEAN
    BY <1>8 DEF Reset
  <2> QED
    BY <1>0, <1>8, <1>b, <2>1 DEF TypeIInv, TypeOK, Reset, bufInfo, refill
<1>9. CASE SetConfig
  <2>1. bRev3Mode' \in BOOLEAN
    BY <1>9 DEF SetConfig
  <2> QED
    BY <1>0, <1>9, <1>b, <2>1 DEF TypeIInv, TypeOK, SetConfig, bufInfo, latches, refill
<1>10. CASE Refill
  <2>1. fresh' \subseteq Positions /\ granted' \subseteq Positions
    BY <1>0, <1>10 DEF Refill, TypeOK
  <2> QED
    BY <1>0, <1>10, <2>1 DEF TypeIInv, TypeOK, Refill, bufInfo, config, latches, handler
<1> QED
  BY <1>1, <1>2, <1>3, <1>4, <1>5, <1>6, <1>7, <1>8, <1>9, <1>10, GetScansTypes DEF Application

\* What the bottom half's steps have in common.
LEMMA StopTypes ==
  ASSUME TypeOK, NEW ok \in BOOLEAN, NEW events \in SUBSET Events, StopAndDisable(ok, events)
  PROVE  /\ faults' \in 0 .. MaxFaults /\ converting' \in BOOLEAN /\ bAsyncMode' \in BOOLEAN
         /\ eventsNew' \subseteq Events
         /\ SubsysState' \in {"ssConfig", "ssStandby", "ssRunning", "ssStopped"}
<1>1. faults' \in 0 .. MaxFaults
  BY OutcomeTypes DEF StopAndDisable
<1>2. converting' \in BOOLEAN
  BY DEF StopAndDisable, StopConversions, TypeOK
<1> QED
  BY <1>1, <1>2 DEF StopAndDisable, Events

LEMMA KeepRingTypes ==
  ASSUME TypeIInv, KeepRing
  PROVE  /\ fifo' \in Seq(Values) /\ Len(fifo') <= FifoSize
         /\ head' \in Positions /\ tail' \in Positions
         /\ count' \in 0 .. Word - 1
         /\ fresh' \subseteq Positions
BY DEF TypeIInv, TypeOK, KeepRing

\* The blocks of the bottom half change the ring, the events, and whether the
\* output runs.
HandlerTypes ==
  /\ fifo' \in Seq(Values) /\ Len(fifo') <= FifoSize
  /\ head' \in Positions /\ tail' \in Positions
  /\ count' \in 0 .. Word - 1
  /\ fresh' \subseteq Positions
  /\ faults' \in 0 .. MaxFaults /\ converting' \in BOOLEAN /\ bAsyncMode' \in BOOLEAN
  /\ eventsNew' \subseteq Events
  /\ SubsysState' \in {"ssConfig", "ssStandby", "ssRunning", "ssStopped"}

LEMMA NothingPutTypes ==
  ASSUME TypeIInv, NothingPut, eventsNew' \subseteq Events
  PROVE  HandlerTypes
BY KeepRingTypes DEF TypeIInv, TypeOK, NothingPut, HandlerTypes

LEMMA PutSamplesTypes ==
  ASSUME TypeIInv, NEW ok \in BOOLEAN, NEW events \in SUBSET Events, PutSamples(ok, events)
  PROVE  HandlerTypes
<1>0. TypeOK
  BY DEF TypeIInv
<1>1. CASE StopAndDisable(ok, events) /\ KeepRing
  BY <1>0, <1>1, StopTypes, KeepRingTypes DEF HandlerTypes
<1>2. CASE eventsNew' = events \cup {"eBufferDone"} /\ NothingPut
  BY <1>2, NothingPutTypes DEF Events
<1>3. CASE /\ eventsNew' = events \cup {"eBufferError"} /\ bAsyncMode' = FALSE
           /\ KeepRing /\ UNCHANGED <<SubsysState, converting, faults>>
  BY <1>0, <1>3, KeepRingTypes DEF HandlerTypes, Events, TypeOK
<1>4. CASE /\ Outcome(ok) /\ PutXBuf(TranSize \div 2, ok)
           /\ eventsNew' = events \cup PutEvents
           /\ UNCHANGED <<SubsysState, bAsyncMode, converting>>
  <2>1. TranSize \div 2 \in Nat
    BY AOutTransferAssumption, SMT
  <2>2. faults' \in 0 .. MaxFaults
    BY <1>0, <1>4, OutcomeTypes
  <2>3. PutEvents \subseteq Events
    BY DEF PutEvents, Events
  <2> QED
    BY <1>0, <1>4, <2>1, <2>2, <2>3, PutTypes DEF HandlerTypes, TypeOK
<1> QED
  BY <1>1, <1>2, <1>3, <1>4 DEF PutSamples

LEMMA HandlerKeepsTypes ==
  ASSUME TypeIInv, InHandler, HandlerTypes,
         phase' \in {"idle", "done", "under", "notify"},
         status' \in [half : BOOLEAN, done : BOOLEAN, under : BOOLEAN],
         HalfDoneSC' \in BOOLEAN, BufDoneSC' \in BOOLEAN, UndRunErrSC' \in BOOLEAN
  PROVE  TypeIInv'
BY DEF TypeIInv, TypeOK, InHandler, HandlerTypes, config

LEMMA BottomHalfTypes == TypeIInv /\ (ServeBoard \/ Serve) => TypeIInv'
<1> SUFFICES ASSUME TypeIInv, ServeBoard \/ Serve PROVE TypeIInv'
  OBVIOUS
<1>0. /\ TypeOK
      /\ HalfDoneSC \in BOOLEAN /\ BufDoneSC \in BOOLEAN /\ UndRunErrSC \in BOOLEAN
      /\ eventsNew \in SUBSET Events
      /\ status \in [half : BOOLEAN, done : BOOLEAN, under : BOOLEAN]
      /\ NoStatus \in [half : BOOLEAN, done : BOOLEAN, under : BOOLEAN]
  BY DEF TypeIInv, TypeOK, NoStatus
<1>1. ASSUME NEW ok \in BOOLEAN, ProcessHalfDone(ok)
      PROVE  TypeIInv'
  <2>1. HandlerTypes
    <3>1. CASE PutSamples(ok, {})
      BY <3>1, PutSamplesTypes
    <3>2. CASE eventsNew' = (IF HalfDoneSC THEN {"eFrameDone"} ELSE {}) /\ NothingPut
      BY <3>2, NothingPutTypes DEF Events
    <3> QED
      BY <1>1, <3>1, <3>2 DEF ProcessHalfDone
  <2>2. /\ phase' = "done" /\ InHandler
        /\ status' \in [half : BOOLEAN, done : BOOLEAN, under : BOOLEAN]
        /\ HalfDoneSC' \in BOOLEAN /\ BufDoneSC' \in BOOLEAN /\ UndRunErrSC' \in BOOLEAN
    BY <1>0, <1>1 DEF ProcessHalfDone, ReadBoardStatus, latches
  <2> QED
    BY <2>1, <2>2, HandlerKeepsTypes
<1>2. CASE ProcessOldWay
  <2>1. eventsNew' \subseteq Events
    BY <1>2 DEF ProcessOldWay, Events
  <2>2. HandlerTypes
    BY <1>2, <2>1, NothingPutTypes DEF ProcessOldWay
  <2>3. /\ phase' = "notify" /\ InHandler /\ status' = status
        /\ HalfDoneSC' \in BOOLEAN /\ BufDoneSC' \in BOOLEAN
    BY <1>2 DEF ProcessOldWay
  <2>4. UndRunErrSC' \in BOOLEAN
    BY <1>0, <1>2, Zenon DEF ProcessOldWay
  <2> QED
    BY <1>0, <2>2, <2>3, <2>4, HandlerKeepsTypes
<1>3. ASSUME NEW ok \in BOOLEAN, ProcessBufDone(ok)
      PROVE  TypeIInv'
  <2>1. HandlerTypes
    <3>1. CASE PutSamples(ok, eventsNew \cup FifoErrorEvents)
      <4>1. eventsNew \cup FifoErrorEvents \in SUBSET Events
        BY <1>0 DEF FifoErrorEvents, Events
      <4> QED
        BY <3>1, <4>1, PutSamplesTypes
    <3>2. CASE NothingPut /\ eventsNew' \in {eventsNew, eventsNew \cup {"eBufferError", "eBufferDone"}}
      <4>1. eventsNew' \subseteq Events
        BY <1>0, <3>2 DEF Events
      <4> QED
        BY <3>2, <4>1, NothingPutTypes
    <3> QED
      BY <1>3, <3>1, <3>2 DEF ProcessBufDone
  <2>2. /\ phase' = "under" /\ InHandler
        /\ status' \in [half : BOOLEAN, done : BOOLEAN, under : BOOLEAN]
        /\ HalfDoneSC' \in BOOLEAN /\ BufDoneSC' \in BOOLEAN /\ UndRunErrSC' \in BOOLEAN
    BY <1>0, <1>3 DEF ProcessBufDone, At, latches
  <2> QED
    BY <2>1, <2>2, HandlerKeepsTypes
<1>4. ASSUME NEW ok \in BOOLEAN, ProcessUndRunErr(ok)
      PROVE  TypeIInv'
  <2>1. HandlerTypes
    <3>1. CASE StopAndDisable(ok, eventsNew \cup {"eBufferError"})
      <4>1. eventsNew \cup {"eBufferError"} \in SUBSET Events
        BY <1>0 DEF Events
      <4> QED
        BY <1>0, <1>4, <3>1, <4>1, StopTypes, KeepRingTypes DEF HandlerTypes, ProcessUndRunErr
    <3>2. CASE UNCHANGED <<SubsysState, bAsyncMode, converting, eventsNew, faults>>
      BY <1>0, <1>4, <3>2, KeepRingTypes DEF HandlerTypes, ProcessUndRunErr, TypeOK
    <3> QED
      BY <1>4, <3>1, <3>2 DEF ProcessUndRunErr
  <2>2. /\ phase' = "notify" /\ InHandler
        /\ status' \in [half : BOOLEAN, done : BOOLEAN, under : BOOLEAN]
    BY <1>0, <1>4 DEF ProcessUndRunErr, At
  <2>3. HalfDoneSC' \in BOOLEAN /\ BufDoneSC' \in BOOLEAN /\ UndRunErrSC' \in BOOLEAN
    BY <1>4, Zenon DEF ProcessUndRunErr
  <2> QED
    BY <2>1, <2>2, <2>3, HandlerKeepsTypes
<1>5. CASE NotifyUserEvents
  <2>1. HandlerTypes
    <3>1. NothingPut /\ eventsNew' \subseteq Events
      BY <1>5 DEF NotifyUserEvents
    <3> QED
      BY <3>1, NothingPutTypes
  <2>2. /\ phase' = "idle" /\ InHandler
        /\ status' \in [half : BOOLEAN, done : BOOLEAN, under : BOOLEAN]
        /\ HalfDoneSC' \in BOOLEAN /\ BufDoneSC' \in BOOLEAN /\ UndRunErrSC' \in BOOLEAN
    BY <1>0, <1>5 DEF NotifyUserEvents, At, latches
  <2> QED
    BY <2>1, <2>2, HandlerKeepsTypes
<1> QED
  BY <1>1, <1>2, <1>3, <1>4, <1>5 DEF ServeBoard, Serve

LEMMA NextTypes == TypeIInv /\ [Next]_vars => TypeIInv'
<1>1. TypeIInv /\ UNCHANGED vars => TypeIInv'
  BY DEF TypeIInv, TypeOK, vars, bufInfo, config, handler, latches, refill
<1> QED
  BY <1>1, PlayTypes, ApplicationTypes, BottomHalfTypes DEF Next

\* The indices with which pd_aout_put_xbuf and pd_aout_get_scans address the DAQ
\* buffer stay inside it, for every layout and mode, and whatever fails.
THEOREM OutputTypeCorrect == Spec => []TypeOK
<1>1. Init => TypeIInv
  BY InitTypes
<1>2. TypeIInv /\ [Next]_vars => TypeIInv'
  BY NextTypes
<1>3. TypeIInv => TypeOK
  BY DEF TypeIInv
<1> QED
  BY <1>1, <1>2, <1>3, PTL DEF Spec

-----------------------------------------------------------------------------
(* Frames that are completed, and conversions that run.                    *)

\* Quotients grow with their dividends.
LEMMA FrameGrows ==
  ASSUME NEW p \in Positions, NEW q \in Positions, p <= q
  PROVE  FrameOf(p) <= FrameOf(q)
<1>1. /\ FrameOf(p) \in Nat /\ FrameOf(q) \in Nat
      /\ FrameOf(p) * FrameValues <= p
      /\ q < FrameOf(q) * FrameValues + FrameValues
  <2>1. p \in Nat /\ q \in Nat
    BY DEF Positions
  <2> QED
    BY <2>1, Geometry, DivMod DEF FrameOf
<1>2. SUFFICES ASSUME FrameOf(q) + 1 <= FrameOf(p) PROVE FALSE
  BY <1>1
<1>3. (FrameOf(q) + 1) * FrameValues <= FrameOf(p) * FrameValues
  BY <1>1, <1>2, Geometry, TimesMonotone
<1>4. (FrameOf(q) + 1) * FrameValues = FrameOf(q) * FrameValues + FrameValues
  BY <1>1, Geometry, SMT
<1>5. FrameOf(p) * FrameValues \in Nat /\ FrameOf(q) * FrameValues \in Nat
  BY <1>1, Geometry, SMT
<1> QED
  BY <1>1, <1>3, <1>4, <1>5, Geometry, SMT DEF Positions

\* The head moves in a running output only by a block of the bottom half.
LEMMA HeadMoves ==
  ASSUME TypeIInv, [Next]_vars, SubsysState = "ssRunning", head' # head
  PROVE  PutEvents \subseteq eventsNew'
<1>1. ASSUME NEW ok \in BOOLEAN, NEW events, PutSamples(ok, events)
      PROVE  PutEvents \subseteq eventsNew'
  BY <1>1 DEF PutSamples, KeepRing, NothingPut
<1>2. \/ \E ok \in BOOLEAN : ProcessHalfDone(ok) \/ ProcessBufDone(ok)
      \/ FALSE
  BY DEF Next, Play, Application, RegisterDaqBuffer, UnregisterDaqBuffer, AsyncInit,
         AsyncInitUnregistered, AsyncStart, AsyncStop, AsyncStopIdle, AsyncTerm, Reset, SetConfig,
         GetScans, Refill, ServeBoard, Serve, ProcessOldWay, ProcessUndRunErr, NotifyUserEvents,
         KeepRing, NothingPut, vars, bufInfo
<1> QED
  BY <1>1, <1>2 DEF ProcessHalfDone, ProcessBufDone, NothingPut, KeepRing

\* Whatever the geometry and the sizes of the blocks, also of blocks that wrap:
\* a running output that has put the last value of a frame raises eFrameDone.
THEOREM FrameDoneCorrect == Spec => FrameDoneRaised
<1> DEFINE Raised == SubsysState = "ssRunning" /\ FrameOf(head') # FrameOf(head)
                       => "eFrameDone" \in eventsNew'
<1>1. TypeIInv /\ [Next]_vars => Raised
  <2> SUFFICES ASSUME TypeIInv, [Next]_vars, SubsysState = "ssRunning",
                      FrameOf(head') # FrameOf(head)
               PROVE  "eFrameDone" \in eventsNew'
    OBVIOUS
  <2>1. head \in Positions /\ head' \in Positions
    BY NextTypes DEF TypeIInv, TypeOK
  <2>2. head' # head /\ PutEvents \subseteq eventsNew'
    BY HeadMoves
  <2>3. FrameOf(head) \in Int /\ FrameOf(head') \in Int
    BY <2>1, Geometry, DivMod DEF FrameOf, Positions
  <2>4. head > head' \/ FrameOf(head') > FrameOf(head)
    <3>1. CASE head <= head'
      <4>1. FrameOf(head) <= FrameOf(head')
        BY <2>1, <3>1, FrameGrows
      <4> QED
        BY <2>3, <4>1
    <3>2. CASE ~(head <= head')
      BY <2>1, <3>2, Geometry DEF Positions
    <3> QED
      BY <3>1, <3>2
  <2>5. "eFrameDone" \in PutEvents
    BY <2>4 DEF PutEvents
  <2> QED
    BY <2>2, <2>5
<1>2. Init => TypeIInv
  BY InitTypes
<1>3. TypeIInv /\ [Next]_vars => TypeIInv'
  BY NextTypes
<1> QED
  BY <1>1, <1>2, <1>3, PTL DEF Spec, FrameDoneRaised

\* As long as no command fails, conversions run only in a subsystem the driver
\* has recorded as running, whatever stopped or reconfigured it.
THEOREM StoppedCorrect == Spec => []StoppedMeansIdle
<1> DEFINE IInv == TypeIInv /\ StoppedMeansIdle
<1>1. Init => IInv
  BY InitTypes DEF Init, StoppedMeansIdle
<1>2. IInv /\ [Next]_vars => IInv'
  <2> SUFFICES ASSUME TypeIInv, StoppedMeansIdle, [Next]_vars PROVE StoppedMeansIdle'
    BY NextTypes
  <2>0. /\ faults \in Nat /\ faults' \in Nat
        /\ \A ok \in BOOLEAN : Outcome(ok) => faults' = faults \/ (faults' = faults + 1 /\ ~ok)
    <3>1. faults \in Nat /\ faults' \in Nat
      BY NextTypes, AOutSwitchAssumption, SMT DEF TypeIInv, TypeOK
    <3> QED
      BY <3>1 DEF Outcome
  <2>1. ASSUME UNCHANGED <<converting, SubsysState, faults>>
        PROVE  StoppedMeansIdle'
    BY <2>1 DEF StoppedMeansIdle
  <2>2. ASSUME NEW ok \in BOOLEAN, Outcome(ok), StopConversions(ok),
               ok => SubsysState' # "ssRunning" \/ SubsysState' = SubsysState
        PROVE  StoppedMeansIdle'
    <3>1. CASE ok
      BY <2>2, <3>1 DEF StopConversions, StoppedMeansIdle
    <3>2. CASE ~ok
      <4>1. faults' = faults + 1
        BY <2>2, <3>2 DEF Outcome
      <4>2. faults' # 0
        BY <2>0, <4>1
      <4> QED
        BY <4>2 DEF StoppedMeansIdle
    <3> QED
      BY <3>1, <3>2
  <2>3. ASSUME NEW ok \in BOOLEAN, NEW events, StopAndDisable(ok, events)
        PROVE  StoppedMeansIdle'
    BY <2>2, <2>3 DEF StopAndDisable
  <2>4. ASSUME NEW ok \in BOOLEAN, NEW events, PutSamples(ok, events)
        PROVE  StoppedMeansIdle'
    <3>1. CASE StopAndDisable(ok, events)
      BY <2>3, <3>1
    <3>2. CASE UNCHANGED <<converting, SubsysState, faults>>
      BY <2>1, <3>2
    <3>3. CASE Outcome(ok) /\ UNCHANGED <<converting, SubsysState>>
      BY <2>0, <3>3 DEF StoppedMeansIdle
    <3> QED
      BY <2>4, <3>1, <3>2, <3>3 DEF PutSamples, NothingPut
  <2>5. CASE Application
    <3>1. ASSUME NEW ok \in BOOLEAN, NEW regen \in BOOLEAN, NEW check \in Checks,
                 AsyncInit(ok, regen, check)
          PROVE  StoppedMeansIdle'
      BY <2>0, <3>1 DEF AsyncInit, StoppedMeansIdle
    <3>2. ASSUME NEW ok \in BOOLEAN, NEW enabled \in BOOLEAN, AsyncStart(ok, enabled)
          PROVE  StoppedMeansIdle'
      <4>1. CASE ok /\ enabled
        BY <2>0, <3>2, <4>1 DEF AsyncStart, StoppedMeansIdle
      <4>2. CASE ~(ok /\ enabled)
        <5>1. faults' = faults + 1
          BY <3>2, <4>2 DEF AsyncStart, Outcome
        <5>2. faults' # 0
          BY <2>0, <5>1
        <5> QED
          BY <5>2 DEF StoppedMeansIdle
      <4> QED
        BY <4>1, <4>2
    <3>3. ASSUME NEW ok \in BOOLEAN, AsyncStop(ok) \/ AsyncTerm(ok)
          PROVE  StoppedMeansIdle'
      BY <2>2, <3>3 DEF AsyncStop, AsyncTerm
    <3>4. CASE AsyncInitUnregistered \/ AsyncStopIdle
      BY <3>4 DEF AsyncInitUnregistered, AsyncStopIdle, StoppedMeansIdle
    <3>5. CASE Reset
      BY <3>5 DEF Reset, StoppedMeansIdle
    <3>6. ASSUME NEW mode \in Modes, NEW allocated \in BOOLEAN, RegisterDaqBuffer(mode, allocated)
          PROVE  StoppedMeansIdle'
      BY <2>0, <3>6 DEF RegisterDaqBuffer, StoppedMeansIdle
    <3>7. CASE UnregisterDaqBuffer \/ SetConfig \/ Refill \/ \E n \in Requests : GetScans(n)
      BY <2>1, <3>7 DEF UnregisterDaqBuffer, SetConfig, Refill, GetScans
    <3> QED
      BY <2>5, <3>1, <3>2, <3>3, <3>4, <3>5, <3>6, <3>7 DEF Application
  <2>6. CASE ServeBoard
    <3>1. ASSUME NEW ok \in BOOLEAN, ProcessHalfDone(ok)
          PROVE  StoppedMeansIdle'
      BY <2>1, <2>4, <3>1 DEF ProcessHalfDone, NothingPut
    <3> QED
      BY <2>1, <2>6, <3>1 DEF ServeBoard, ProcessOldWay, NothingPut
  <2>7. CASE Serve
    <3>1. ASSUME NEW ok \in BOOLEAN, ProcessBufDone(ok)
          PROVE  StoppedMeansIdle'
      BY <2>1, <2>4, <3>1 DEF ProcessBufDone, NothingPut
    <3>2. ASSUME NEW ok \in BOOLEAN, ProcessUndRunErr(ok)
          PROVE  StoppedMeansIdle'
      BY <2>1, <2>3, <3>2 DEF ProcessUndRunErr
    <3> QED
      BY <2>1, <2>7, <3>1, <3>2 DEF Serve, NotifyUserEvents, NothingPut
  <2>8. CASE Play \/ UNCHANGED vars
    BY <2>1, <2>8 DEF Play, vars
  <2> QED
    BY <2>5, <2>6, <2>7, <2>8 DEF Next
<1>3. IInv => StoppedMeansIdle
  OBVIOUS
<1> QED
  BY <1>1, <1>2, <1>3, PTL DEF Spec
-----------------------------------------------------------------------------
(* The queue: what is pending, what may be refilled, and what the board's  *)
(* FIFO holds, for every geometry, transfer size and interleaving of the   *)
(* bottom half with the application.                                       *)

-----------------------------------------------------------------------------
(* The inductive invariant.  A subsystem that stands by has a buffer nobody *)
(* has touched since AsyncInit; the tail of a buffer that is not recycled   *)
(* is the start of a frame.                                                 *)

StandbyIsFull ==
  SubsysState = "ssStandby" /\ faults = 0 =>
    count = 0 /\ head = 0 /\ tail = 0 /\ scanIndex = 0

TailOnFrame == initialised /\ ~bRecycle /\ faults = 0 => tail \in FrameStarts

QueueIInv == TypeIInv /\ QueueOK /\ StandbyIsFull /\ TailOnFrame

\* The numbers of a queue: h, t and c are head, tail and count.
IsQueue(h, t, c) == c = Distance(t, h) \/ (c = MaxValues /\ h = t)

\* Putting w of the values still to be put.
LEMMA PutQueue ==
  ASSUME NEW h \in 0 .. MaxValues - 1, NEW t \in 0 .. MaxValues - 1, NEW c \in Nat, NEW w \in Nat,
         IsQueue(h, t, c), c # MaxValues,
         w <= IF h >= t THEN MaxValues - h + t ELSE t - h
  PROVE  /\ c + w <= MaxValues
         /\ IsQueue(IF h + w >= MaxValues THEN h + w - MaxValues ELSE h + w, t, c + w)
BY Geometry, SMT DEF IsQueue, Distance

\* A put of the bottom half, or of the start: it does not go past the tail.
LEMMA PutKeepsQueue ==
  ASSUME TypeIInv, QueueOK, initialised, ~bRecycle, faults = 0, count # MaxValues,
         NEW n \in Nat, PutXBuf(n, TRUE), UNCHANGED <<scanIndex, initialised, bRecycle>>
  PROVE  QueueOK'
<1> DEFINE words == Taken(n)
           w == words * Adj
<1>0. /\ head \in 0 .. MaxValues - 1 /\ tail \in 0 .. MaxValues - 1
      /\ count \in Nat /\ count < Word /\ MaxValues \in Nat /\ MaxValues < Word /\ Word \in Nat \ {0}
  BY Numbers, Geometry, SMT DEF TypeIInv
<1>1. words \in 0 .. XFerSize(n) /\ PutWords(n, words, words)
  BY BlockSizes DEF PutXBuf
<1>2. w \in 0 .. NumToCopy(n) /\ NumToCopy(n) \in 0 .. AvlSamples /\ AvlSamples \in 0 .. MaxValues
  BY <1>1, HeadPlace, BlockSizes
<1>3. /\ head' = IF head + w >= MaxValues THEN head + w - MaxValues ELSE head + w
      /\ tail' = tail
      /\ count' = (count + w) % Word
  BY <1>1 DEF PutWords, HeadAfter
<1> HIDE DEF w, words
<1>4. w \in Nat /\ w <= IF head >= tail THEN MaxValues - head + tail ELSE tail - head
  BY <1>0, <1>2, SMT DEF AvlSamples
<1>5. IsQueue(head, tail, count) /\ Distance(tail, scanIndex * ScanSize) <= count
  BY DEF QueueOK, IsQueue
<1>6. count + w <= MaxValues /\ IsQueue(head', tail, count + w)
  BY <1>0, <1>3, <1>4, <1>5, PutQueue
<1>7. count' = count + w
  <2>1. count + w \in Nat /\ count + w < Word
    BY <1>0, <1>4, <1>6, SMT
  <2> QED
    BY <1>0, <1>3, <2>1, ModSmall
<1>8. Distance(tail, scanIndex * ScanSize) <= count'
  <2>1. scanIndex * ScanSize \in Int
    BY Numbers, Geometry, SMT DEF TypeIInv
  <2>2. Distance(tail, scanIndex * ScanSize) \in Int
    BY <1>0, <2>1 DEF Distance
  <2> QED
    BY <1>0, <1>4, <1>5, <1>7, <2>2
<1> QED
  BY <1>3, <1>6, <1>7, <1>8 DEF QueueOK, IsQueue, Distance

-----------------------------------------------------------------------------
(* AOutGetScans.                                                           *)

\* Where the scans offered lie, in values.
LEMMA ScansPlace ==
  ASSUME TypeOK, NEW numScans \in Nat
  PROVE  LET s == scanIndex * ScanSize
             e == (scanIndex + ValidScans(numScans)) * ScanSize
         IN  /\ s \in Nat /\ s < MaxValues
             /\ e \in Nat /\ s <= e /\ e <= MaxValues
             /\ \/ e = s
                \/ s < head /\ e <= head
                \/ head < s
             /\ ScanIndexAfter(numScans) * ScanSize = IF e = MaxValues THEN 0 ELSE e
<1> DEFINE s == scanIndex * ScanSize
           valid == ValidScans(numScans)
           e == (scanIndex + valid) * ScanSize
<1>0. /\ scanIndex \in Nat /\ scanIndex <= MaxScans - 1
      /\ head \in Nat /\ head < MaxValues
  BY Numbers, Geometry, SMT
<1>1. valid \in Nat /\ scanIndex + valid <= MaxScans
  BY ScansInside
<1>2. s \in Nat /\ e \in Nat /\ s <= e /\ e <= MaxValues
  BY OfferedPlace
<1>3. s < MaxValues
  <2>1. s <= (MaxScans - 1) * ScanSize
    BY <1>0, Geometry, TimesMonotone
  <2>2. (MaxScans - 1) * ScanSize = MaxValues - ScanSize
    BY Geometry, SMT
  <2> QED
    BY <1>2, <2>1, <2>2, Geometry, SMT
<1>4. /\ HeadScan \in Nat
      /\ HeadScan * ScanSize <= head
      /\ head < HeadScan * ScanSize + ScanSize
  BY <1>0, Geometry, DivMod DEF HeadScan
<1>5. \/ e = s
      \/ s < head /\ e <= head
      \/ head < s
  <2>1. CASE scanIndex < HeadScan
    <3>1. valid <= HeadScan - scanIndex
      BY <2>1, <1>0, <1>4, Geometry, SMT DEF ValidScans, AvailScans, Least
    <3>2. (scanIndex + valid) * ScanSize <= HeadScan * ScanSize
      BY <1>0, <1>1, <1>4, <3>1, Geometry, TimesMonotone
    <3>3. (scanIndex + 1) * ScanSize <= HeadScan * ScanSize
      BY <1>0, <1>4, <2>1, Geometry, TimesMonotone
    <3>4. (scanIndex + 1) * ScanSize = s + ScanSize /\ HeadScan * ScanSize \in Nat
      BY <1>0, <1>4, Geometry, SMT
    <3> HIDE DEF s, e
    <3> QED
      BY <1>0, <1>2, <1>4, <3>2, <3>3, <3>4, Geometry, SMT DEF e
  <2>2. CASE HeadScan < scanIndex
    <3>1. (HeadScan + 1) * ScanSize <= scanIndex * ScanSize
      BY <1>0, <1>4, <2>2, Geometry, TimesMonotone
    <3>2. (HeadScan + 1) * ScanSize = HeadScan * ScanSize + ScanSize
      BY <1>4, Geometry, SMT
    <3> QED
      BY <1>0, <1>4, <3>1, <3>2, Geometry, SMT
  <2>3. CASE scanIndex = HeadScan
    <3>1. valid = 0
      BY <2>3, <1>0, Geometry, SMT DEF ValidScans, AvailScans, Least
    <3> QED
      BY <1>0, <3>1
  <2> QED
    BY <1>0, <1>4, <2>1, <2>2, <2>3
<1>6. ScanIndexAfter(numScans) * ScanSize = IF e = MaxValues THEN 0 ELSE e
  <2>1. CASE scanIndex + valid = MaxScans
    <3>1. ScanIndexAfter(numScans) = 0 /\ e = MaxValues
      BY <1>0, <1>1, <2>1, Geometry, ModSmall DEF ScanIndexAfter
    <3> QED
      BY <3>1, Geometry, SMT
  <2>2. CASE scanIndex + valid < MaxScans
    <3>1. ScanIndexAfter(numScans) = scanIndex + valid
      BY <1>0, <1>1, <2>2, Geometry, ModSmall DEF ScanIndexAfter
    <3>2. (scanIndex + valid) * ScanSize <= (MaxScans - 1) * ScanSize
      BY <1>0, <1>1, <2>2, Geometry, TimesMonotone
    <3>3. (MaxScans - 1) * ScanSize = MaxValues - ScanSize
      BY Geometry, SMT
    <3>4. e < MaxValues
      BY <1>2, <3>2, <3>3, Geometry, SMT
    <3> QED
      BY <1>2, <3>1, <3>4
  <2>3. scanIndex + valid = MaxScans \/ scanIndex + valid < MaxScans
    BY <1>0, <1>1, Geometry, SMT
  <2> HIDE DEF e
  <2> QED
    BY <2>1, <2>2, <2>3
<1> QED
  BY <1>2, <1>3, <1>5, <1>6

\* What AOutGetScans hands back: whole frames between the tail and the reader.
LEMMA RefilledPlace ==
  ASSUME TypeOK, tail \in FrameStarts
  PROVE  LET s == scanIndex * ScanSize
         IN  \/ RefilledTo = tail /\ Refilled = 0
             \/ /\ tail < RefilledTo /\ RefilledTo <= s
                /\ Refilled = RefilledTo - tail
             \/ /\ s < tail /\ RefilledTo = 0
                /\ Refilled = MaxValues - tail
<1> DEFINE s == scanIndex * ScanSize
<1>0. PICK f \in 0 .. NumFrames - 1 : tail = f * FrameValues
  BY DEF FrameStarts
<1>1. tail \in Nat /\ f \in Nat
  BY Numbers, Geometry, SMT
<1>2. TailFrame = f
  <2>1. tail = (f * FrameSize) * ScanSize
    BY <1>0, <1>1, Geometry, SMT
  <2>2. f * FrameSize \in Nat
    BY <1>1, Geometry, SMT
  <2>3. tail \div ScanSize = f * FrameSize
    BY <2>1, <2>2, Geometry, DivExact
  <2>4. (f * FrameSize) \div FrameSize = f
    BY <1>1, Geometry, DivExact
  <2> QED
    BY <2>3, <2>4 DEF TailFrame
<1>3. /\ scanIndex \in Nat /\ ScanFrame \in Nat
      /\ ScanFrame * FrameSize <= scanIndex
      /\ scanIndex + 1 <= ScanFrame * FrameSize + FrameSize
  <2>1. /\ scanIndex \in Nat
        /\ ScanFrame \in Nat
        /\ ScanFrame * FrameSize <= scanIndex
        /\ scanIndex < ScanFrame * FrameSize + FrameSize
    BY Numbers, Geometry, DivMod DEF ScanFrame
  <2>2. ScanFrame * FrameSize \in Nat
    BY <2>1, Geometry, SMT
  <2> QED
    BY <2>1, <2>2, Geometry
<1>4. ScanFrame * FrameValues <= s /\ ScanFrame * FrameValues \in Nat
  <2>1. (ScanFrame * FrameSize) * ScanSize <= scanIndex * ScanSize
    BY <1>3, Geometry, TimesMonotone
  <2> QED
    BY <1>3, <2>1, Geometry, SMT
<1>5. CASE ScanFrame > f
  <2>1. (f + 1) * FrameValues <= ScanFrame * FrameValues
    BY <1>1, <1>3, <1>5, Geometry, TimesMonotone
  <2>2. (f + 1) * FrameValues = tail + FrameValues
    BY <1>0, <1>1, Geometry, SMT
  <2> QED
    BY <1>1, <1>2, <1>3, <1>4, <1>5, <2>1, <2>2, Geometry DEF RefilledTo, Refilled
<1>6. CASE ScanFrame < f
  <2>1. (scanIndex + 1) * ScanSize <= (ScanFrame * FrameSize + FrameSize) * ScanSize
    BY <1>3, Geometry, TimesMonotone
  <2>2. (ScanFrame * FrameSize + FrameSize) * ScanSize = (ScanFrame + 1) * FrameValues
    BY <1>3, Geometry, SMT
  <2>3. (ScanFrame + 1) * FrameValues <= f * FrameValues
    BY <1>1, <1>3, <1>6, Geometry, TimesMonotone
  <2>4. (scanIndex + 1) * ScanSize = s + ScanSize /\ s \in Nat
    BY <1>3, Geometry, SMT
  <2>5. (ScanFrame + 1) * FrameValues \in Nat
    BY <1>3, Geometry, SMT
  <2>6. s + ScanSize <= tail
    BY <1>0, <1>1, <2>1, <2>2, <2>3, <2>4, <2>5, Geometry
  <2>7. s < tail
    BY <1>1, <2>4, <2>6, Geometry
  <2> QED
    BY <1>2, <1>3, <1>6, <2>7 DEF RefilledTo, Refilled
<1>7. CASE ScanFrame = f
  BY <1>2, <1>7, <1>1 DEF RefilledTo, Refilled
<1> QED
  BY <1>1, <1>3, <1>5, <1>6, <1>7

\* The frames handed back start a frame.
LEMMA RefilledToFrame ==
  ASSUME TypeOK, tail \in FrameStarts
  PROVE  RefilledTo \in FrameStarts
<1>1. ScanFrame \in 0 .. NumFrames - 1
  BY FrameOfScan DEF TypeOK, ScanFrame
<1>2. ScanFrame * FrameValues \in FrameStarts
  BY <1>1, FrameInside
<1>3. 0 \in FrameStarts
  BY FrameInside, Geometry, SMT
<1> QED
  BY <1>2, <1>3 DEF RefilledTo

-----------------------------------------------------------------------------
(* The kinds of steps, as long as no command has failed.                   *)

QuietStep ==
  /\ UNCHANGED <<bufInfo, initialised, refill>>
  /\ SubsysState' = SubsysState \/ SubsysState' \in {"ssConfig", "ssStopped"}

ForgetStep == initialised' = FALSE /\ UNCHANGED <<SubsysState, count, head, tail, scanIndex>>

FillStep ==
  /\ SubsysState' = "ssStandby"
  /\ count' = 0 /\ head' = 0 /\ tail' = 0 /\ scanIndex' = 0
  /\ ~bRecycle => fresh' = Positions
  /\ granted' = {}
  /\ UNCHANGED bRecycle

KeepReader == UNCHANGED <<bRecycle, scanIndex, initialised, granted>>

StartStep ==
  /\ SubsysState = "ssStandby" /\ SubsysState' = "ssRunning" /\ granted = {}
  /\ PutXBuf(StartCount, TRUE) /\ KeepReader

PutStep ==
  /\ SubsysState = "ssRunning" /\ UNCHANGED SubsysState
  /\ ~Finished /\ ~NothingLeft
  /\ PutXBuf(TranSize \div 2, TRUE) /\ KeepReader

\* Nothing that failed is forgotten.
LEMMA NoFault ==
  ASSUME TypeIInv, NEW ok \in BOOLEAN, Outcome(ok), faults' = 0
  PROVE  ok /\ faults = 0
<1>1. faults \in Nat
  BY AOutSwitchAssumption, SMT DEF TypeIInv, TypeOK
<1>2. CASE ok
  BY <1>2 DEF Outcome
<1>3. CASE ~ok
  BY <1>1, <1>3 DEF Outcome
<1> QED
  BY <1>2, <1>3

LEMMA PutSamplesSteps ==
  ASSUME TypeIInv, NEW ok \in BOOLEAN, NEW events, PutSamples(ok, events), InHandler,
         SubsysState = "ssRunning", faults' = 0
  PROVE  faults = 0 /\ (QuietStep \/ PutStep)
<1>1. CASE StopAndDisable(ok, events) /\ KeepRing
  BY <1>1, NoFault DEF StopAndDisable, KeepRing, InHandler, QuietStep, bufInfo, refill
<1>2. CASE KeepRing /\ UNCHANGED <<SubsysState, converting, faults>>
  BY <1>2 DEF KeepRing, InHandler, QuietStep, bufInfo, refill
<1>3. CASE /\ ~Finished /\ ~NothingLeft
           /\ Outcome(ok) /\ PutXBuf(TranSize \div 2, ok)
           /\ UNCHANGED <<SubsysState, bAsyncMode, converting>>
  <2>1. ok /\ faults = 0
    BY <1>3, NoFault
  <2>2. ok = TRUE
    BY <2>1
  <2> QED
    BY <1>3, <2>1, <2>2 DEF PutStep, KeepReader, InHandler
<1> QED
  BY <1>1, <1>2, <1>3 DEF PutSamples, NothingPut

LEMMA Steps ==
  ASSUME TypeIInv, [Next]_vars, faults' = 0
  PROVE  /\ faults = 0
         /\ \/ QuietStep \/ ForgetStep \/ FillStep \/ StartStep \/ PutStep \/ Refill
            \/ \E numScans \in Requests : GetScans(numScans)
<1> DEFINE Kind == \/ QuietStep \/ ForgetStep \/ FillStep \/ StartStep \/ PutStep \/ Refill
                   \/ \E numScans \in Requests : GetScans(numScans)
<1>1. ASSUME NEW mode \in Modes, NEW allocated \in BOOLEAN, RegisterDaqBuffer(mode, allocated)
      PROVE  faults = 0 /\ Kind
  BY <1>1, NoFault DEF RegisterDaqBuffer, ForgetStep
<1>2. CASE UnregisterDaqBuffer
  BY <1>2 DEF UnregisterDaqBuffer, ForgetStep
<1>3. ASSUME NEW ok \in BOOLEAN, NEW regen \in BOOLEAN, NEW check \in Checks, AsyncInit(ok, regen, check)
      PROVE  faults = 0 /\ Kind
  BY <1>3, NoFault DEF AsyncInit, FillStep
<1>4. ASSUME NEW ok \in BOOLEAN, NEW enabled \in BOOLEAN, AsyncStart(ok, enabled)
      PROVE  faults = 0 /\ Kind
  <2>1. (ok /\ enabled) /\ faults = 0
    BY <1>4, NoFault, (ok /\ enabled) \in BOOLEAN DEF AsyncStart
  <2>2. ok = TRUE
    BY <2>1
  <2>3. StartStep
    BY <1>4, <2>2 DEF AsyncStart, StartStep, KeepReader
  <2> QED
    BY <2>1, <2>3
<1>5. ASSUME NEW ok \in BOOLEAN, AsyncStop(ok) \/ AsyncTerm(ok)
      PROVE  faults = 0 /\ Kind
  BY <1>5, NoFault DEF AsyncStop, AsyncTerm, QuietStep
<1>6. CASE AsyncInitUnregistered \/ AsyncStopIdle \/ Reset \/ SetConfig
  BY <1>6 DEF AsyncInitUnregistered, AsyncStopIdle, Reset, SetConfig, QuietStep
<1>7. CASE Refill
  BY <1>7 DEF Refill
<1>8. ASSUME NEW numScans \in Requests, GetScans(numScans)
      PROVE  faults = 0 /\ Kind
  BY <1>8 DEF GetScans
<1>9. ASSUME NEW ok \in BOOLEAN, ProcessHalfDone(ok)
      PROVE  faults = 0 /\ Kind
  <2>1. InHandler
    BY <1>9 DEF ProcessHalfDone, ReadBoardStatus
  <2>2. CASE SubsysState = "ssRunning" /\ PutSamples(ok, {})
    BY <2>1, <2>2, PutSamplesSteps
  <2>3. CASE NothingPut
    BY <2>1, <2>3 DEF NothingPut, KeepRing, InHandler, QuietStep, bufInfo, refill
  <2> QED
    BY <1>9, <2>2, <2>3 DEF ProcessHalfDone
<1>10. ASSUME NEW ok \in BOOLEAN, ProcessBufDone(ok)
       PROVE  faults = 0 /\ Kind
  <2>1. InHandler
    BY <1>10 DEF ProcessBufDone, At
  <2>2. CASE SubsysState = "ssRunning" /\ PutSamples(ok, eventsNew \cup FifoErrorEvents)
    BY <2>1, <2>2, PutSamplesSteps
  <2>3. CASE NothingPut
    BY <2>1, <2>3 DEF NothingPut, KeepRing, InHandler, QuietStep, bufInfo, refill
  <2> QED
    BY <1>10, <2>2, <2>3 DEF ProcessBufDone
<1>11. ASSUME NEW ok \in BOOLEAN, ProcessUndRunErr(ok)
       PROVE  faults = 0 /\ Kind
  <2>1. InHandler /\ KeepRing
    BY <1>11 DEF ProcessUndRunErr, At
  <2>2. CASE StopAndDisable(ok, eventsNew \cup {"eBufferError"})
    BY <2>1, <2>2, NoFault DEF StopAndDisable, KeepRing, InHandler, QuietStep, bufInfo, refill
  <2>3. CASE UNCHANGED <<SubsysState, faults>>
    BY <2>1, <2>3 DEF KeepRing, InHandler, QuietStep, bufInfo, refill
  <2> QED
    BY <1>11, <2>2, <2>3 DEF ProcessUndRunErr
<1>12. CASE ProcessOldWay \/ NotifyUserEvents
  BY <1>12 DEF ProcessOldWay, NotifyUserEvents, At, NothingPut, KeepRing, InHandler, QuietStep,
               bufInfo, refill
<1>13. CASE Play \/ UNCHANGED vars
  BY <1>13 DEF Play, vars, QuietStep
<1> QED
  BY <1>1, <1>2, <1>3, <1>4, <1>5, <1>6, <1>7, <1>8, <1>9, <1>10, <1>11, <1>12, <1>13
     DEF Next, Application, ServeBoard, Serve

-----------------------------------------------------------------------------
(* The queue.                                                              *)

\* AOutGetScans moves the reader within the queue, and hands back at most the
\* values before it.
LEMMA GetScansKeepsQueue ==
  ASSUME TypeIInv, QueueOK, TailOnFrame, initialised, ~bRecycle, faults = 0,
         NEW numScans \in Requests, GetScans(numScans)
  PROVE  QueueOK' /\ tail' \in FrameStarts /\ count' = count - Refilled
<1> DEFINE s == scanIndex * ScanSize
           e == (scanIndex + ValidScans(numScans)) * ScanSize
           s2 == scanIndex' * ScanSize
<1>0. /\ head \in Nat /\ head < MaxValues
      /\ tail \in Nat /\ tail < MaxValues
      /\ count \in Nat /\ count < Word
      /\ MaxValues \in Nat \ {0} /\ Word \in Nat \ {0} /\ MaxValues < Word
      /\ TypeOK /\ numScans \in Nat /\ tail \in FrameStarts
  BY Numbers, Geometry, AOutSwitchAssumption DEF TypeIInv, TailOnFrame
<1>1. /\ s \in Nat /\ s < MaxValues
      /\ e \in Nat /\ s <= e /\ e <= MaxValues
      /\ \/ e = s
         \/ s < head /\ e <= head
         \/ head < s
      /\ s2 = IF e = MaxValues THEN 0 ELSE e
  BY <1>0, ScansPlace DEF GetScans
<1>2. \/ RefilledTo = tail /\ Refilled = 0
      \/ /\ tail < RefilledTo /\ RefilledTo <= s
         /\ Refilled = RefilledTo - tail
      \/ /\ s < tail /\ RefilledTo = 0
         /\ Refilled = MaxValues - tail
  BY <1>0, RefilledPlace
<1>3. RefilledTo \in Nat
  BY <1>0, RefilledType DEF Positions
<1>4. /\ count = Distance(tail, head) \/ (count = MaxValues /\ head = tail)
      /\ Distance(tail, s) <= count
  BY DEF QueueOK
<1> HIDE DEF s, e, s2
<1>5. count - Refilled \in Nat /\ count - Refilled < Word
  BY <1>0, <1>1, <1>2, <1>3, <1>4, SMT DEF Distance
<1>6. count' = count - Refilled /\ head' = head /\ tail' = RefilledTo
  BY <1>0, <1>5, ModSmall DEF GetScans
<1>7. \/ count - Refilled = Distance(RefilledTo, head)
      \/ count - Refilled = MaxValues /\ head = RefilledTo
  BY <1>0, <1>1, <1>2, <1>3, <1>4, SMT DEF Distance
<1>8. Distance(RefilledTo, s2) <= count - Refilled
  BY <1>0, <1>1, <1>2, <1>3, <1>4, SMT DEF Distance
<1>9. QueueOK'
  BY <1>6, <1>7, <1>8 DEF QueueOK, Distance, s2
<1> QED
  BY <1>0, <1>6, <1>9, RefilledToFrame

LEMMA NextKeepsQueue == QueueIInv /\ [Next]_vars => QueueIInv'
<1> SUFFICES ASSUME QueueIInv, [Next]_vars PROVE QueueIInv'
  OBVIOUS
<1>0. TypeIInv /\ QueueOK /\ StandbyIsFull /\ TailOnFrame /\ TypeIInv'
  BY NextTypes DEF QueueIInv
<1>1. CASE faults' # 0
  BY <1>0, <1>1 DEF QueueIInv, QueueOK, StandbyIsFull, TailOnFrame
<1>2. CASE faults' = 0
  <2>0. 0 * ScanSize = 0 /\ 0 \in FrameStarts /\ MaxValues # 0
    BY FrameInside, Geometry, SMT
  <2>1. CASE QuietStep
    BY <1>0, <1>2, <2>1, Steps
       DEF QuietStep, QueueIInv, QueueOK, StandbyIsFull, TailOnFrame, bufInfo, Distance
  <2>2. CASE ForgetStep
    BY <1>0, <1>2, <2>2, Steps
       DEF ForgetStep, QueueIInv, QueueOK, StandbyIsFull, TailOnFrame
  <2>3. CASE FillStep
    BY <1>0, <2>0, <2>3
       DEF FillStep, QueueIInv, QueueOK, StandbyIsFull, TailOnFrame, Distance
  <2>4. CASE StartStep
    <3>1. count # MaxValues
      BY <1>0, <1>2, <2>0, <2>4, Steps DEF StandbyIsFull, StartStep
    <3>2. StartCount \in Nat
      BY AOutTransferAssumption, Geometry, SMT DEF StartCount
    <3>3. initialised /\ ~bRecycle => QueueOK'
      BY <1>0, <1>2, <2>4, <3>1, <3>2, Steps, PutKeepsQueue DEF StartStep, KeepReader
    <3>4. ~bRecycle => tail' = tail
      BY <2>4 DEF StartStep, PutXBuf, PutWords
    <3> QED
      BY <1>0, <1>2, <2>4, <3>3, <3>4, Steps
         DEF StartStep, KeepReader, QueueIInv, QueueOK, StandbyIsFull, TailOnFrame
  <2>5. CASE PutStep
    <3>1. initialised /\ ~bRecycle => count # MaxValues
      <4> SUFFICES ASSUME initialised, ~bRecycle PROVE count # MaxValues
        OBVIOUS
      <4>1. /\ head \in Nat /\ head < MaxValues /\ tail \in Nat /\ tail < MaxValues
            /\ count \in Nat /\ MaxValues \in Nat
        BY <1>0, Numbers, Geometry DEF TypeIInv
      <4>2. ~(count >= MaxValues) \/ head # tail
        BY <2>5 DEF PutStep, Finished, NothingLeft, Queued
      <4>3. count = Distance(tail, head) \/ (count = MaxValues /\ head = tail)
        BY <1>0, <1>2, Steps DEF QueueOK
      <4> QED
        BY <4>1, <4>2, <4>3, SMT DEF Distance
    <3>2. TranSize \div 2 \in Nat
      BY AOutTransferAssumption, SMT
    <3>3. initialised /\ ~bRecycle => QueueOK'
      BY <1>0, <1>2, <2>5, <3>1, <3>2, Steps, PutKeepsQueue DEF PutStep, KeepReader
    <3>4. ~bRecycle => tail' = tail
      BY <2>5 DEF PutStep, PutXBuf, PutWords
    <3> QED
      BY <1>0, <1>2, <2>5, <3>3, <3>4, Steps
         DEF PutStep, KeepReader, QueueIInv, QueueOK, StandbyIsFull, TailOnFrame
  <2>6. CASE Refill
    BY <1>0, <2>6
       DEF Refill, QueueIInv, QueueOK, StandbyIsFull, TailOnFrame, bufInfo, Distance
  <2>7. ASSUME NEW numScans \in Requests, GetScans(numScans)
        PROVE  QueueIInv'
    <3>1. faults = 0 /\ UNCHANGED <<initialised, bRecycle, SubsysState, head>>
      BY <1>2, <2>7 DEF GetScans
    <3>2. initialised /\ ~bRecycle => QueueOK' /\ tail' \in FrameStarts
      BY <1>0, <2>7, <3>1, GetScansKeepsQueue
    <3>3. StandbyIsFull'
      <4> SUFFICES ASSUME SubsysState = "ssStandby"
                   PROVE  count' = 0 /\ tail' = 0 /\ scanIndex' = 0 /\ head = 0
        BY <3>1 DEF StandbyIsFull
      <4>1. count = 0 /\ head = 0 /\ tail = 0 /\ scanIndex = 0
        BY <1>0, <3>1 DEF StandbyIsFull
      <4>2. 0 \div ScanSize = 0 /\ 0 \div FrameSize = 0
        BY Geometry, DivExact, SMT
      <4>3. HeadScan = 0 /\ AvailScans = 0 /\ ScanFrame = 0 /\ TailFrame = 0
        BY <4>1, <4>2 DEF HeadScan, AvailScans, ScanFrame, TailFrame
      <4>4. RefilledTo = 0 /\ Refilled = 0
        BY <4>1, <4>3 DEF RefilledTo, Refilled
      <4>5. ValidScans(numScans) = 0
        BY <4>3, AOutSwitchAssumption, SMT DEF ValidScans, Least
      <4>6. ScanIndexAfter(numScans) = 0
        BY <4>1, <4>5, Geometry, ModSmall DEF ScanIndexAfter
      <4>7. (0 - 0) % Word = 0
        BY <1>0, Numbers, ModSmall DEF TypeIInv
      <4> QED
        BY <2>7, <4>1, <4>4, <4>6, <4>7 DEF GetScans
    <3> QED
      BY <1>0, <3>1, <3>2, <3>3 DEF QueueIInv, QueueOK, TailOnFrame
  <2> QED
    BY <1>0, <1>2, <2>1, <2>2, <2>3, <2>4, <2>5, <2>6, <2>7, Steps
<1> QED
  BY <1>1, <1>2

LEMMA InitQueue == Init => QueueIInv
BY InitTypes DEF Init, QueueIInv, QueueOK, StandbyIsFull, TailOnFrame

\* In the modes that do not recycle, whatever the geometry, the sizes of the
\* blocks and the interleaving: count is the number of values put and not handed
\* back, and the reader of AOutGetScans is among them.
THEOREM OutputQueueCorrect == Spec => []QueueOK
<1>1. QueueIInv => QueueOK
  BY DEF QueueIInv
<1> QED
  BY <1>1, InitQueue, NextKeepsQueue, PTL DEF Spec

-----------------------------------------------------------------------------
(* What is pending, and what the application has refilled.                 *)

\* The reader's place, in values.
ReaderAt == scanIndex * ScanSize

\* In a running output all that is pending is fresh, what is being refilled is
\* not pending, and what the application was given and has not handed back is
\* fresh, except for what it is refilling.
RunningIsFresh ==
  initialised /\ ~bRecycle /\ faults = 0 /\ SubsysState = "ssRunning" =>
    /\ Pending \subseteq fresh
    /\ granted \cap Pending = {}
    /\ Between(tail, ReaderAt) \subseteq fresh \cup granted

StandbyIsFresh ==
  initialised /\ ~bRecycle /\ faults = 0 /\ SubsysState = "ssStandby" =>
    fresh = Positions /\ granted = {}

RefillIInv == QueueIInv /\ RunningIsFresh /\ StandbyIsFresh

LEMMA DistanceRange ==
  ASSUME NEW a \in Positions, NEW b \in Positions
  PROVE  Distance(a, b) \in Nat /\ Distance(a, b) < MaxValues
BY Geometry, SMT DEF Distance, Positions

\* The values pending with the head at h, the tail at t and the count c.
PendingSet(h, t, c) == IF h # t THEN Between(h, t) ELSE IF c = 0 THEN Positions ELSE {}

\* They are the next MaxValues - c from the head on.
LEMMA PendingIs ==
  ASSUME NEW h \in Positions, NEW t \in Positions, NEW c \in Nat, IsQueue(h, t, c),
         NEW p \in Positions
  PROVE  p \in PendingSet(h, t, c) <=> Distance(h, p) < MaxValues - c
<1>0. h \in Nat /\ h < MaxValues /\ t \in Nat /\ t < MaxValues /\ MaxValues \in Nat
  BY Geometry, SMT DEF Positions
<1>1. Distance(h, p) \in Nat /\ Distance(h, p) < MaxValues
  BY DistanceRange
<1>2. CASE h # t
  <2>1. Distance(h, t) = MaxValues - c
    BY <1>0, <1>2, SMT DEF IsQueue, Distance
  <2>2. PendingSet(h, t, c) = Between(h, t)
    BY <1>2 DEF PendingSet
  <2> QED
    BY <2>1, <2>2 DEF Between
<1>3. CASE h = t /\ c = 0
  <2>1. PendingSet(h, t, c) = Positions
    BY <1>3 DEF PendingSet
  <2> QED
    BY <1>0, <1>1, <1>3, <2>1
<1>4. CASE h = t /\ c # 0
  <2>1. PendingSet(h, t, c) = {}
    BY <1>4 DEF PendingSet
  <2>2. c = MaxValues
    BY <1>0, <1>4, SMT DEF IsQueue, Distance
  <2> QED
    BY <1>0, <1>1, <2>1, <2>2
<1> QED
  BY <1>2, <1>3, <1>4

\* A value that is put is no longer pending: the next ones are counted from the
\* new head on.
LEMMA NotPutYet ==
  ASSUME NEW h \in Positions, NEW h2 \in Positions, NEW c \in Nat, NEW w \in Nat,
         c + w <= MaxValues, NEW p \in Positions,
         h2 = IF h + w >= MaxValues THEN h + w - MaxValues ELSE h + w,
         Distance(h2, p) < MaxValues - (c + w)
  PROVE  w <= Distance(h, p) /\ Distance(h, p) < MaxValues - c
BY Geometry, SMT DEF Distance, Positions

\* The distance of the d-th position from the head on.
LEMMA StepsAway ==
  ASSUME NEW h \in Positions, NEW d \in Nat, d < MaxValues
  PROVE  (h + d) % MaxValues \in Positions /\ Distance(h, (h + d) % MaxValues) = d
<1>0. h \in Nat /\ h < MaxValues /\ MaxValues \in Nat \ {0}
  BY Geometry, SMT DEF Positions
<1>1. CASE h + d < MaxValues
  <2>1. (h + d) % MaxValues = h + d
    BY <1>0, <1>1, ModSmall, h + d \in Nat
  <2> QED
    BY <1>0, <1>1, <2>1, SMT DEF Distance, Positions
<1>2. CASE h + d >= MaxValues
  <2>1. (h + d) % MaxValues = h + d - MaxValues
    BY <1>0, <1>2, SMT
  <2> QED
    BY <1>0, <1>2, <2>1, SMT DEF Distance, Positions
<1> QED
  BY <1>0, <1>1, <1>2

\* And back: a position is as many steps from the head on as its distance says.
LEMMA StepsTo ==
  ASSUME NEW h \in Positions, NEW p \in Positions
  PROVE  p = (h + Distance(h, p)) % MaxValues
<1>1. p \in Nat /\ p < MaxValues /\ h \in Nat /\ h < MaxValues /\ MaxValues \in Nat \ {0}
  BY Geometry, SMT DEF Positions
<1>2. CASE p >= h
  <2>1. h + Distance(h, p) = p
    BY <1>1, <1>2, SMT DEF Distance
  <2> QED
    BY <1>1, <2>1, ModSmall
<1>3. CASE p < h
  <2>1. h + Distance(h, p) = p + MaxValues
    BY <1>1, <1>3, SMT DEF Distance
  <2>2. (p + MaxValues) % MaxValues = p % MaxValues
    BY <1>1, ModShift, p \in Int
  <2> QED
    BY <1>1, <2>1, <2>2, ModSmall
<1> QED
  BY <1>1, <1>2, <1>3

\* What a put does to the ring: w of the values still to be put go out.
PutNumbers(w) ==
  /\ w \in Nat /\ w <= MaxValues /\ count + w <= MaxValues
  /\ head' = IF head + w >= MaxValues THEN head + w - MaxValues ELSE head + w
  /\ head' \in Positions /\ tail' = tail
  /\ count' = count + w /\ IsQueue(head', tail, count + w)
  /\ fresh' = fresh \ {(head + d) % MaxValues : d \in 0 .. w - 1}

LEMMA PutIsInRing ==
  ASSUME TypeIInv, QueueOK, initialised, ~bRecycle, faults = 0, count # MaxValues,
         NEW n \in Nat, PutXBuf(n, TRUE), UNCHANGED <<scanIndex, initialised, bRecycle, faults>>
  PROVE  \E w \in Nat : PutNumbers(w)
<1> DEFINE words == Taken(n)
           w == words * Adj
<1>0. /\ head \in Positions /\ tail \in Positions /\ TypeOK
      /\ head \in Nat /\ head < MaxValues /\ tail \in Nat /\ tail < MaxValues
      /\ count \in Nat /\ count < Word /\ MaxValues \in Nat /\ MaxValues < Word /\ Word \in Nat \ {0}
      /\ IsQueue(head, tail, count)
  BY Numbers, Geometry DEF TypeIInv, TypeOK, QueueOK, IsQueue
<1>1. words \in 0 .. XFerSize(n) /\ PutWords(n, words, words)
  BY BlockSizes DEF PutXBuf
<1>2. w \in 0 .. NumToCopy(n) /\ NumToCopy(n) \in 0 .. AvlSamples /\ AvlSamples \in 0 .. MaxValues
  BY <1>1, HeadPlace, BlockSizes
<1>3. /\ head' = IF head + w >= MaxValues THEN head + w - MaxValues ELSE head + w
      /\ tail' = tail
      /\ count' = (count + w) % Word
      /\ fresh' = fresh \ {(head + d) % MaxValues : d \in 0 .. w - 1}
  BY <1>1 DEF PutWords, HeadAfter
<1> HIDE DEF w, words
<1>4. w \in Nat /\ w <= MaxValues /\ w <= IF head >= tail THEN MaxValues - head + tail ELSE tail - head
  BY <1>0, <1>2, SMT DEF AvlSamples
<1>5. head \in 0 .. MaxValues - 1 /\ tail \in 0 .. MaxValues - 1
  BY <1>0, SMT
<1>6. count + w <= MaxValues
  BY <1>0, <1>4, <1>5, PutQueue
<1>7. count' = count + w
  <2>1. count + w \in Nat /\ count + w < Word
    BY <1>0, <1>4, <1>6, SMT
  <2> QED
    BY <1>0, <1>3, <2>1, ModSmall
<1>8. head' \in Positions
  BY PutTypes
<1>9. IsQueue(head', tail, count + w)
  BY <1>0, <1>3, <1>4, <1>5, PutQueue
<1> QED
  BY <1>3, <1>4, <1>6, <1>7, <1>8, <1>9 DEF PutNumbers

\* A put takes from the pending values those it makes stale.
LEMMA PutKeepsFresh ==
  ASSUME TypeIInv, QueueOK, initialised, ~bRecycle, faults = 0, count # MaxValues,
         NEW n \in Nat, PutXBuf(n, TRUE), UNCHANGED <<scanIndex, initialised, bRecycle, faults>>,
         Pending \subseteq fresh
  PROVE  Pending' \subseteq fresh' /\ Pending' \subseteq Pending
         /\ (\A p \in fresh \ fresh' : p \in Pending) /\ tail' = tail
<1>0. /\ head \in Positions /\ tail \in Positions
      /\ head \in Nat /\ head < MaxValues /\ tail \in Nat /\ tail < MaxValues
      /\ count \in Nat /\ MaxValues \in Nat
      /\ IsQueue(head, tail, count)
  BY Numbers, Geometry DEF TypeIInv, TypeOK, QueueOK, IsQueue
<1>1. PICK w \in Nat : PutNumbers(w)
  BY PutIsInRing
<1>3. /\ head' = IF head + w >= MaxValues THEN head + w - MaxValues ELSE head + w
      /\ tail' = tail
      /\ fresh' = fresh \ {(head + d) % MaxValues : d \in 0 .. w - 1}
  BY <1>1 DEF PutNumbers
<1>4. w \in Nat /\ w <= MaxValues
  BY <1>1 DEF PutNumbers
<1>5. count + w <= MaxValues
  BY <1>1 DEF PutNumbers
<1>6. count' = count + w
  BY <1>1 DEF PutNumbers
<1>7. head' \in Positions /\ IsQueue(head', tail, count + w)
  BY <1>1 DEF PutNumbers
<1>8. /\ Pending = PendingSet(head, tail, count)
      /\ Pending' = PendingSet(head', tail, count + w)
  BY <1>3, <1>6 DEF Pending, PendingSet, Between, Distance
<1>9. ASSUME NEW p \in Pending'
      PROVE  p \in Pending /\ w <= Distance(head, p)
  <2>1. p \in Positions
    BY <1>8 DEF PendingSet, Between
  <2>2. Distance(head', p) < MaxValues - (count + w)
    BY <1>0, <1>4, <1>7, <1>8, <2>1, PendingIs, count + w \in Nat
  <2>3. w <= Distance(head, p) /\ Distance(head, p) < MaxValues - count
    BY <1>0, <1>3, <1>4, <1>5, <1>7, <2>1, <2>2, NotPutYet
  <2> QED
    BY <1>0, <1>8, <2>1, <2>3, PendingIs
<1>10. ASSUME NEW d \in 0 .. w - 1
       PROVE  /\ (head + d) % MaxValues \in Pending
              /\ Distance(head, (head + d) % MaxValues) < w
  <2>1. d \in Nat /\ d < w /\ d < MaxValues /\ d < MaxValues - count
    BY <1>0, <1>4, <1>5, SMT
  <2>2. (head + d) % MaxValues \in Positions /\ Distance(head, (head + d) % MaxValues) = d
    BY <1>0, <2>1, StepsAway
  <2> QED
    BY <1>0, <1>8, <2>1, <2>2, PendingIs
<1>11. Pending' \subseteq fresh'
  <2> SUFFICES ASSUME NEW p \in Pending' PROVE p \in fresh'
    OBVIOUS
  <2>1. p \in fresh /\ w <= Distance(head, p)
    BY <1>9
  <2>2. p \in Positions
    BY <1>8 DEF PendingSet, Between
  <2>3. Distance(head, p) \in Nat
    BY <1>0, <2>2, DistanceRange
  <2>4. ASSUME NEW d \in 0 .. w - 1, p = (head + d) % MaxValues PROVE FALSE
    <3>1. Distance(head, p) < w
      BY <1>10, <2>4
    <3> QED
      BY <1>4, <2>1, <2>3, <3>1
  <2> QED
    BY <1>3, <2>1, <2>4
<1>12. \A p \in fresh \ fresh' : p \in Pending
  BY <1>3, <1>10
<1> QED
  BY <1>3, <1>9, <1>11, <1>12

\* What lies less than the count beyond the tail is not pending, and the rest is.
LEMMA PutIsNotPending ==
  ASSUME NEW h \in Positions, NEW t \in Positions, NEW c \in Nat, IsQueue(h, t, c),
         NEW p \in Positions
  PROVE  Distance(t, p) < c <=> ~(Distance(h, p) < MaxValues - c)
BY Geometry, SMT DEF IsQueue, Distance, Positions

\* In numbers, what AOutGetScans does: the queue t, c becomes t2, c2 with the
\* same head h; the reader moves from s to s2, past the values s .. e - 1.
GetNumbers(h, t, c, t2, c2, s, e, s2) ==
  /\ h \in Nat /\ h < MaxValues /\ t \in Nat /\ t < MaxValues /\ t2 \in Nat /\ t2 < MaxValues
  /\ c \in Nat /\ c2 \in Nat /\ c <= MaxValues
  /\ IsQueue(h, t, c) /\ IsQueue(h, t2, c2)
  /\ s \in Nat /\ s < MaxValues /\ e \in Nat /\ s <= e /\ e <= MaxValues
  /\ e = s \/ (s < h /\ e <= h) \/ h < s
  /\ s2 = IF e = MaxValues THEN 0 ELSE e
  /\ Distance(t, s) <= c /\ Distance(t2, s) <= c2
  /\ \/ t2 = t /\ c2 = c
     \/ t < t2 /\ t2 <= s /\ c2 = c - (t2 - t)
     \/ s < t /\ t2 = 0 /\ c2 = c - (MaxValues - t)

\* What was handed back lay before the reader.
LEMMA HandedBack ==
  ASSUME NEW h, NEW t, NEW c, NEW t2, NEW c2, NEW s, NEW e, NEW s2,
         GetNumbers(h, t, c, t2, c2, s, e, s2), NEW p \in Positions,
         Distance(t, p) < c, ~(Distance(t2, p) < c2)
  PROVE  Distance(t, p) < Distance(t, s)
BY Geometry, SMTT(60) DEF GetNumbers, IsQueue, Distance, Positions

\* What is granted was put.
LEMMA GrantedWasPut ==
  ASSUME NEW h, NEW t, NEW c, NEW t2, NEW c2, NEW s, NEW e, NEW s2,
         GetNumbers(h, t, c, t2, c2, s, e, s2), NEW p \in Positions,
         s <= p, p < e
  PROVE  Distance(t2, p) < c2
BY Geometry, SMTT(60) DEF GetNumbers, IsQueue, Distance, Positions

\* What lies before the new reader lay before the old one, or is granted.
LEMMA BeforeReader ==
  ASSUME NEW h, NEW t, NEW c, NEW t2, NEW c2, NEW s, NEW e, NEW s2,
         GetNumbers(h, t, c, t2, c2, s, e, s2), NEW p \in Positions,
         Distance(t2, p) < Distance(t2, s2), ~(s <= p /\ p < e)
  PROVE  Distance(t, p) < Distance(t, s)
BY Geometry, SMTT(60) DEF GetNumbers, IsQueue, Distance, Positions

\* The reader stays within the queue when values before it are handed back.
LEMMA StaysBefore ==
  ASSUME NEW t \in Nat, NEW c \in Nat, NEW t2 \in Nat, NEW c2 \in Nat, NEW s \in Nat,
         t < MaxValues, s < MaxValues, Distance(t, s) <= c,
         \/ t2 = t /\ c2 = c
         \/ t < t2 /\ t2 <= s /\ c2 = c - (t2 - t)
         \/ s < t /\ t2 = 0 /\ c2 = c - (MaxValues - t)
  PROVE  Distance(t2, s) <= c2
BY Geometry, SMT DEF Distance

LEMMA GetScansKeepsFresh ==
  ASSUME QueueIInv, RunningIsFresh, initialised, ~bRecycle, faults = 0, SubsysState = "ssRunning",
         NEW numScans \in Requests, GetScans(numScans)
  PROVE  /\ Pending' \subseteq fresh'
         /\ granted' \cap Pending' = {}
         /\ Between(tail', ReaderAt') \subseteq fresh' \cup granted'
<1> DEFINE s == scanIndex * ScanSize
           e == (scanIndex + ValidScans(numScans)) * ScanSize
           s2 == scanIndex' * ScanSize
<1>0. /\ TypeIInv /\ QueueOK /\ TailOnFrame /\ TypeOK /\ TypeIInv' /\ numScans \in Nat
      /\ head \in Positions /\ tail \in Positions /\ tail \in FrameStarts
      /\ head \in Nat /\ head < MaxValues /\ tail \in Nat /\ tail < MaxValues
      /\ count \in Nat /\ MaxValues \in Nat
  BY NextTypes, Numbers, Geometry, AOutSwitchAssumption
     DEF QueueIInv, TypeIInv, TypeOK, TailOnFrame, Next, Application
<1>1. /\ QueueOK' /\ tail' = RefilledTo /\ count' = count - Refilled
      /\ head' = head /\ fresh' = fresh /\ granted = {} /\ granted' = s .. e - 1
      /\ initialised' /\ ~bRecycle' /\ faults' = 0
  BY <1>0, GetScansKeepsQueue DEF GetScans, Offered
<1>2. /\ s \in Nat /\ s < MaxValues
      /\ e \in Nat /\ s <= e /\ e <= MaxValues
      /\ e = s \/ (s < head /\ e <= head) \/ head < s
      /\ s2 = IF e = MaxValues THEN 0 ELSE e
  BY <1>0, ScansPlace DEF GetScans
<1>3. \/ RefilledTo = tail /\ Refilled = 0
      \/ /\ tail < RefilledTo /\ RefilledTo <= s
         /\ Refilled = RefilledTo - tail
      \/ /\ s < tail /\ RefilledTo = 0
         /\ Refilled = MaxValues - tail
  BY <1>0, RefilledPlace
<1>4. /\ IsQueue(head, tail, count) /\ Distance(tail, s) <= count
      /\ IsQueue(head, tail', count') /\ s = ReaderAt /\ s2 = ReaderAt'
  BY <1>0, <1>1 DEF QueueOK, IsQueue, Distance, ReaderAt
<1>5. tail' \in Positions /\ count' \in Nat /\ tail' \in Nat /\ tail' < MaxValues
  <2>1. TypeOK'
    BY <1>0 DEF TypeIInv
  <2>2. tail' \in Positions /\ count' \in 0 .. Word - 1
    BY <2>1 DEF TypeOK
  <2> QED
    BY <1>0, <2>2, Numbers, SMT DEF Positions
<1>6. granted' \subseteq Positions
  BY <1>0, OfferedPlace DEF GetScans
<1> HIDE DEF s, e, s2
<1>7. GetNumbers(head, tail, count, tail', count', s, e, s2)
  <2>1. count <= MaxValues
    BY <1>0, <1>4, SMT DEF IsQueue, Distance
  <2>2. \/ tail' = tail /\ count' = count
        \/ tail < tail' /\ tail' <= s /\ count' = count - (tail' - tail)
        \/ s < tail /\ tail' = 0 /\ count' = count - (MaxValues - tail)
    BY <1>0, <1>1, <1>3
  <2>3. Distance(tail', s) <= count'
    BY <1>0, <1>2, <1>4, <1>5, <2>1, <2>2, StaysBefore
  <2> QED
    BY <1>0, <1>2, <1>4, <1>5, <2>1, <2>2, <2>3 DEF GetNumbers
<1>8. /\ Pending = PendingSet(head, tail, count)
      /\ Pending' = PendingSet(head, tail', count')
      /\ Between(tail, ReaderAt) \subseteq fresh /\ Pending \subseteq fresh
  BY <1>1 DEF Pending, PendingSet, Between, Distance, RunningIsFresh
<1>9. \A p \in Positions : p \in Pending <=> ~(Distance(tail, p) < count)
  BY <1>0, <1>4, <1>8, PendingIs, PutIsNotPending
<1>10. \A p \in Positions : p \in Pending' <=> ~(Distance(tail', p) < count')
  BY <1>0, <1>4, <1>5, <1>8, PendingIs, PutIsNotPending
<1>11. Pending' \subseteq fresh'
  <2> SUFFICES ASSUME NEW p \in Pending' PROVE p \in fresh
    BY <1>1
  <2>1. p \in Positions
    BY <1>8 DEF PendingSet, Between
  <2>2. CASE p \in Pending
    BY <1>8, <2>2
  <2>3. CASE p \notin Pending
    <3>1. Distance(tail, p) < count /\ ~(Distance(tail', p) < count')
      BY <1>9, <1>10, <2>1, <2>3
    <3>2. Distance(tail, p) < Distance(tail, s)
      BY <1>7, <2>1, <3>1, HandedBack
    <3>3. p \in Between(tail, ReaderAt)
      BY <1>4, <2>1, <3>2 DEF Between
    <3> QED
      BY <1>8, <3>3
  <2> QED
    BY <2>2, <2>3
<1>12. granted' \cap Pending' = {}
  <2> SUFFICES ASSUME NEW p \in granted', p \in Pending' PROVE FALSE
    OBVIOUS
  <2>1. p \in Positions /\ s <= p /\ p < e
    BY <1>1, <1>2, <1>6
  <2>2. Distance(tail', p) < count'
    BY <1>7, <2>1, GrantedWasPut
  <2> QED
    BY <1>10, <2>1, <2>2
<1>13. Between(tail', ReaderAt') \subseteq fresh' \cup granted'
  <2> SUFFICES ASSUME NEW p \in Positions, Distance(tail', p) < Distance(tail', s2), p \notin granted'
               PROVE  p \in fresh
    <3>1. Between(tail', ReaderAt') = {p \in Positions : Distance(tail', p) < Distance(tail', s2)}
      BY <1>4 DEF Between
    <3> QED
      BY <1>1, <3>1
  <2>1. ~(s <= p /\ p < e)
    <3>1. p \in Nat
      BY DEF Positions
    <3> QED
      BY <1>1, <1>2, <3>1
  <2>2. Distance(tail, p) < Distance(tail, s)
    BY <1>7, <2>1, BeforeReader
  <2> QED
    BY <1>4, <1>8, <2>2 DEF Between
<1> QED
  BY <1>11, <1>12, <1>13

LEMMA NextKeepsFresh == RefillIInv /\ [Next]_vars => RefillIInv'
<1> SUFFICES ASSUME RefillIInv, [Next]_vars PROVE RunningIsFresh' /\ StandbyIsFresh'
  BY NextKeepsQueue DEF RefillIInv
<1>0. QueueIInv /\ RunningIsFresh /\ StandbyIsFresh /\ TypeIInv /\ TypeIInv' /\ QueueOK /\ StandbyIsFull
  BY NextTypes DEF RefillIInv, QueueIInv
<1>1. CASE faults' # 0
  BY <1>1 DEF RunningIsFresh, StandbyIsFresh
<1>2. CASE faults' = 0
  <2>0. faults = 0 /\ MaxValues # 0
    BY <1>0, <1>2, Steps, Geometry
  <2>1. CASE QuietStep
    <3>1. /\ UNCHANGED <<bufInfo, initialised, refill>>
          /\ Pending' = Pending /\ ReaderAt' = ReaderAt
          /\ Between(tail', ReaderAt') = Between(tail, ReaderAt)
      BY <2>1 DEF QuietStep, bufInfo, Pending, Between, Distance, ReaderAt
    <3> QED
      BY <1>0, <2>0, <2>1, <3>1
         DEF QuietStep, RunningIsFresh, StandbyIsFresh, bufInfo, refill
  <2>2. CASE ForgetStep
    BY <2>2 DEF ForgetStep, RunningIsFresh, StandbyIsFresh
  <2>3. CASE FillStep
    BY <2>3 DEF FillStep, RunningIsFresh, StandbyIsFresh
  <2>4. CASE StartStep \/ PutStep
    <3> SUFFICES ASSUME initialised', ~bRecycle'
                 PROVE  /\ SubsysState' = "ssRunning"
                        /\ Pending' \subseteq fresh'
                        /\ granted' \cap Pending' = {}
                        /\ Between(tail', ReaderAt') \subseteq fresh' \cup granted'
      BY <2>4 DEF RunningIsFresh, StandbyIsFresh, StartStep, PutStep
    <3>0. KeepReader /\ initialised /\ ~bRecycle /\ SubsysState' = "ssRunning" /\ faults' = faults
      <4>1. KeepReader /\ SubsysState' = "ssRunning"
        BY <2>4 DEF StartStep, PutStep
      <4>2. initialised /\ ~bRecycle
        BY <4>1, Zenon DEF KeepReader
      <4> QED
        BY <1>2, <2>0, <4>1, <4>2
    <3>1. PICK n \in Nat : PutXBuf(n, TRUE)
      <4>1. StartCount \in Nat /\ TranSize \div 2 \in Nat
        BY AOutTransferAssumption, Geometry, SMT DEF StartCount
      <4> QED
        BY <2>4, <4>1 DEF StartStep, PutStep
    <3>2. /\ head \in Positions /\ tail \in Positions
          /\ head \in Nat /\ head < MaxValues /\ tail \in Nat /\ tail < MaxValues
          /\ count \in Nat /\ MaxValues \in Nat
          /\ IsQueue(head, tail, count) /\ Distance(tail, ReaderAt) <= count
      BY <1>0, <2>0, <3>0, Numbers, Geometry
         DEF TypeIInv, TypeOK, QueueOK, IsQueue, ReaderAt
    <3>3. count # MaxValues
      <4>1. CASE StartStep
        BY <1>0, <2>0, <4>1 DEF StartStep, StandbyIsFull
      <4>2. CASE PutStep
        <5>1. ~(count >= MaxValues) \/ head # tail
          BY <3>0, <4>2 DEF PutStep, Finished, NothingLeft, Queued
        <5> QED
          BY <3>2, <5>1, SMT DEF IsQueue, Distance
      <4> QED
        BY <2>4, <4>1, <4>2
    <3>4. /\ Pending \subseteq fresh
          /\ granted \cap Pending = {}
          /\ Between(tail, ReaderAt) \subseteq fresh \cup granted
      <4>1. CASE StartStep
        <5>1. fresh = Positions /\ granted = {}
          BY <1>0, <2>0, <3>0, <4>1 DEF StartStep, StandbyIsFresh
        <5>2. Pending \subseteq Positions /\ Between(tail, ReaderAt) \subseteq Positions
          BY DEF Pending, Between
        <5> QED
          BY <5>1, <5>2
      <4>2. CASE PutStep
        BY <1>0, <2>0, <3>0, <4>2 DEF PutStep, RunningIsFresh
      <4> QED
        BY <2>4, <4>1, <4>2
    <3>5. /\ Pending' \subseteq fresh' /\ Pending' \subseteq Pending
          /\ \A p \in fresh \ fresh' : p \in Pending
          /\ tail' = tail
      BY <1>0, <2>0, <3>0, <3>1, <3>3, <3>4, PutKeepsFresh DEF KeepReader
    <3>6. Between(tail', ReaderAt') = Between(tail, ReaderAt) /\ granted' = granted
      BY <3>0, <3>5 DEF KeepReader, Between, Distance, ReaderAt
    <3>7. Between(tail, ReaderAt) \cap Pending = {}
      <4> SUFFICES ASSUME NEW p \in Positions, Distance(tail, p) < Distance(tail, ReaderAt),
                          p \in Pending
                   PROVE  FALSE
        BY DEF Between
      <4>1. Pending = PendingSet(head, tail, count)
        BY DEF Pending, PendingSet
      <4>2. Distance(head, p) < MaxValues - count
        BY <3>2, <4>1, PendingIs
      <4>3. Distance(tail, p) \in Nat /\ Distance(tail, ReaderAt) \in Int
        <5>1. ReaderAt \in Int
          BY <1>0, Numbers, Geometry, SMT DEF ReaderAt, TypeIInv
        <5> QED
          BY <3>2, <5>1, DistanceRange DEF Distance
      <4>4. Distance(tail, p) < count
        BY <3>2, <4>3
      <4> QED
        BY <3>2, <4>2, <4>4, PutIsNotPending
    <3> QED
      BY <3>0, <3>4, <3>5, <3>6, <3>7
  <2>5. CASE Refill
    <3>1. /\ Pending' = Pending /\ Between(tail', ReaderAt') = Between(tail, ReaderAt)
          /\ UNCHANGED <<initialised, bRecycle, SubsysState>> /\ granted' = {}
          /\ ~bRecycle => fresh' = fresh \cup granted
      BY <2>5 DEF Refill, bufInfo, Pending, Between, Distance, ReaderAt
    <3>2. Pending \subseteq Positions
      BY DEF Pending, Between
    <3>3. granted \subseteq Positions
      BY <1>0 DEF TypeIInv, TypeOK
    <3> QED
      BY <1>0, <2>0, <3>1, <3>2, <3>3 DEF RunningIsFresh, StandbyIsFresh
  <2>6. ASSUME NEW numScans \in Requests, GetScans(numScans)
        PROVE  RunningIsFresh' /\ StandbyIsFresh'
    <3>1. UNCHANGED <<initialised, bRecycle, SubsysState, fresh>>
      BY <2>6 DEF GetScans
    <3>2. SubsysState = "ssStandby" => granted' = {}
      BY <2>6 DEF GetScans, Offered
    <3>3. RunningIsFresh'
      BY <1>0, <2>0, <2>6, <3>1, GetScansKeepsFresh DEF RunningIsFresh
    <3>4. StandbyIsFresh'
      BY <1>0, <2>0, <3>1, <3>2 DEF StandbyIsFresh
    <3> QED
      BY <3>3, <3>4
  <2> QED
    BY <1>0, <1>2, <2>1, <2>2, <2>3, <2>4, <2>5, <2>6, Steps
<1> QED
  BY <1>1, <1>2

LEMMA InitFresh == Init => RefillIInv
BY InitQueue DEF Init, RefillIInv, RunningIsFresh, StandbyIsFresh

\* No value goes out twice: all that the driver may yet put was filled since it
\* was last put, whatever the geometry, the sizes of the blocks and of the
\* requests, and the interleaving of the two.
THEOREM PendingIsFreshCorrect == Spec => []PendingIsFresh
<1>1. RefillIInv => PendingIsFresh
  BY DEF RefillIInv, RunningIsFresh, PendingIsFresh
<1> QED
  BY <1>1, InitFresh, NextKeepsFresh, PTL DEF Spec

\* The application is never given a value of a running output that is still to
\* be put.
THEOREM GrantedIsPlayedCorrect == Spec => []GrantedIsPlayed
<1>1. RefillIInv => GrantedIsPlayed
  BY DEF RefillIInv, RunningIsFresh, GrantedIsPlayed
<1> QED
  BY <1>1, InitFresh, NextKeepsFresh, PTL DEF Spec

-----------------------------------------------------------------------------
(* The order of the output, for the layouts that fill the transfer buffer  *)
(* in one piece or in two that join.                                       *)

\* What OutputInOrder says of the FIFO f and the head h, also of a buffer that
\* was not initialised.
InOrder(f, h) ==
  \A i \in 1 .. Len(f) : f[i] # Old => f[i] = (h - (Len(f) - i + 1) * Adj) % MaxValues

OrderIInv == TypeIInv /\ InOrder(fifo, head)

\* A word of the block stands for the values that lie this far beyond the head.
LEMMA WordInTurn ==
  ASSUME TypeIInv, layout \in {"direct", "pairs"}, NEW n \in Nat, NEW j \in 1 .. XFerSize(n)
  PROVE  /\ XFerWord(n, j) \in Positions
         /\ \/ XFerWord(n, j) = head + (j - 1) * Adj
            \/ XFerWord(n, j) = head + (j - 1) * Adj - MaxValues
<1> DEFINE a == SamplesA(n)
           b == SamplesB(n)
           m == NumToCopy(n)
           k == (j - 1) * Adj + 1
<1>1. /\ head \in Nat /\ head < MaxValues /\ MaxValues \in Nat
      /\ a \in Nat /\ b \in Nat /\ m \in Nat /\ m <= MaxValues
      /\ a + b = m /\ head + a <= MaxValues /\ (b > 0 => head + a = MaxValues)
  <2>1. /\ AvlSamples \in 0 .. MaxValues /\ m \in 0 .. AvlSamples
        /\ a \in 0 .. m /\ b \in 0 .. m
    BY BlockSizes
  <2>2. head \in Nat /\ head < MaxValues /\ MaxValues \in Nat
    BY Numbers, Geometry DEF TypeIInv
  <2>3. a + b = m /\ head + a <= MaxValues /\ (b > 0 => head + a = MaxValues)
    BY BlockSizes
  <2> HIDE DEF a, b, m
  <2> QED
    BY <2>1, <2>2, <2>3, SMT
<1>2. j \in Nat /\ k \in 1 .. m
  <2>1. j \in Nat /\ j >= 1 /\ j <= XFerSize(n)
    BY BlockSizes, SMT
  <2>2. XFerSize(n) * Adj <= m /\ XFerSize(n) \in Nat
    BY BlockSizes
  <2>3. j * Adj <= XFerSize(n) * Adj
    BY <2>1, <2>2, AdjType, TimesMonotone
  <2>4. k \in Nat /\ k >= 1 /\ k <= j * Adj /\ j * Adj \in Nat /\ XFerSize(n) * Adj \in Nat
    BY <2>1, <2>2, AdjType, SMT
  <2> HIDE DEF k, m
  <2> QED
    BY <1>1, <2>1, <2>2, <2>3, <2>4, SMT
<1>3. XFerWord(n, j) = InTurn(n, k)
  <2>1. CASE layout = "direct"
    <3>1. Adj = 1 /\ k = j
      BY <1>2, <2>1, AdjType, SMT
    <3> QED
      BY <2>1, <3>1 DEF XFerWord
  <2>2. CASE layout = "pairs"
    <3>1. Adj = 2 /\ k = 2 * j - 1
      BY <1>2, <2>2, AdjType, SMT
    <3> QED
      BY <2>2, <3>1 DEF XFerWord
  <2> QED
    BY <2>1, <2>2
<1>4. InTurn(n, k) = IF k <= a THEN head + k - 1 ELSE k - a - 1
  BY DEF InTurn
<1>5. (j - 1) * Adj = k - 1 /\ (j - 1) * Adj \in Int
  BY <1>2, AdjType, SMT
<1> HIDE DEF k, a, b, m
<1>6. /\ InTurn(n, k) \in Positions
      /\ InTurn(n, k) = head + (k - 1) \/ InTurn(n, k) = head + (k - 1) - MaxValues
  BY <1>1, <1>2, <1>4, SMT DEF Positions
<1> QED
  BY <1>3, <1>5, <1>6

\* A position is the remainder of itself, and of what lies one buffer beyond it.
LEMMA WithinBuffer ==
  ASSUME NEW v \in Positions, NEW x \in Int, v = x \/ v = x - MaxValues
  PROVE  v = x % MaxValues
<1>1. v \in Nat /\ v < MaxValues /\ MaxValues \in Nat \ {0}
  BY Geometry DEF Positions
<1>2. v % MaxValues = v /\ (x - MaxValues) % MaxValues = x % MaxValues
  BY <1>1, ModSmall, ModShift
<1> QED
  BY <1>2

\* A put appends the words that follow.
LEMMA PutInOrder ==
  ASSUME OrderIInv, layout \in {"direct", "pairs"}, UNCHANGED layout,
         NEW n \in Nat, NEW words \in 0 .. XFerSize(n), words <= FifoRoom,
         PutWords(n, words, words)
  PROVE  InOrder(fifo, head)'
<1> DEFINE new == [i \in 1 .. words |-> XFerWord(n, i)]
           len == Len(fifo)
<1>0. /\ TypeIInv /\ fifo \in Seq(Values) /\ len \in Nat /\ words \in Nat
      /\ head \in Nat /\ head < MaxValues /\ MaxValues \in Nat \ {0}
      /\ Adj \in Nat /\ Adj' = Adj
  <2>1. Adj \in Nat /\ Adj' = Adj
    BY AdjType DEF Adj
  <2> QED
    BY <2>1, BlockSizes, Numbers, Geometry DEF OrderIInv, TypeIInv
<1>1. fifo' = fifo \o new /\ head' = HeadAfter(words)
  BY DEF PutWords
<1>2. new \in Seq(Values) /\ Len(new) = words
  <2>1. \A i \in 1 .. words : XFerWord(n, i) \in Values
    <3>1. XFerSize(n) \in Nat
      BY <1>0, BlockSizes
    <3>2. 1 .. words \subseteq 1 .. XFerSize(n)
      BY <1>0, <3>1
    <3> QED
      BY <1>0, <3>2, WordInside
  <2>2. new \in Seq(Values)
    BY <1>0, <2>1, IsASeq
  <2> QED
    BY <1>0, <2>2, LenProperties
<1>3. /\ Len(fifo') = len + words
      /\ \A i \in 1 .. len : fifo'[i] = fifo[i]
      /\ \A j \in 1 .. words : fifo'[len + j] = XFerWord(n, j)
  <2>1. /\ Len(fifo \o new) = len + Len(new)
        /\ \A i \in 1 .. len + Len(new) : (fifo \o new)[i] = IF i <= len THEN fifo[i] ELSE new[i - len]
    BY <1>0, <1>2, ConcatProperties
  <2>2. ASSUME NEW i \in 1 .. len PROVE fifo'[i] = fifo[i]
    BY <1>0, <1>1, <1>2, <2>1, <2>2
  <2>3. ASSUME NEW j \in 1 .. words PROVE fifo'[len + j] = XFerWord(n, j)
    <3>1. len + j \in 1 .. len + words /\ ~(len + j <= len) /\ (len + j) - len = j
      BY <1>0, <2>3
    <3>2. fifo'[len + j] = new[j]
      BY <1>1, <1>2, <2>1, <3>1
    <3> QED
      BY <2>3, <3>2
  <2> QED
    BY <1>1, <1>2, <2>1, <2>2, <2>3
<1>4. \/ head' = head + words * Adj
      \/ head' = head + words * Adj - MaxValues
  BY <1>0, <1>1, HeadPlace
<1>5. ASSUME NEW x \in Int
      PROVE  (head' - (words * Adj - x)) % MaxValues = (head + x) % MaxValues
  <2> DEFINE y == words * Adj
  <2>1. y \in Int
    BY <1>0, SMT
  <2>2. head' = head + y \/ head' = head + y - MaxValues
    BY <1>4
  <2> HIDE DEF y
  <2>3. head' - (y - x) = head + x \/ head' - (y - x) = (head + x) - MaxValues
    BY <1>0, <2>1, <2>2, SMT
  <2>4. ((head + x) - MaxValues) % MaxValues = (head + x) % MaxValues
    BY <1>0, ModShift, head + x \in Int
  <2> QED
    BY <2>3, <2>4 DEF y
<1>6. ASSUME NEW i \in 1 .. len, fifo[i] # Old
      PROVE  fifo[i] = (head' - (len + words - i + 1) * Adj) % MaxValues
  <2>1. fifo[i] = (head - (len - i + 1) * Adj) % MaxValues
    BY <1>6 DEF OrderIInv, InOrder
  <2> DEFINE x == 0 - (len - i + 1) * Adj
  <2>2. x \in Int /\ (len + words - i + 1) * Adj = words * Adj - x
    BY <1>0, SMT
  <2>3. head + x = head - (len - i + 1) * Adj
    BY <1>0, SMT
  <2> HIDE DEF x
  <2> QED
    BY <1>5, <2>1, <2>2, <2>3
<1>7. ASSUME NEW j \in 1 .. words
      PROVE  XFerWord(n, j) = (head' - (words - j + 1) * Adj) % MaxValues
  <2> DEFINE x == (j - 1) * Adj
  <2>1. x \in Int /\ (words - j + 1) * Adj = words * Adj - x
    BY <1>0, SMT
  <2>2. /\ XFerWord(n, j) \in Positions
        /\ XFerWord(n, j) = head + x \/ XFerWord(n, j) = head + x - MaxValues
    <3>1. XFerSize(n) \in Nat
      BY <1>0, BlockSizes
    <3>2. j \in 1 .. XFerSize(n)
      BY <1>0, <3>1
    <3> QED
      BY <1>0, <3>2, WordInTurn
  <2> HIDE DEF x
  <2>3. XFerWord(n, j) = (head + x) % MaxValues
    <3> DEFINE v == XFerWord(n, j)
               y == head + x
    <3>1. y \in Int /\ v \in Positions /\ (v = y \/ v = y - MaxValues)
      BY <1>0, <2>1, <2>2
    <3> HIDE DEF v, y
    <3>2. v = y % MaxValues
      BY <3>1, WithinBuffer
    <3> QED
      BY <3>2 DEF v, y
  <2> QED
    BY <1>5, <2>1, <2>3
<1>8. ASSUME NEW i \in 1 .. len + words, fifo'[i] # Old
      PROVE  fifo'[i] = (head' - (len + words - i + 1) * Adj) % MaxValues
  <2>1. CASE i <= len
    <3>1. i \in 1 .. len
      BY <1>0, <2>1
    <3> QED
      BY <1>3, <1>6, <1>8, <3>1
  <2>2. CASE i > len
    <3>1. PICK j \in 1 .. words : i = len + j
      <4>1. i - len \in 1 .. words /\ i = len + (i - len)
        BY <1>0, <2>2, SMT
      <4> QED
        BY <4>1
    <3>2. len + words - i + 1 = words - j + 1
      BY <1>0, <3>1, SMT
    <3> QED
      BY <1>3, <1>7, <3>1, <3>2
  <2> QED
    BY <1>0, <2>1, <2>2
<1> QED
  BY <1>0, <1>3, <1>8 DEF InOrder

\* Words nobody tells apart are in order.
LEMMA OldInOrder ==
  ASSUME NEW k \in Nat, NEW h
  PROVE  InOrder(NoLongerToldApart(k), h)
BY OldWords DEF InOrder, NoLongerToldApart

LEMMA XBufInOrder ==
  ASSUME OrderIInv, layout \in {"direct", "pairs"}, UNCHANGED layout,
         NEW n \in Nat, NEW ok \in BOOLEAN, PutXBuf(n, ok)
  PROVE  InOrder(fifo, head)'
<1>1. PICK words \in 0 .. XFerSize(n), arrive \in 0 .. XFerSize(n) :
        arrive <= FifoRoom /\ PutWords(n, words, arrive)
  BY PutCases DEF OrderIInv
<1>2. CASE arrive = words
  BY <1>1, <1>2, PutInOrder
<1>3. CASE arrive # words
  <2>1. fifo' = NoLongerToldApart(Len(fifo) + arrive)
    BY <1>1, <1>3 DEF PutWords
  <2>2. Len(fifo) + arrive \in Nat
    BY <1>1, BlockSizes, Numbers, SMT DEF OrderIInv, TypeIInv
  <2>3. Len(fifo') = Len(fifo) + arrive /\ \A i \in 1 .. Len(fifo') : fifo'[i] = Old
    BY <2>1, <2>2, OldWords DEF NoLongerToldApart
  <2> QED
    BY <2>3 DEF InOrder
<1> QED
  BY <1>2, <1>3

LEMMA NextInOrder ==
  ASSUME Layouts \subseteq {"direct", "pairs"}
  PROVE  OrderIInv /\ [Next]_vars => OrderIInv'
<1> SUFFICES ASSUME OrderIInv, [Next]_vars PROVE InOrder(fifo, head)'
  BY NextTypes DEF OrderIInv
<1>0. /\ TypeIInv /\ layout \in {"direct", "pairs"}
      /\ fifo \in Seq(Values) /\ Len(fifo) \in Nat /\ head \in Nat /\ MaxValues \in Nat \ {0}
  BY Numbers, Geometry DEF OrderIInv, TypeIInv, TypeOK
<1>1. ASSUME UNCHANGED <<layout, fifo, head>>
      PROVE  InOrder(fifo, head)'
  <2>1. Adj' = Adj
    BY <1>1 DEF Adj
  <2> QED
    BY <1>1, <2>1 DEF OrderIInv, InOrder
<1>2. CASE Play
  <2>1. CASE fifo = <<>>
    <3>1. UNCHANGED <<layout, fifo, head>>
      BY <1>2, <2>1 DEF Play, bufInfo
    <3> QED
      BY <1>1, <3>1
  <2>2. CASE fifo # <<>>
    <3>1. fifo' = Tail(fifo) /\ UNCHANGED <<layout, head>>
      BY <1>2, <2>2 DEF Play, bufInfo
    <3>2. /\ Len(fifo') = Len(fifo) - 1
          /\ \A i \in 1 .. Len(fifo') : fifo'[i] = fifo[i + 1]
      BY <1>0, <2>2, <3>1, HeadTailProperties
    <3>3. Adj' = Adj
      BY <3>1 DEF Adj
    <3>4. ASSUME NEW i \in 1 .. Len(fifo'), fifo'[i] # Old
          PROVE  fifo'[i] = (head - (Len(fifo') - i + 1) * Adj) % MaxValues
      <4>1. i + 1 \in 1 .. Len(fifo) /\ Len(fifo) - (i + 1) + 1 = Len(fifo') - i + 1
        BY <1>0, <3>2, SMT
      <4>2. fifo[i + 1] = (head - (Len(fifo) - (i + 1) + 1) * Adj) % MaxValues
        BY <3>2, <3>4, <4>1 DEF OrderIInv, InOrder
      <4> QED
        BY <3>2, <4>1, <4>2
    <3> QED
      BY <3>1, <3>3, <3>4 DEF InOrder
  <2> QED
    BY <2>1, <2>2
<1>3. ASSUME NEW ok \in BOOLEAN, NEW regen \in BOOLEAN, NEW check \in Checks, AsyncInit(ok, regen, check)
      PROVE  InOrder(fifo, head)'
  <2>1. fifo' = NoLongerToldApart(Len(fifo))
    BY <1>3 DEF AsyncInit
  <2>2. Len(fifo') = Len(fifo) /\ \A i \in 1 .. Len(fifo') : fifo'[i] = Old
    BY <1>0, <2>1, OldWords DEF NoLongerToldApart
  <2> QED
    BY <2>2 DEF InOrder
<1>4. ASSUME NEW ok \in BOOLEAN, NEW enabled \in BOOLEAN, AsyncStart(ok, enabled)
      PROVE  InOrder(fifo, head)'
  <2>1. StartCount \in Nat
    BY AOutTransferAssumption, Geometry, SMT DEF StartCount
  <2> QED
    BY <1>0, <1>4, <2>1, XBufInOrder DEF AsyncStart, Ioctl, Locked, Unlocked
<1>5. ASSUME Reset
      PROVE  InOrder(fifo, head)'
  <2>1. Len(fifo') = 0
    BY <1>5, EmptySeq DEF Reset
  <2> QED
    BY <2>1 DEF InOrder
<1>6. ASSUME NEW ok \in BOOLEAN, NEW events, PutSamples(ok, events), InHandler
      PROVE  InOrder(fifo, head)'
  <2>1. TranSize \div 2 \in Nat
    BY AOutTransferAssumption, SMT
  <2>2. CASE KeepRing
    BY <1>1, <1>6, <2>2 DEF KeepRing, InHandler
  <2>3. CASE PutXBuf(TranSize \div 2, ok)
    BY <1>0, <1>6, <2>1, <2>3, XBufInOrder DEF InHandler
  <2> QED
    BY <1>6, <2>2, <2>3 DEF PutSamples, NothingPut
<1>7. ASSUME NEW ok \in BOOLEAN, ProcessHalfDone(ok) \/ ProcessBufDone(ok)
      PROVE  InOrder(fifo, head)'
  <2>1. InHandler
    BY <1>7 DEF ProcessHalfDone, ProcessBufDone, ReadBoardStatus, At
  <2> QED
    BY <1>1, <1>6, <1>7, <2>1
       DEF ProcessHalfDone, ProcessBufDone, NothingPut, KeepRing, InHandler
<1>8. ASSUME \/ ProcessOldWay \/ NotifyUserEvents
             \/ \E ok \in BOOLEAN : ProcessUndRunErr(ok)
      PROVE  InOrder(fifo, head)'
  BY <1>1, <1>8
     DEF ProcessOldWay, NotifyUserEvents, ProcessUndRunErr, At, NothingPut, KeepRing, InHandler
<1>9. ASSUME \/ UnregisterDaqBuffer \/ AsyncInitUnregistered \/ AsyncStopIdle \/ SetConfig \/ Refill
             \/ \E mode \in Modes, allocated \in BOOLEAN : RegisterDaqBuffer(mode, allocated)
             \/ \E ok \in BOOLEAN : AsyncStop(ok) \/ AsyncTerm(ok)
             \/ \E numScans \in Requests : GetScans(numScans)
             \/ UNCHANGED vars
      PROVE  InOrder(fifo, head)'
  <2>1. UNCHANGED <<layout, fifo, head>>
    BY <1>9 DEF UnregisterDaqBuffer, AsyncInitUnregistered, AsyncStopIdle, SetConfig, Refill,
      RegisterDaqBuffer, AsyncStop, AsyncTerm, GetScans, Ioctl, Locked, Unlocked, bufInfo, vars
  <2> QED
    BY <1>1, <2>1
<1> QED
  BY <1>2, <1>3, <1>4, <1>5, <1>7, <1>8, <1>9 DEF Next, Application, ServeBoard, Serve

\* On the boards whose transfer buffer is filled in turn, the FIFO holds the last
\* values before the head in their order, wherever the buffer wraps, and however
\* the sizes of buffer, block and FIFO relate.  (Of the other two layouts the
\* formula is false: their two pieces do not join.)
THEOREM OutputInOrderCorrect ==
  ASSUME Layouts \subseteq {"direct", "pairs"}
  PROVE  Spec => []OutputInOrder
<1>1. Init => OrderIInv
  BY InitTypes, EmptySeq DEF Init, OrderIInv, InOrder
<1>2. OrderIInv /\ [Next]_vars => OrderIInv'
  BY NextInOrder
<1>3. OrderIInv => OutputInOrder
  BY DEF OrderIInv, InOrder, OutputInOrder
<1> QED
  BY <1>1, <1>2, <1>3, PTL DEF Spec

-----------------------------------------------------------------------------
(* The ring.                                                               *)

\* The positions from the reader to the head hold values that have been put, and
\* have been neither filled nor offered since.
RunningIsStale ==
  Followed =>
    /\ Between(ReaderAt, head) \cap (fresh \cup granted) = {}
    /\ granted \cap fresh = {}

RingIInv == RefillIInv /\ RunningIsStale

\* The values pending are the next ones in ring order.
LEMMA PendingIsAhead ==
  ASSUME NEW h \in Positions, NEW t \in Positions, NEW c \in Nat, IsQueue(h, t, c)
  PROVE  PendingSet(h, t, c) = {(h + i) % MaxValues : i \in 0 .. (MaxValues - c) - 1}
<1>0. h \in Nat /\ h < MaxValues /\ MaxValues \in Nat \ {0}
  BY Geometry, SMT DEF Positions
<1>1. ASSUME NEW p \in PendingSet(h, t, c)
      PROVE  \E i \in 0 .. (MaxValues - c) - 1 : p = (h + i) % MaxValues
  <2>1. p \in Positions
    BY <1>1 DEF PendingSet, Between
  <2>2. Distance(h, p) < MaxValues - c
    BY <1>1, <2>1, PendingIs
  <2>3. Distance(h, p) \in Nat
    BY <2>1, DistanceRange
  <2>4. p = (h + Distance(h, p)) % MaxValues
    BY <2>1, StepsTo
  <2>5. Distance(h, p) \in 0 .. (MaxValues - c) - 1
    BY <1>0, <2>2, <2>3, SMT
  <2> QED
    BY <2>4, <2>5
<1>2. ASSUME NEW i \in 0 .. (MaxValues - c) - 1
      PROVE  (h + i) % MaxValues \in PendingSet(h, t, c)
  <2>1. i \in Nat /\ i < MaxValues /\ i < MaxValues - c
    BY <1>0, SMT
  <2>2. (h + i) % MaxValues \in Positions /\ Distance(h, (h + i) % MaxValues) = i
    BY <2>1, StepsAway
  <2> QED
    BY <2>1, <2>2, PendingIs
<1> QED
  BY <1>1, <1>2

\* Between the reader and the head that has moved on: what was there, and what
\* has been put.
LEMMA PutIsBehind ==
  ASSUME NEW r \in Positions, NEW h \in Positions, NEW h2 \in Positions, NEW w \in Nat,
         w <= MaxValues, h2 = IF h + w >= MaxValues THEN h + w - MaxValues ELSE h + w,
         NEW p \in Positions, Distance(r, p) < Distance(r, h2), ~(Distance(r, p) < Distance(r, h))
  PROVE  Distance(h, p) < w
BY Geometry, SMT DEF Distance, Positions

\* What is offered lay between the reader and the head, and lies there no more.
LEMMA OfferedIsBehind ==
  ASSUME NEW h \in Positions, NEW s \in Positions, NEW e \in Nat, NEW s2, s <= e, e <= MaxValues,
         e = s \/ (s < h /\ e <= h) \/ h < s, s2 = IF e = MaxValues THEN 0 ELSE e,
         NEW p \in Positions
  PROVE  /\ s <= p /\ p < e => Distance(s, p) < Distance(s, h)
         /\ Distance(s2, p) < Distance(s2, h) => Distance(s, p) < Distance(s, h) /\ ~(s <= p /\ p < e)
BY Geometry, SMTT(60) DEF Distance, Positions

\* A put, by the bottom half or at the start.
LEMMA PutKeepsStale ==
  ASSUME NEW w \in Nat, PutNumbers(w), head \in Positions, tail \in Positions, count \in Nat,
         IsQueue(head, tail, count), ReaderAt \in Positions, ReaderAt' = ReaderAt,
         granted' = granted, granted \subseteq Positions, granted \cap Pending = {},
         Between(ReaderAt, head) \cap (fresh \cup granted) = {}, granted \cap fresh = {}
  PROVE  /\ Between(ReaderAt', head') \cap (fresh' \cup granted') = {}
         /\ granted' \cap fresh' = {}
<1>0. MaxValues \in Nat \ {0}
  BY Geometry
<1>1. /\ w <= MaxValues /\ count + w <= MaxValues /\ head' \in Positions
      /\ head' = IF head + w >= MaxValues THEN head + w - MaxValues ELSE head + w
      /\ fresh' = fresh \ {(head + d) % MaxValues : d \in 0 .. w - 1}
  BY DEF PutNumbers
<1>2. ASSUME NEW p \in Positions, Distance(head, p) < w
      PROVE  p \notin fresh' /\ p \notin granted
  <2>1. Distance(head, p) \in Nat
    BY DistanceRange
  <2>2. Distance(head, p) \in 0 .. w - 1
    BY <1>2, <2>1, SMT
  <2>3. p = (head + Distance(head, p)) % MaxValues
    BY StepsTo
  <2>4. Distance(head, p) < MaxValues - count
    BY <1>0, <1>1, <1>2, <2>1, SMT
  <2>5. Pending = PendingSet(head, tail, count)
    BY DEF Pending, PendingSet
  <2>6. p \in Pending
    BY <2>4, <2>5, PendingIs
  <2> QED
    BY <1>1, <2>2, <2>3, <2>6
<1>3. ASSUME NEW p \in Between(ReaderAt', head')
      PROVE  p \notin fresh' /\ p \notin granted
  <2>1. p \in Positions /\ Distance(ReaderAt, p) < Distance(ReaderAt, head')
    BY <1>3 DEF Between
  <2>2. CASE Distance(ReaderAt, p) < Distance(ReaderAt, head)
    BY <1>1, <2>1, <2>2 DEF Between
  <2>3. CASE ~(Distance(ReaderAt, p) < Distance(ReaderAt, head))
    BY <1>1, <1>2, <2>1, <2>3, PutIsBehind
  <2> QED
    BY <2>2, <2>3
<1> QED
  BY <1>1, <1>3

LEMMA GetScansKeepsStale ==
  ASSUME TypeIInv, Followed, RunningIsStale, NEW numScans \in Requests, GetScans(numScans)
  PROVE  /\ Between(ReaderAt', head') \cap (fresh' \cup granted') = {}
         /\ granted' \cap fresh' = {}
<1> DEFINE s == scanIndex * ScanSize
           e == (scanIndex + ValidScans(numScans)) * ScanSize
           s2 == scanIndex' * ScanSize
<1>0. TypeOK /\ numScans \in Nat /\ head \in Positions /\ MaxValues \in Nat
  BY AOutSwitchAssumption, Geometry DEF TypeIInv, TypeOK
<1>1. /\ head' = head /\ fresh' = fresh /\ granted = {} /\ granted' = s .. e - 1
      /\ ReaderAt = s /\ ReaderAt' = s2
  BY DEF GetScans, Offered, Followed, ReaderAt
<1>2. /\ s \in Nat /\ s < MaxValues
      /\ e \in Nat /\ s <= e /\ e <= MaxValues
      /\ e = s \/ (s < head /\ e <= head) \/ head < s
      /\ s2 = IF e = MaxValues THEN 0 ELSE e
  BY <1>0, ScansPlace DEF GetScans
<1>3. s \in Positions /\ granted' \subseteq Positions
  BY <1>0, <1>2, OfferedPlace, SMT DEF GetScans, Positions
<1>4. Between(s, head) \cap fresh = {}
  BY <1>1 DEF RunningIsStale
<1> HIDE DEF s, e, s2
<1>5. ASSUME NEW p \in granted'
      PROVE  p \in Between(s, head)
  <2>1. p \in Positions /\ s <= p /\ p < e
    BY <1>1, <1>2, <1>3, <1>5
  <2> QED
    BY <1>0, <1>2, <1>3, <2>1, OfferedIsBehind DEF Between
<1>6. ASSUME NEW p \in Between(s2, head)
      PROVE  p \in Between(s, head) /\ p \notin granted'
  <2>1. p \in Positions /\ Distance(s2, p) < Distance(s2, head)
    BY <1>6 DEF Between
  <2>2. Distance(s, p) < Distance(s, head) /\ ~(s <= p /\ p < e)
    BY <1>0, <1>2, <1>3, <2>1, OfferedIsBehind
  <2>3. p \notin granted'
    BY <1>0, <1>1, <1>2, <2>1, <2>2, SMT DEF Positions
  <2> QED
    BY <2>1, <2>2, <2>3 DEF Between
<1>7. Between(ReaderAt', head') = Between(s2, head)
  BY <1>1
<1> QED
  BY <1>1, <1>4, <1>5, <1>6, <1>7

\* The steps that put, in a run that is followed.
LEMMA PutsInRing ==
  ASSUME QueueIInv, faults = 0, Followed', StartStep \/ PutStep
  PROVE  /\ initialised /\ ~bRecycle /\ QueueOK
         /\ \E w \in Nat : PutNumbers(w)
         /\ ReaderAt' = ReaderAt /\ granted' = granted
<1>1. /\ TypeIInv /\ QueueOK /\ StandbyIsFull /\ KeepReader
      /\ UNCHANGED <<scanIndex, initialised, bRecycle, granted>> /\ initialised /\ ~bRecycle
      /\ faults' = faults
  <2>1. TypeIInv /\ QueueOK /\ StandbyIsFull
    BY DEF QueueIInv
  <2>2. KeepReader
    BY DEF StartStep, PutStep
  <2>3. initialised' /\ ~bRecycle' /\ faults' = faults
    BY DEF Followed
  <2>4. initialised /\ ~bRecycle
    BY <2>2, <2>3, Zenon DEF KeepReader
  <2> QED
    BY <2>1, <2>2, <2>3, <2>4 DEF KeepReader
<1>2. /\ head \in Positions /\ tail \in Positions /\ count \in Nat /\ MaxValues \in Nat \ {0}
      /\ head \in Nat /\ head < MaxValues /\ tail \in Nat /\ tail < MaxValues
      /\ IsQueue(head, tail, count)
  BY <1>1, Numbers, Geometry DEF TypeIInv, TypeOK, QueueOK, IsQueue
<1>3. count # MaxValues
  <2>1. CASE StartStep
    BY <1>1, <1>2, <2>1 DEF StartStep, StandbyIsFull
  <2>2. CASE PutStep
    <3>1. ~(count >= MaxValues) \/ head # tail
      BY <1>1, <2>2 DEF PutStep, Finished, NothingLeft, Queued
    <3> QED
      BY <1>2, <3>1, SMT DEF IsQueue, Distance
  <2> QED
    BY <2>1, <2>2
<1>4. PICK n \in Nat : PutXBuf(n, TRUE)
  <2>1. StartCount \in Nat /\ TranSize \div 2 \in Nat
    BY AOutTransferAssumption, Geometry, SMT DEF StartCount
  <2> QED
    BY <2>1 DEF StartStep, PutStep
<1>5. \E w \in Nat : PutNumbers(w)
  BY <1>1, <1>3, <1>4, PutIsInRing
<1> QED
  BY <1>1, <1>5 DEF ReaderAt

LEMMA NextKeepsStale == RingIInv /\ [Next]_vars => RingIInv'
<1> SUFFICES ASSUME RingIInv, [Next]_vars, Followed'
             PROVE  /\ Between(ReaderAt', head') \cap (fresh' \cup granted') = {}
                    /\ granted' \cap fresh' = {}
  BY NextKeepsFresh DEF RingIInv, RunningIsStale, Between, Distance, ReaderAt
<1>0. /\ RefillIInv /\ RunningIsStale /\ QueueIInv /\ TypeIInv /\ StandbyIsFull /\ QueueOK
      /\ StandbyIsFresh /\ RunningIsFresh /\ faults = 0 /\ faults' = 0
  <2>1. RefillIInv /\ RunningIsStale /\ QueueIInv /\ TypeIInv /\ StandbyIsFull /\ QueueOK
        /\ StandbyIsFresh /\ RunningIsFresh
    BY DEF RingIInv, RefillIInv, QueueIInv
  <2> QED
    BY <2>1, Steps DEF Followed
<1>1. CASE QuietStep
  <2>1. Followed /\ UNCHANGED <<bufInfo, refill>>
    BY <1>0, <1>1 DEF QuietStep, Followed, bufInfo
  <2> QED
    BY <1>0, <2>1 DEF bufInfo, refill, RunningIsStale, Between, Distance, ReaderAt
<1>2. CASE ForgetStep \/ FillStep
  BY <1>2 DEF ForgetStep, FillStep, Followed
<1>3. CASE StartStep \/ PutStep
  <2>1. PICK w \in Nat : PutNumbers(w)
    BY <1>0, <1>3, PutsInRing
  <2>2. initialised /\ ~bRecycle /\ ReaderAt' = ReaderAt /\ granted' = granted
    BY <1>0, <1>3, PutsInRing
  <2>3. /\ head \in Positions /\ tail \in Positions /\ count \in Nat
        /\ IsQueue(head, tail, count) /\ granted \subseteq Positions
    BY <1>0, <2>2, Numbers DEF TypeIInv, TypeOK, QueueOK, IsQueue
  <2>4. ReaderAt \in Positions
    <3>1. TypeOK /\ 0 \in Nat
      BY <1>0 DEF TypeIInv
    <3>2. scanIndex * ScanSize \in Nat /\ scanIndex * ScanSize < MaxValues
      BY <3>1, ScansPlace
    <3> QED
      BY <3>2, Geometry, SMT DEF ReaderAt, Positions
  <2>5. /\ granted \cap Pending = {}
        /\ Between(ReaderAt, head) \cap (fresh \cup granted) = {}
        /\ granted \cap fresh = {}
    <3>1. CASE StartStep
      <4>1. granted = {} /\ head = 0 /\ ReaderAt = 0
        BY <1>0, <3>1, Geometry, SMT DEF StartStep, StandbyIsFull, ReaderAt
      <4>2. Between(0, 0) = {}
        <5>1. \A p \in Positions : ~(Distance(0, p) < Distance(0, 0))
          BY Geometry, SMT DEF Distance, Positions
        <5> QED
          BY <5>1 DEF Between
      <4> QED
        BY <4>1, <4>2
    <3>2. CASE PutStep
      BY <1>0, <2>2, <3>2 DEF PutStep, RunningIsFresh, RunningIsStale, Followed
    <3> QED
      BY <1>3, <3>1, <3>2
  <2> QED
    BY <2>1, <2>2, <2>3, <2>4, <2>5, PutKeepsStale
<1>4. CASE Refill
  <2>1. /\ Followed /\ UNCHANGED bufInfo /\ granted' = {} /\ fresh' = fresh \cup granted
    BY <1>0, <1>4 DEF Refill, Followed, bufInfo
  <2> QED
    BY <1>0, <2>1 DEF bufInfo, RunningIsStale, Between, Distance, ReaderAt
<1>5. ASSUME NEW numScans \in Requests, GetScans(numScans)
      PROVE  /\ Between(ReaderAt', head') \cap (fresh' \cup granted') = {}
             /\ granted' \cap fresh' = {}
  <2>1. Followed
    BY <1>5 DEF GetScans, Followed
  <2> QED
    BY <1>0, <1>5, <2>1, GetScansKeepsStale
<1> QED
  BY <1>0, <1>1, <1>2, <1>3, <1>4, <1>5, Steps

\* What the ring may put is what is pending, and that is filled.
ReadyFilled ==
  /\ MaxValues - count \in 0 .. MaxValues
  /\ {(head + i) % MaxValues : i \in 0 .. (MaxValues - count) - 1} \subseteq fresh

LEMMA ReadyIsFilled == RefillIInv /\ Followed => ReadyFilled
<1> SUFFICES ASSUME RefillIInv, Followed PROVE ReadyFilled
  OBVIOUS
<1>1. TypeOK /\ QueueOK /\ RunningIsFresh
  BY DEF RefillIInv, QueueIInv, TypeIInv
<1>2. /\ head \in Positions /\ tail \in Positions /\ count \in Nat /\ MaxValues \in Nat
      /\ head \in Nat /\ head < MaxValues /\ tail \in Nat /\ tail < MaxValues
      /\ IsQueue(head, tail, count)
  BY <1>1, Numbers, Geometry DEF TypeOK, QueueOK, IsQueue, Followed
<1>3. count <= MaxValues
  BY <1>2, SMT DEF IsQueue, Distance
<1>4. Pending = {(head + i) % MaxValues : i \in 0 .. (MaxValues - count) - 1}
  BY <1>2, PendingIsAhead DEF Pending, PendingSet
<1>5. Pending \subseteq fresh
  BY <1>1 DEF RunningIsFresh, Followed
<1> QED
  BY <1>2, <1>3, <1>4, <1>5, SMT DEF ReadyFilled

LEMMA ReadyStaysFilled == (RefillIInv /\ Followed => ReadyFilled)'
BY ReadyIsFilled, PTL

\* A step of the output is a step of the ring, or nothing to it.
LEMMA NextRing == RingIInv /\ RingIInv' /\ [Next]_vars => [Ring!RingNext]_(Ring!ringVars)
<1> SUFFICES ASSUME RingIInv, RingIInv', [Next]_vars
             PROVE  Ring!RingNext \/ UNCHANGED Ring!ringVars
  OBVIOUS
<1>0. /\ RefillIInv /\ RefillIInv' /\ QueueIInv /\ TypeOK /\ TypeOK' /\ QueueOK
      /\ RunningIsStale /\ RunningIsStale'
  BY DEF RingIInv, RefillIInv, QueueIInv, TypeIInv
<1>1. CASE ~Followed'
  BY <1>1 DEF Ring!RingNext, Ring!Stopped
<1>2. CASE Followed'
  <2>0. faults = 0 /\ faults' = 0
    BY <1>0, <1>2, Steps DEF Followed, QueueIInv
  <2>1. CASE QuietStep
    <3>1. Followed /\ UNCHANGED <<bufInfo, refill>>
      BY <1>2, <2>0, <2>1 DEF QuietStep, Followed, bufInfo
    <3> QED
      BY <1>2, <3>1 DEF Ring!ringVars, bufInfo, refill
  <2>2. CASE ForgetStep \/ FillStep
    BY <1>2, <2>2 DEF ForgetStep, FillStep, Followed
  <2>3. CASE StartStep
    <3>1. ~Followed /\ granted' = {}
      BY <2>3 DEF StartStep, KeepReader, Followed
    <3>2. /\ MaxValues - count' \in 0 .. MaxValues
          /\ {(head' + i) % MaxValues : i \in 0 .. (MaxValues - count') - 1} \subseteq fresh'
      BY <1>0, <1>2, ReadyStaysFilled DEF ReadyFilled
    <3>3. head' \in 0 .. MaxValues - 1 /\ fresh' \subseteq 0 .. MaxValues - 1
      BY <1>0 DEF TypeOK, Positions
    <3>4. Ring!Begin
      BY <1>2, <3>1, <3>2, <3>3 DEF Ring!Begin, Ring!Slots, Ring!Ahead
    <3> QED
      BY <3>4 DEF Ring!RingNext
  <2>4. CASE PutStep
    <3>1. PICK w \in Nat : PutNumbers(w)
      BY <1>0, <1>2, <2>0, <2>4, PutsInRing
    <3>2. Followed /\ granted' = granted
      BY <1>0, <1>2, <2>0, <2>4, PutsInRing DEF PutStep, Followed
    <3>3. /\ head \in Nat /\ head < MaxValues /\ count \in Nat /\ MaxValues \in Nat \ {0}
      BY <1>0, Numbers, Geometry
    <3>4. w \in 0 .. MaxValues /\ w <= MaxValues - count /\ MaxValues - count' = (MaxValues - count) - w
      BY <3>1, <3>3, SMT DEF PutNumbers
    <3>5. head' = (head + w) % MaxValues
      <4>1. head' = IF head + w >= MaxValues THEN head + w - MaxValues ELSE head + w
        BY <3>1 DEF PutNumbers
      <4>2. CASE head + w < MaxValues
        BY <3>3, <4>1, <4>2, ModSmall, head + w \in Nat
      <4>3. CASE head + w >= MaxValues
        <5>1. head + w - MaxValues \in Nat /\ head + w - MaxValues < MaxValues
          BY <3>3, <3>4, <4>3, SMT
        <5>2. ((head + w) - MaxValues) % MaxValues = (head + w) % MaxValues
          BY <3>3, ModShift, head + w \in Int
        <5> QED
          BY <3>3, <4>1, <4>3, <5>1, <5>2, ModSmall
      <4> QED
        BY <3>3, <4>2, <4>3
    <3>6. fresh' = fresh \ {(head + d) % MaxValues : d \in 0 .. w - 1}
      BY <3>1 DEF PutNumbers
    <3>7. Ring!Put(w)
      BY <1>2, <3>2, <3>4, <3>5, <3>6 DEF Ring!Put, Ring!Ahead
    <3> QED
      BY <3>4, <3>7 DEF Ring!RingNext
  <2>5. CASE Refill
    <3>1. /\ Followed /\ UNCHANGED bufInfo /\ granted' = {} /\ fresh' = fresh \cup granted
      BY <1>2, <2>0, <2>5 DEF Refill, Followed, bufInfo
    <3>2. Ring!Return
      BY <1>2, <3>1 DEF Ring!Return, bufInfo
    <3> QED
      BY <3>2 DEF Ring!RingNext
  <2>6. ASSUME NEW numScans \in Requests, GetScans(numScans)
        PROVE  Ring!RingNext
    <3>1. /\ Followed /\ UNCHANGED <<head, fresh>> /\ granted = {}
      BY <1>2, <2>6 DEF GetScans, Followed
    <3>2. count' = count - Refilled
      BY <1>0, <2>6, <3>1, GetScansKeepsQueue DEF QueueIInv, Followed
    <3>3. count \in Nat /\ count' \in Nat /\ MaxValues \in Nat /\ tail \in Nat /\ tail < MaxValues
      <4>1. count' \in 0 .. Word - 1
        BY <1>0 DEF TypeOK
      <4> QED
        BY <1>0, <4>1, Numbers, Geometry, SMT
    <3>4. Refilled \in Nat /\ Refilled <= MaxValues
      <4>1. tail \in FrameStarts
        BY <1>0, <3>1 DEF QueueIInv, TailOnFrame, Followed
      <4>2. scanIndex * ScanSize \in Nat /\ scanIndex * ScanSize < MaxValues
        BY <1>0, ScansPlace, 0 \in Nat
      <4>3. RefilledTo \in Positions
        BY <1>0, RefilledType
      <4> QED
        BY <1>0, <3>3, <4>1, <4>2, <4>3, RefilledPlace, SMT DEF Positions
    <3>5. /\ MaxValues - count' \in 0 .. MaxValues
          /\ {(head' + i) % MaxValues : i \in 0 .. (MaxValues - count') - 1} \subseteq fresh'
      BY <1>0, <1>2, ReadyStaysFilled DEF ReadyFilled
    <3>6. MaxValues - count' = (MaxValues - count) + Refilled /\ Refilled \in 0 .. MaxValues
      BY <3>2, <3>3, <3>4, SMT
    <3>7. granted' \in SUBSET ((0 .. MaxValues - 1) \ fresh)
      BY <1>0, <1>2, <3>1 DEF RunningIsStale, TypeOK, Positions
    <3>8. Ring!Lend(Refilled)
      BY <1>2, <3>1, <3>5, <3>6, <3>7 DEF Ring!Lend, Ring!Ahead, Ring!Slots
    <3> QED
      BY <3>6, <3>8 DEF Ring!RingNext
  <2> QED
    BY <1>0, <2>0, <2>1, <2>2, <2>3, <2>4, <2>5, <2>6, Steps DEF QueueIInv
<1> QED
  BY <1>1, <1>2

\* The output implements the ring: values go out in ring order, each filled
\* since it went out last, and none is lent to the application before it has
\* gone out, or twice, for every geometry, block and request.
THEOREM ImplementsRingCorrect == Spec => ImplementsRing
<1>1. Init => RingIInv
  BY InitFresh DEF RingIInv, RunningIsStale, Followed, Init
<1>2. Init => Ring!Stopped
  BY DEF Init, Followed, Ring!Stopped
<1> QED
  BY <1>1, <1>2, NextKeepsStale, NextRing, PTL DEF Spec, ImplementsRing, Ring!RingSpec
=============================================================================
