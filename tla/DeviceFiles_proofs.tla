------------------------- MODULE DeviceFiles_proofs -------------------------
(***************************************************************************)
(* Theorems about the device files, for any number of processes, any set   *)
(* of files and any sizes of the buffers.                                  *)
(***************************************************************************)
EXTENDS DeviceFiles, FiniteSetTheorems, SequenceTheorems, TLAPS

-----------------------------------------------------------------------------
(* Types, and where the calls are.                                         *)

Shapes ==
  /\ inUse \in [Flags -> BOOLEAN]
  /\ files \subseteq Processes \X Minors
  /\ call \in [Processes -> Calls]
  /\ databuf \in [{"AinSS", "AoutSS"} -> {0} \cup Buffers]
  /\ bufSize \in [{"AinSS", "AoutSS"} -> {0} \cup Sizes]
  /\ memory \in Seq([live : BOOLEAN, size : Sizes])
  /\ mapped \subseteq Processes \X Minors \X Buffers
  /\ twice \in BOOLEAN

Counted == IsFiniteSet(files) /\ opens = Cardinality(files)

\* A call is through a file that its process has, or is about to have, open.
Placed ==
  \A p \in Processes :
    /\ call[p].at # "user" => call[p].minor \in Minors
    /\ call[p].at = "open" => <<p, call[p].minor>> \notin files
    /\ call[p].at \in {"register", "unregister"} => call[p].minor \in Acquiring
    /\ call[p].at = "register" => call[p].size \in Sizes
    /\ call[p].at \in {"register", "unregister", "release", "close"} =>
         <<p, call[p].minor>> \in files

FilesInv == Shapes /\ Counted /\ Placed

LEMMA BufferOfAcquiring ==
  ASSUME NEW m \in Acquiring
  PROVE  m \in AllMinors /\ m \in Minors /\ BufferOf(m) \in {"AinSS", "AoutSS"}
BY FilesAssumption DEF AllMinors, BufferOf

LEMMA BufferOfMinor ==
  ASSUME NEW m \in Minors
  PROVE  m \in AllMinors /\ BufferOf(m) \in {"AinSS", "AoutSS", "none"}
BY FilesAssumption DEF AllMinors, BufferOf

LEMMA FlagOfMinor ==
  ASSUME NEW m \in Minors
  PROVE  FlagOf(m) \in Flags \cup {"none"} /\ "none" \notin Flags
BY FilesAssumption DEF AllMinors, FlagOf, Flags

LEMMA AfterGo ==
  ASSUME Shapes, NEW p \in Processes, NEW at, NEW m, NEW size,
         [at |-> at, minor |-> m, size |-> size] \in Calls, Go(p, at, m, size)
  PROVE  /\ call' \in [Processes -> Calls]
         /\ call'[p] = [at |-> at, minor |-> m, size |-> size]
         /\ call'[p].at = at /\ call'[p].minor = m /\ call'[p].size = size
         /\ \A q \in Processes \ {p} : call'[q] = call[q]
BY DEF Shapes, Go

LEMMA AfterReturn ==
  ASSUME Shapes, NEW p \in Processes, Return(p)
  PROVE  /\ call' \in [Processes -> Calls]
         /\ call'[p] = Idle /\ call'[p].at = "user"
         /\ \A q \in Processes \ {p} : call'[q] = call[q]
BY DEF Shapes, Return, Idle, Calls, AllMinors

LEMMA FreedShape ==
  ASSUME Shapes, NEW s, FreeBuffer(s), s \in {"AinSS", "AoutSS", "none"}
  PROVE  /\ memory' \in Seq([live : BOOLEAN, size : Sizes])
         /\ Buffers' = Buffers
<1>1. CASE s = "none" \/ databuf[s] = 0
  BY <1>1 DEF FreeBuffer, Shapes, Buffers
<1>2. CASE s # "none" /\ databuf[s] # 0
  <2> DEFINE b == databuf[s]
             freed == [memory[b] EXCEPT !.live = FALSE]
  <2>1. b \in 1 .. Len(memory)
    BY <1>2 DEF Shapes, Buffers
  <2>2. memory[b] \in [live : BOOLEAN, size : Sizes]
    BY <2>1, ElementOfSeq DEF Shapes
  <2>3. freed \in [live : BOOLEAN, size : Sizes]
    BY <2>2
  <2>4. memory' = [memory EXCEPT ![b] = freed]
    BY <1>2 DEF FreeBuffer
  <2> HIDE DEF freed, b
  <2>5. memory' \in Seq([live : BOOLEAN, size : Sizes]) /\ Len(memory') = Len(memory)
    BY <2>1, <2>3, <2>4, ExceptSeq DEF Shapes
  <2> QED
    BY <2>5 DEF Shapes, Buffers
<1> QED
  BY <1>1, <1>2

LEMMA InitFilesInv == Init => FilesInv
<1> SUFFICES ASSUME Init PROVE FilesInv
  OBVIOUS
<1>1. Counted
  BY FS_EmptySet DEF Init, Counted
<1>2. call \in [Processes -> Calls] /\ Placed
  BY DEF Init, Placed, Idle, Calls, AllMinors
<1>3. memory \in Seq([live : BOOLEAN, size : Sizes])
  BY DEF Init
<1>4. inUse \in [Flags -> BOOLEAN] /\ databuf \in [{"AinSS", "AoutSS"} -> {0} \cup Buffers]
  BY DEF Init
<1> QED
  BY <1>1, <1>2, <1>3, <1>4 DEF FilesInv, Shapes, Init

LEMMA NextFilesInv == FilesInv /\ [Next]_vars => FilesInv'
<1> SUFFICES ASSUME FilesInv, [Next]_vars PROVE FilesInv'
  OBVIOUS
<1> USE DEF FilesInv
<1>1. ASSUME NEW p \in Processes, NEW m \in Minors, BeginOpen(p, m) PROVE FilesInv'
  <2>1. [at |-> "open", minor |-> m, size |-> 0] \in Calls
    BY BufferOfMinor DEF Calls
  <2>2. call' \in [Processes -> Calls] /\ Placed'
    BY <1>1, <2>1, AfterGo DEF BeginOpen, Placed
  <2> QED
    BY <1>1, <2>2 DEF BeginOpen, Shapes, Counted, Buffers
<1>2. ASSUME NEW p \in Processes, FinishOpen(p) PROVE FilesInv'
  <2> DEFINE m == call[p].minor
  <2>1. m \in Minors /\ <<p, m>> \notin files
    BY <1>2 DEF FinishOpen, Placed
  <2>2. call' \in [Processes -> Calls] /\ Placed'
    BY <1>2, AfterReturn DEF FinishOpen, Placed
  <2>3. Counted'
    BY <1>2, <2>1, FS_AddElement DEF FinishOpen, Counted, OpensAfterOpen
  <2>4. inUse' \in [Flags -> BOOLEAN]
    BY <1>2 DEF FinishOpen, Taken, Shapes
  <2> QED
    BY <1>2, <2>1, <2>2, <2>3, <2>4 DEF FinishOpen, Shapes, Buffers
<1>3. ASSUME NEW p \in Processes, NEW m \in Minors, NEW size \in Sizes, BeginRegister(p, m, size)
      PROVE  FilesInv'
  <2>1. [at |-> "register", minor |-> m, size |-> size] \in Calls
    BY BufferOfMinor DEF Calls
  <2>2. call' \in [Processes -> Calls] /\ Placed'
    BY <1>3, <2>1, AfterGo DEF BeginRegister, Placed, Holds
  <2>3. bufSize' \in [{"AinSS", "AoutSS"} -> {0} \cup Sizes]
    BY <1>3 DEF BeginRegister, Shapes
  <2> QED
    BY <1>3, <2>2, <2>3 DEF BeginRegister, Shapes, Counted, Buffers
<1>4. ASSUME NEW p \in Processes, NEW ok \in BOOLEAN, FinishRegister(p, ok) PROVE FilesInv'
  <2> DEFINE s == BufferOf(call[p].minor)
  <2>1. s \in {"AinSS", "AoutSS"} /\ call[p].size \in Sizes
    BY <1>4, BufferOfAcquiring DEF FinishRegister, Placed
  <2>2. call' \in [Processes -> Calls] /\ Placed'
    BY <1>4, AfterReturn DEF FinishRegister, Placed
  <2>3. /\ memory' \in Seq([live : BOOLEAN, size : Sizes])
        /\ Buffers \subseteq Buffers'
        /\ ok => Len(memory) + 1 \in Buffers'
    <3>1. CASE ok
      <4> DEFINE new == [live |-> TRUE, size |-> call[p].size]
      <4>1. memory' = Append(memory, new) /\ new \in [live : BOOLEAN, size : Sizes]
        BY <1>4, <2>1, <3>1 DEF FinishRegister
      <4> HIDE DEF new
      <4>2. memory' \in Seq([live : BOOLEAN, size : Sizes]) /\ Len(memory') = Len(memory) + 1
        BY <4>1, AppendProperties DEF Shapes
      <4>3. Buffers = 1 .. Len(memory) /\ Buffers' = 1 .. Len(memory')
        BY <4>2 DEF Shapes, Buffers
      <4>4. Len(memory) \in Nat
        BY DEF Shapes
      <4> QED
        BY <4>2, <4>3, <4>4
    <3>2. CASE ~ok
      BY <1>4, <3>2 DEF FinishRegister, Shapes, Buffers
    <3> QED
      BY <3>1, <3>2
  <2>4. databuf' \in [{"AinSS", "AoutSS"} -> {0} \cup Buffers']
    BY <1>4, <2>1, <2>3 DEF FinishRegister, Shapes
  <2>5. mapped' \subseteq Processes \X Minors \X Buffers'
    BY <1>4, <2>3 DEF FinishRegister, Shapes
  <2>6. twice' \in BOOLEAN
    BY <1>4 DEF FinishRegister, Shapes
  <2> QED
    BY <1>4, <2>2, <2>3, <2>4, <2>5, <2>6 DEF FinishRegister, Shapes, Counted
<1>5. ASSUME NEW p \in Processes, NEW m \in Minors, Mmap(p, m) PROVE FilesInv'
  <2>1. databuf[BufferOf(m)] \in Buffers
    BY <1>5, BufferOfAcquiring DEF Mmap, Shapes
  <2>2. mapped' \subseteq Processes \X Minors \X Buffers
    BY <1>5, <2>1 DEF Mmap, Shapes
  <2> QED
    BY <1>5, <2>2 DEF Mmap, Shapes, Counted, Buffers, Placed
<1>6. ASSUME NEW p \in Processes, NEW m \in Minors, Munmap(p, m) PROVE FilesInv'
  BY <1>6 DEF Munmap, Shapes, Counted, Buffers, Placed
<1>7. ASSUME NEW p \in Processes, NEW m \in Minors, BeginUnregister(p, m) PROVE FilesInv'
  <2>1. [at |-> "unregister", minor |-> m, size |-> 0] \in Calls
    BY BufferOfMinor DEF Calls
  <2>2. call' \in [Processes -> Calls] /\ Placed'
    BY <1>7, <2>1, AfterGo DEF BeginUnregister, Placed, Holds
  <2>3. memory' \in Seq([live : BOOLEAN, size : Sizes]) /\ Buffers' = Buffers
    BY <1>7, FreedShape, BufferOfMinor DEF BeginUnregister
  <2> QED
    BY <1>7, <2>2, <2>3 DEF BeginUnregister, Shapes, Counted
<1>8. ASSUME NEW p \in Processes, FinishUnregister(p) PROVE FilesInv'
  <2>1. call' \in [Processes -> Calls] /\ Placed'
    BY <1>8, AfterReturn DEF FinishUnregister, Placed
  <2>2. databuf' \in [{"AinSS", "AoutSS"} -> {0} \cup Buffers]
    BY <1>8 DEF FinishUnregister, Forgotten, Shapes
  <2> QED
    BY <1>8, <2>1, <2>2 DEF FinishUnregister, Shapes, Counted, Buffers
<1>9. ASSUME NEW p \in Processes, NEW m \in Minors, BeginRelease(p, m) PROVE FilesInv'
  <2>1. [at |-> "release", minor |-> m, size |-> 0] \in Calls
    BY BufferOfMinor DEF Calls
  <2>2. call' \in [Processes -> Calls] /\ Placed'
    BY <1>9, <2>1, AfterGo DEF BeginRelease, Placed, Holds
  <2>3. memory' \in Seq([live : BOOLEAN, size : Sizes]) /\ Buffers' = Buffers
    BY <1>9, FreedShape, BufferOfMinor DEF BeginRelease, Released
  <2> QED
    BY <1>9, <2>2, <2>3 DEF BeginRelease, Shapes, Counted
<1>10. ASSUME NEW p \in Processes, ReleaseForgets(p) PROVE FilesInv'
  <2> DEFINE m == call[p].minor
  <2>1. m \in Minors /\ <<p, m>> \in files
    BY <1>10 DEF ReleaseForgets, Placed
  <2>2. [at |-> "close", minor |-> m, size |-> 0] \in Calls
    BY <2>1, BufferOfMinor DEF Calls
  <2>3. call' \in [Processes -> Calls] /\ Placed'
    BY <1>10, <2>1, <2>2, AfterGo DEF ReleaseForgets, Placed
  <2>4. databuf' \in [{"AinSS", "AoutSS"} -> {0} \cup Buffers]
    BY <1>10 DEF ReleaseForgets, Forgotten, Shapes
  <2> QED
    BY <1>10, <2>3, <2>4 DEF ReleaseForgets, Shapes, Counted, Buffers
<1>11. ASSUME NEW p \in Processes, FinishRelease(p) PROVE FilesInv'
  <2> DEFINE m == call[p].minor
  <2>1. m \in Minors /\ <<p, m>> \in files
    BY <1>11 DEF FinishRelease, Placed
  <2>2. call' \in [Processes -> Calls] /\ Placed'
    BY <1>11, AfterReturn DEF FinishRelease, Placed
  <2>3. Counted'
    BY <1>11, <2>1, FS_RemoveElement DEF FinishRelease, Counted
  <2>4. inUse' \in [Flags -> BOOLEAN]
    BY <1>11 DEF FinishRelease, FlagsAfterClose, Shapes
  <2> QED
    BY <1>11, <2>2, <2>3, <2>4 DEF FinishRelease, Shapes, Buffers
<1>12. CASE UNCHANGED vars
  BY <1>12 DEF vars, Shapes, Counted, Buffers, Placed
<1> QED
  BY <1>1, <1>2, <1>3, <1>4, <1>5, <1>6, <1>7, <1>8, <1>9, <1>10, <1>11, <1>12 DEF Next

LEMMA FilesInvTypeOK == FilesInv => TypeOK
<1> SUFFICES ASSUME FilesInv PROVE opens \in 0 .. Cardinality(Processes) * Cardinality(Minors)
  BY DEF FilesInv, Shapes, TypeOK
<1>1. IsFiniteSet(AllMinors)
  <2>1. IsFiniteSet({} \cup {"AIN"} \cup {"AOUT"} \cup {"DIN"} \cup {"DOUT"})
    BY FS_EmptySet, FS_AddElement
  <2> DEFINE four == {} \cup {"AIN"} \cup {"AOUT"} \cup {"DIN"} \cup {"DOUT"}
  <2>2. IsFiniteSet(four \cup {"UCT"} \cup {"DSPCT"} \cup {"DRV"})
    <3> HIDE DEF four
    <3> QED  BY <2>1, FS_AddElement, ZenonT(30) DEF four
  <2>3. AllMinors = four \cup {"UCT"} \cup {"DSPCT"} \cup {"DRV"}
    BY DEF AllMinors
  <2> QED
    BY <2>2, <2>3
<1>2. IsFiniteSet(Processes) /\ IsFiniteSet(Minors)
  BY <1>1, FS_Subset, FilesAssumption
<1>3. /\ IsFiniteSet(Processes \X Minors)
      /\ Cardinality(Processes \X Minors) = Cardinality(Processes) * Cardinality(Minors)
  BY <1>2, FS_Product
<1>4. Cardinality(files) <= Cardinality(Processes \X Minors)
  BY <1>3, FS_Subset DEF FilesInv, Shapes
<1>5. Cardinality(files) \in Nat /\ Cardinality(Processes \X Minors) \in Nat
  BY <1>3, FS_CardinalityType DEF FilesInv, Counted
<1> QED
  BY <1>3, <1>4, <1>5 DEF FilesInv, Counted

\* pd_board.open counts the open files, and every pointer to a buffer is to one
\* that has been allocated, whatever calls overlap.
THEOREM FilesTypeCorrect == Spec => []TypeOK
<1> QED
  BY InitFilesInv, NextFilesInv, FilesInvTypeOK, PTL DEF Spec

-----------------------------------------------------------------------------
(* Who has a subsystem, when opens and closes do not overlap.              *)

Changing(p) == call[p].at \in {"open", "close"}

\* One process at a time is in an open or a close; and the flag that an open has
\* found clear is still clear when it is set.
OneChanging == \A p, q \in Processes : Changing(p) /\ Changing(q) => p = q
StillClear  == \A p \in Processes : call[p].at = "open" => MayOpen(call[p].minor)

HoldersInv == FilesInv /\ OneChanging /\ StillClear /\ OneHolder /\ InUseIsHeld

\* A step that leaves the open files and the flags alone, and brings nobody into
\* an open or a close.
LEMMA NobodyChanges ==
  ASSUME HoldersInv, files' = files, inUse' = inUse,
         \A p \in Processes : Changing(p)' => call'[p] = call[p]
  PROVE  OneChanging' /\ StillClear' /\ OneHolder' /\ InUseIsHeld'
<1>1. OneChanging'
  BY DEF HoldersInv, OneChanging, Changing
<1>2. StillClear'
  BY DEF HoldersInv, StillClear, Changing, MayOpen
<1>3. OneHolder' /\ InUseIsHeld'
  BY DEF HoldersInv, OneHolder, InUseIsHeld
<1> QED
  BY <1>1, <1>2, <1>3

LEMMA InitHoldersInv == Init => HoldersInv
<1> SUFFICES ASSUME Init PROVE HoldersInv
  OBVIOUS
<1>1. \A p \in Processes : call[p].at = "user"
  BY DEF Init, Idle
<1>2. OneChanging /\ StillClear
  BY <1>1 DEF OneChanging, StillClear, Changing
<1>3. OneHolder /\ InUseIsHeld
  BY DEF Init, OneHolder, InUseIsHeld
<1> QED
  BY <1>2, <1>3, InitFilesInv DEF HoldersInv

LEMMA NextHoldersInv ==
  ASSUME OpensOverlap = FALSE
  PROVE  HoldersInv /\ [Next]_vars => HoldersInv'
<1> SUFFICES ASSUME HoldersInv, [Next]_vars
             PROVE  OneChanging' /\ StillClear' /\ OneHolder' /\ InUseIsHeld'
  BY NextFilesInv DEF HoldersInv
<1> DEFINE Goal == OneChanging' /\ StillClear' /\ OneHolder' /\ InUseIsHeld'
<1>0. FilesInv /\ Shapes /\ Counted /\ Placed
  BY DEF HoldersInv, FilesInv
<1>1. ASSUME NEW p \in Processes, NEW m \in Minors, BeginOpen(p, m) PROVE Goal
  <2>1. [at |-> "open", minor |-> m, size |-> 0] \in Calls
    BY BufferOfMinor DEF Calls
  <2>2. /\ call'[p].at = "open" /\ call'[p].minor = m
        /\ \A q \in Processes \ {p} : call'[q] = call[q]
    BY <1>0, <1>1, <2>1, AfterGo DEF BeginOpen
  <2>3. \A q \in Processes : ~Changing(q)
    BY <1>1 DEF BeginOpen, NobodyElse, Changing
  <2>4. OneChanging'
    BY <2>2, <2>3 DEF OneChanging, Changing
  <2>5. StillClear'
    BY <1>1, <2>2, <2>3 DEF StillClear, Changing, BeginOpen, MayOpen
  <2>6. OneHolder' /\ InUseIsHeld'
    BY <1>1 DEF BeginOpen, HoldersInv, OneHolder, InUseIsHeld
  <2> QED
    BY <2>4, <2>5, <2>6
<1>2. ASSUME NEW p \in Processes, FinishOpen(p) PROVE Goal
  <2> DEFINE m == call[p].minor
  <2>1. m \in Minors /\ <<p, m>> \notin files
    BY <1>0, <1>2 DEF FinishOpen, Placed
  <2>2. call'[p].at = "user" /\ \A q \in Processes \ {p} : call'[q] = call[q]
    BY <1>0, <1>2, AfterReturn DEF FinishOpen
  <2>3. \A q \in Processes : ~Changing(q)'
    BY <1>2, <2>2 DEF FinishOpen, HoldersInv, OneChanging, Changing
  <2>4. OneChanging' /\ StillClear'
    BY <2>3 DEF OneChanging, StillClear, Changing
  <2>5. MayOpen(m)
    BY <1>2 DEF HoldersInv, StillClear, FinishOpen
  <2>6. files' = files \cup {<<p, m>>} /\ inUse' = Taken(m)
    BY <1>2 DEF FinishOpen
  <2>7. FlagOf(m) \in Flags \cup {"none"} /\ "none" \notin Flags
    BY <2>1, FlagOfMinor
  <2>8. ASSUME FlagOf(m) # "none" PROVE \A f \in files : FlagOf(f[2]) # FlagOf(m)
    BY <2>5, <2>7, <2>8 DEF MayOpen, HoldersInv, InUseIsHeld
  <2>9. OneHolder'
    <3> SUFFICES ASSUME NEW f \in files', NEW g \in files', FlagOf(f[2]) = FlagOf(g[2]),
                        FlagOf(f[2]) # "none"
                 PROVE  f = g
      BY DEF OneHolder
    <3>1. CASE f \in files /\ g \in files
      BY <3>1 DEF HoldersInv, OneHolder
    <3>2. CASE f = <<p, m>> \/ g = <<p, m>>
      BY <2>6, <2>8, <3>2
    <3> QED
      BY <2>6, <3>1, <3>2
  <2>10. InUseIsHeld'
    <3> SUFFICES ASSUME NEW u \in Flags
                 PROVE  inUse'[u] <=> \E f \in files' : FlagOf(f[2]) = u
      BY DEF InUseIsHeld
    <3>1. inUse[u] <=> \E f \in files : FlagOf(f[2]) = u
      BY DEF HoldersInv, InUseIsHeld
    <3>2. CASE u = FlagOf(m)
      <4>1. inUse'[u]
        BY <1>0, <2>6, <2>7, <3>2 DEF Taken, Shapes
      <4>2. <<p, m>> \in files' /\ FlagOf(<<p, m>>[2]) = u
        BY <2>6, <3>2
      <4> QED
        BY <4>1, <4>2
    <3>3. CASE u # FlagOf(m)
      <4>1. inUse'[u] = inUse[u]
        BY <1>0, <2>6, <3>3 DEF Taken, Shapes
      <4>2. \A f \in files' : FlagOf(f[2]) = u => f \in files
        BY <2>6, <3>3
      <4> QED
        BY <2>6, <3>1, <4>1, <4>2
    <3> QED
      BY <3>2, <3>3
  <2> QED
    BY <2>4, <2>9, <2>10
<1>3. ASSUME NEW p \in Processes, NEW m \in Minors, NEW size \in Sizes, BeginRegister(p, m, size)
      PROVE  Goal
  <2>1. [at |-> "register", minor |-> m, size |-> size] \in Calls
    BY BufferOfMinor DEF Calls
  <2>2. \A q \in Processes : Changing(q)' => call'[q] = call[q]
    BY <1>0, <1>3, <2>1, AfterGo DEF BeginRegister, Changing
  <2> QED
    BY <1>3, <2>2, NobodyChanges DEF BeginRegister
<1>4. ASSUME NEW p \in Processes, NEW ok \in BOOLEAN, FinishRegister(p, ok) PROVE Goal
  <2>1. \A q \in Processes : Changing(q)' => call'[q] = call[q]
    BY <1>0, <1>4, AfterReturn DEF FinishRegister, Changing
  <2> QED
    BY <1>4, <2>1, NobodyChanges DEF FinishRegister
<1>5. ASSUME NEW p \in Processes, NEW m \in Minors, Mmap(p, m) \/ Munmap(p, m) PROVE Goal
  BY <1>5, NobodyChanges DEF Mmap, Munmap
<1>6. ASSUME NEW p \in Processes, NEW m \in Minors, BeginUnregister(p, m) PROVE Goal
  <2>1. [at |-> "unregister", minor |-> m, size |-> 0] \in Calls
    BY BufferOfMinor DEF Calls
  <2>2. \A q \in Processes : Changing(q)' => call'[q] = call[q]
    BY <1>0, <1>6, <2>1, AfterGo DEF BeginUnregister, Changing
  <2> QED
    BY <1>6, <2>2, NobodyChanges DEF BeginUnregister
<1>7. ASSUME NEW p \in Processes, FinishUnregister(p) PROVE Goal
  <2>1. \A q \in Processes : Changing(q)' => call'[q] = call[q]
    BY <1>0, <1>7, AfterReturn DEF FinishUnregister, Changing
  <2> QED
    BY <1>7, <2>1, NobodyChanges DEF FinishUnregister
<1>8. ASSUME NEW p \in Processes, NEW m \in Minors, BeginRelease(p, m) PROVE Goal
  <2>1. [at |-> "release", minor |-> m, size |-> 0] \in Calls
    BY BufferOfMinor DEF Calls
  <2>2. \A q \in Processes : Changing(q)' => call'[q] = call[q]
    BY <1>0, <1>8, <2>1, AfterGo DEF BeginRelease, Changing
  <2> QED
    BY <1>8, <2>2, NobodyChanges DEF BeginRelease
<1>9. ASSUME NEW p \in Processes, ReleaseForgets(p) PROVE Goal
  <2> DEFINE m == call[p].minor
  <2>1. m \in Minors
    BY <1>0, <1>9 DEF ReleaseForgets, Placed
  <2>2. [at |-> "close", minor |-> m, size |-> 0] \in Calls
    BY <2>1, BufferOfMinor DEF Calls
  <2>3. call'[p].at = "close" /\ \A q \in Processes \ {p} : call'[q] = call[q]
    BY <1>0, <1>9, <2>2, AfterGo DEF ReleaseForgets
  <2>4. \A q \in Processes : ~Changing(q)
    BY <1>9 DEF ReleaseForgets, NobodyElse, Changing
  <2>5. OneChanging'
    BY <2>3, <2>4 DEF OneChanging, Changing
  <2>6. StillClear'
    BY <2>3, <2>4 DEF StillClear, Changing
  <2>7. OneHolder' /\ InUseIsHeld'
    BY <1>9 DEF ReleaseForgets, HoldersInv, OneHolder, InUseIsHeld
  <2> QED
    BY <2>5, <2>6, <2>7
<1>10. ASSUME NEW p \in Processes, FinishRelease(p) PROVE Goal
  <2> DEFINE m == call[p].minor
  <2>1. m \in Minors /\ <<p, m>> \in files
    BY <1>0, <1>10 DEF FinishRelease, Placed
  <2>2. call'[p].at = "user" /\ \A q \in Processes \ {p} : call'[q] = call[q]
    BY <1>0, <1>10, AfterReturn DEF FinishRelease
  <2>3. \A q \in Processes : ~Changing(q)'
    BY <1>10, <2>2 DEF FinishRelease, HoldersInv, OneChanging, Changing
  <2>4. OneChanging' /\ StillClear'
    BY <2>3 DEF OneChanging, StillClear, Changing
  <2>5. files' = files \ {<<p, m>>} /\ inUse' = FlagsAfterClose(m)
    BY <1>10 DEF FinishRelease
  <2>6. OneHolder'
    BY <2>5 DEF HoldersInv, OneHolder
  <2>7. InUseIsHeld'
    <3> SUFFICES ASSUME NEW u \in Flags
                 PROVE  inUse'[u] <=> \E f \in files' : FlagOf(f[2]) = u
      BY DEF InUseIsHeld
    <3>1. inUse[u] <=> \E f \in files : FlagOf(f[2]) = u
      BY DEF HoldersInv, InUseIsHeld
    <3>2. CASE opens = 1
      <4>1. \E f : files = {f}
        BY <1>0, <3>2, FS_Singleton DEF Counted
      <4>2. files' = {}
        BY <2>1, <2>5, <4>1
      <4> QED
        BY <2>5, <3>2, <4>2 DEF FlagsAfterClose
    <3>3. CASE opens # 1 /\ u = FlagOf(m)
      <4>1. u # "none"
        BY <2>1, FlagOfMinor
      <4>2. ~inUse'[u]
        BY <1>0, <2>5, <3>3, <4>1 DEF FlagsAfterClose, Shapes
      <4>3. \A f \in files : FlagOf(f[2]) = u => f = <<p, m>>
        BY <2>1, <3>3, <4>1 DEF HoldersInv, OneHolder
      <4> QED
        BY <2>5, <4>2, <4>3
    <3>4. CASE opens # 1 /\ u # FlagOf(m)
      <4>1. inUse'[u] = inUse[u]
        BY <1>0, <2>5, <3>4 DEF FlagsAfterClose, Shapes
      <4>2. \A f \in files : FlagOf(f[2]) = u => f \in files'
        BY <2>5, <3>4
      <4> QED
        BY <2>5, <3>1, <4>1, <4>2
    <3> QED
      BY <3>2, <3>3, <3>4
  <2> QED
    BY <2>4, <2>6, <2>7
<1>11. CASE UNCHANGED vars
  BY <1>11, NobodyChanges DEF vars
<1> QED
  BY <1>1, <1>2, <1>3, <1>4, <1>5, <1>6, <1>7, <1>8, <1>9, <1>10, <1>11 DEF Next

\* Where opens and closes do not overlap, no two processes ever have the same
\* subsystem open, whatever is opened, forgotten and closed.
THEOREM OneHolderCorrect ==
  ASSUME OpensOverlap = FALSE
  PROVE  Spec => []OneHolder
<1>1. HoldersInv => OneHolder
  BY DEF HoldersInv
<1> QED
  BY <1>1, InitHoldersInv, NextHoldersInv, PTL DEF Spec

\* And a subsystem is marked as in use exactly while somebody has it open: the
\* last close, which clears every flag, clears none that is held.
THEOREM InUseCorrect ==
  ASSUME OpensOverlap = FALSE
  PROVE  Spec => []InUseIsHeld
<1>1. HoldersInv => InUseIsHeld
  BY DEF HoldersInv
<1> QED
  BY <1>1, InitHoldersInv, NextHoldersInv, PTL DEF Spec

-----------------------------------------------------------------------------
(* The buffers, when calls for the same one do not overlap.                *)

Subsystems  == {"AinSS", "AoutSS"}
Handling(p) == call[p].at \in {"register", "unregister", "release"}
Handles(p, s) == Handling(p) /\ BufferOf(call[p].minor) = s

Exclusive == \A s \in Subsystems : \A p, q \in Processes : Handles(p, s) /\ Handles(q, s) => p = q

\* Between the freeing of a buffer and the forgetting of it, it is dead.
FreedBeforeForgotten ==
  \A s \in Subsystems : \A p \in Processes :
    Handles(p, s) /\ call[p].at \in {"unregister", "release"} /\ databuf[s] # 0
      => ~memory[databuf[s]].live

\* The size is written before the memory is allocated.
SizeFirst ==
  \A s \in Subsystems : \A p \in Processes :
    Handles(p, s) /\ call[p].at = "register" => bufSize[s] = call[p].size

LiveIsKnown == ~twice => \A b \in Buffers : memory[b].live => \E s \in Subsystems : databuf[s] = b

\* A buffer that nobody is registering or releasing is alive, with its size.
WholeWhenAlone ==
  \A s \in Subsystems :
    databuf[s] # 0 /\ (\A p \in Processes : ~Handles(p, s))
      => memory[databuf[s]] = [live |-> TRUE, size |-> bufSize[s]]

Apart == databuf["AinSS"] = databuf["AoutSS"] => databuf["AinSS"] = 0

\* Behind every buffer there is a file whose close will release it.
HeldByFile ==
  \A s \in Subsystems :
    databuf[s] # 0 => \E f \in files :
                        /\ BufferOf(f[2]) = s
                        /\ ~(call[f[1]].at = "close" /\ call[f[1]].minor = f[2])

Kept == /\ Exclusive /\ FreedBeforeForgotten /\ SizeFirst /\ LiveIsKnown /\ WholeWhenAlone /\ Apart

BuffersInv == FilesInv /\ Kept /\ HeldByFile

\* What freeing a buffer does to the memory.
LEMMA Freed ==
  ASSUME Shapes, NEW s, s \in Subsystems \cup {"none"}, FreeBuffer(s)
  PROVE  \A b \in Buffers :
           IF s # "none" /\ b = databuf[s]
           THEN memory'[b].live = FALSE
           ELSE memory'[b] = memory[b]
<1>1. CASE s = "none" \/ databuf[s] = 0
  <2>1. 0 \notin Buffers
    BY DEF Shapes, Buffers
  <2> QED
    BY <1>1, <2>1 DEF FreeBuffer
<1>2. CASE s # "none" /\ databuf[s] # 0
  <2>1. databuf[s] \in Buffers
    BY <1>2 DEF Shapes, Subsystems
  <2>2. memory \in [Buffers -> [live : BOOLEAN, size : Sizes]]
    BY LenProperties DEF Shapes, Buffers
  <2>3. memory[databuf[s]] \in [live : BOOLEAN, size : Sizes]
    BY <2>1, <2>2
  <2> DEFINE freed == [memory[databuf[s]] EXCEPT !.live = FALSE]
  <2>4. freed.live = FALSE
    BY <2>3
  <2>5. memory' = [memory EXCEPT ![databuf[s]] = freed]
    BY <1>2 DEF FreeBuffer
  <2> HIDE DEF freed
  <2> QED
    BY <1>2, <2>1, <2>2, <2>4, <2>5
<1> QED
  BY <1>1, <1>2

\* A step that leaves the buffers alone, and everybody who handles one.
LEMMA BuffersAlone ==
  ASSUME BuffersInv, UNCHANGED <<databuf, bufSize, memory, twice>>,
         \A p \in Processes : Handling(p) \/ Handling(p)' => call'[p] = call[p]
  PROVE  Kept'
<1>0. Kept
  BY DEF BuffersInv
<1>1. \A p \in Processes : \A s : Handles(p, s)' <=> Handles(p, s)
  BY DEF Handles, Handling
<1>2. \A p \in Processes : \A s : Handles(p, s) => call'[p] = call[p]
  BY DEF Handles
<1>3. Exclusive'
  BY <1>0, <1>1 DEF Kept, Exclusive
<1>4. FreedBeforeForgotten'
  BY <1>0, <1>1, <1>2 DEF Kept, FreedBeforeForgotten
<1>5. SizeFirst'
  BY <1>0, <1>1, <1>2 DEF Kept, SizeFirst
<1>6. LiveIsKnown'
  BY <1>0 DEF Kept, LiveIsKnown, Buffers
<1>7. WholeWhenAlone'
  BY <1>0, <1>1 DEF Kept, WholeWhenAlone
<1>8. Apart'
  BY <1>0 DEF Kept, Apart
<1> QED
  BY <1>3, <1>4, <1>5, <1>6, <1>7, <1>8 DEF Kept

\* A step that closes no file, begins no close, and sets no pointer.
LEMMA StillHeld ==
  ASSUME BuffersInv, files \subseteq files', UNCHANGED databuf,
         \A p \in Processes : call'[p].at = "close" => call'[p] = call[p]
  PROVE  HeldByFile'
<1> SUFFICES ASSUME NEW s \in Subsystems, databuf'[s] # 0
             PROVE  \E f \in files' : /\ BufferOf(f[2]) = s
                                      /\ ~(call'[f[1]].at = "close" /\ call'[f[1]].minor = f[2])
  BY DEF HeldByFile
<1>1. PICK f \in files : /\ BufferOf(f[2]) = s
                         /\ ~(call[f[1]].at = "close" /\ call[f[1]].minor = f[2])
  BY DEF BuffersInv, HeldByFile
<1>2. f[1] \in Processes
  BY DEF BuffersInv, FilesInv, Shapes
<1> QED
  BY <1>1, <1>2

\* Beginning to free a buffer, from the ioctl or from a close.
LEMMA BeginFreeing ==
  ASSUME BuffersInv, BufferCallsOverlap = FALSE, NEW p \in Processes, NEW m \in Minors,
         NEW at \in {"unregister", "release"},
         call[p].at = "user", Alone(p, m), Go(p, at, m, 0), FreeBuffer(BufferOf(m)),
         UNCHANGED <<databuf, bufSize, twice, files>>
  PROVE  Kept' /\ HeldByFile'
<1>0. FilesInv /\ Kept /\ Shapes
  BY DEF BuffersInv, FilesInv
<1>1. BufferOf(m) \in Subsystems \cup {"none"} /\ "none" \notin Subsystems
  BY BufferOfMinor DEF Subsystems
<1>2. [at |-> at, minor |-> m, size |-> 0] \in Calls
  BY BufferOfMinor DEF Calls
<1>3. /\ call'[p].at = at /\ call'[p].minor = m
      /\ \A q \in Processes \ {p} : call'[q] = call[q]
  BY <1>0, <1>2, AfterGo
<1>4. \A b \in Buffers :
        IF BufferOf(m) # "none" /\ b = databuf[BufferOf(m)]
        THEN memory'[b].live = FALSE ELSE memory'[b] = memory[b]
  BY <1>0, <1>1, Freed
<1>5. Buffers' = Buffers
  BY <1>0, <1>1, FreedShape DEF Subsystems
<1>6. \A s \in Subsystems : databuf[s] # 0 => databuf[s] \in Buffers
  BY <1>0 DEF Shapes, Subsystems
<1>7. \A s \in Subsystems : \A q \in Processes :
        Handles(q, s)' <=> (q # p /\ Handles(q, s)) \/ (q = p /\ s = BufferOf(m))
  BY <1>3 DEF Handles, Handling
<1>8. \A q \in Processes \ {p} : BufferOf(m) # "none" => ~Handles(q, BufferOf(m))
  BY DEF Alone, Handles, Handling
<1>9. Exclusive'
  BY <1>0, <1>1, <1>7, <1>8 DEF Kept, Exclusive
<1>10. FreedBeforeForgotten'
  <2> SUFFICES ASSUME NEW s \in Subsystems, NEW q \in Processes, Handles(q, s)',
                      call'[q].at \in {"unregister", "release"}, databuf[s] # 0
               PROVE  ~memory'[databuf[s]].live
    BY DEF FreedBeforeForgotten
  <2>1. CASE q = p
    BY <1>1, <1>4, <1>6, <1>7, <2>1
  <2>2. CASE q # p
    <3>1. ~memory[databuf[s]].live
      BY <1>0, <1>3, <1>7, <2>2 DEF Kept, FreedBeforeForgotten
    <3> QED
      BY <1>4, <1>6, <3>1
  <2> QED
    BY <2>1, <2>2
<1>11. SizeFirst'
  BY <1>0, <1>3, <1>7 DEF Kept, SizeFirst
<1>12. LiveIsKnown'
  BY <1>0, <1>4, <1>5 DEF Kept, LiveIsKnown
<1>13. WholeWhenAlone'
  <2> SUFFICES ASSUME NEW s \in Subsystems, databuf[s] # 0, \A q \in Processes : ~Handles(q, s)'
               PROVE  memory'[databuf[s]] = [live |-> TRUE, size |-> bufSize[s]]
    BY DEF WholeWhenAlone
  <2>1. s # BufferOf(m)
    BY <1>7
  <2>2. \A q \in Processes : ~Handles(q, s)
    <3>1. ~Handles(p, s)
      BY DEF Handles, Handling
    <3> QED
      BY <1>7, <3>1
  <2>3. memory[databuf[s]] = [live |-> TRUE, size |-> bufSize[s]]
    BY <1>0, <2>2 DEF Kept, WholeWhenAlone
  <2>4. BufferOf(m) # "none" => databuf[s] # databuf[BufferOf(m)]
    BY <1>0, <1>1, <2>1 DEF Kept, Apart, Subsystems
  <2> QED
    BY <1>4, <1>6, <2>3, <2>4
<1>14. Apart'
  BY <1>0 DEF Kept, Apart
<1>15. HeldByFile'
  <2>1. \A q \in Processes : call'[q].at = "close" => call'[q] = call[q]
    BY <1>3
  <2> QED
    BY <2>1, StillHeld
<1> QED
  BY <1>9, <1>10, <1>11, <1>12, <1>13, <1>14, <1>15 DEF Kept

\* Forgetting the buffer that was freed.
LEMMA Forgetting ==
  ASSUME BuffersInv, NEW p \in Processes,
         call[p].at \in {"unregister", "release"},
         databuf' = Forgotten(BufferOf(call[p].minor)),
         call' \in [Processes -> Calls], ~Handling(p)',
         \A q \in Processes \ {p} : call'[q] = call[q],
         UNCHANGED <<bufSize, memory, twice, files>>,
         call'[p].at = "close" => call'[p].minor = call[p].minor
  PROVE  Kept' /\ HeldByFile'
<1> DEFINE t == BufferOf(call[p].minor)
<1>0. FilesInv /\ Kept /\ Shapes /\ Placed
  BY DEF BuffersInv, FilesInv
<1>1. t \in Subsystems \cup {"none"} /\ "none" \notin Subsystems
  <2>1. call[p].minor \in Minors
    BY <1>0 DEF Placed
  <2> QED
    BY <2>1, BufferOfMinor DEF Subsystems
<1>2. \A s \in Subsystems : databuf'[s] = IF s = t THEN 0 ELSE databuf[s]
  BY <1>0, <1>1 DEF Forgotten, Shapes, Subsystems
<1>3. \A s \in Subsystems : \A q \in Processes : Handles(q, s)' <=> q # p /\ Handles(q, s)
  BY DEF Handles, Handling
<1>4. \A s \in Subsystems : Handles(p, s) <=> s = t
  BY DEF Handles, Handling
<1> HIDE DEF t
<1>5. Exclusive'
  BY <1>0, <1>3 DEF Kept, Exclusive
<1>6. FreedBeforeForgotten'
  BY <1>0, <1>2, <1>3 DEF Kept, FreedBeforeForgotten
<1>7. SizeFirst'
  BY <1>0, <1>3 DEF Kept, SizeFirst
<1>8. LiveIsKnown'
  <2> SUFFICES ASSUME ~twice, NEW b \in Buffers, memory[b].live
               PROVE  \E s \in Subsystems : databuf'[s] = b
    BY DEF LiveIsKnown, Buffers
  <2>1. PICK s \in Subsystems : databuf[s] = b
    BY <1>0 DEF Kept, LiveIsKnown
  <2>2. b # 0
    BY <1>0 DEF Shapes, Buffers
  <2>3. s # t
    BY <1>0, <1>4, <2>1, <2>2 DEF Kept, FreedBeforeForgotten
  <2> QED
    BY <1>2, <2>1, <2>3
<1>9. WholeWhenAlone'
  <2> SUFFICES ASSUME NEW s \in Subsystems, databuf'[s] # 0, \A q \in Processes : ~Handles(q, s)'
               PROVE  memory[databuf'[s]] = [live |-> TRUE, size |-> bufSize[s]]
    BY DEF WholeWhenAlone
  <2>1. s # t /\ databuf'[s] = databuf[s]
    BY <1>2
  <2>2. \A q \in Processes : ~Handles(q, s)
    BY <1>3, <1>4, <2>1
  <2> QED
    BY <1>0, <2>1, <2>2 DEF Kept, WholeWhenAlone
<1>10. Apart'
  BY <1>0, <1>2 DEF Kept, Apart, Subsystems
<1>11. HeldByFile'
  <2> SUFFICES ASSUME NEW s \in Subsystems, databuf'[s] # 0
               PROVE  \E f \in files : /\ BufferOf(f[2]) = s
                                       /\ ~(call'[f[1]].at = "close" /\ call'[f[1]].minor = f[2])
    BY DEF HeldByFile
  <2>1. s # t /\ databuf[s] # 0
    BY <1>2
  <2>2. PICK f \in files : /\ BufferOf(f[2]) = s
                           /\ ~(call[f[1]].at = "close" /\ call[f[1]].minor = f[2])
    BY <2>1 DEF BuffersInv, HeldByFile
  <2>3. f[1] \in Processes
    BY <1>0 DEF Shapes
  <2>4. f[2] # call[p].minor
    BY <2>1, <2>2 DEF t
  <2> QED
    BY <2>2, <2>3, <2>4
<1> QED
  BY <1>5, <1>6, <1>7, <1>8, <1>9, <1>10, <1>11 DEF Kept

LEMMA InitBuffersInv == Init => BuffersInv
<1> SUFFICES ASSUME Init PROVE BuffersInv
  OBVIOUS
<1>1. \A s \in Subsystems : databuf[s] = 0
  BY DEF Init, Subsystems
<1>2. \A p \in Processes : call[p].at = "user"
  BY DEF Init, Idle
<1>3. Exclusive /\ FreedBeforeForgotten /\ SizeFirst
  BY <1>2 DEF Exclusive, FreedBeforeForgotten, SizeFirst, Handles, Handling
<1>4. WholeWhenAlone /\ HeldByFile /\ Apart
  BY <1>1 DEF WholeWhenAlone, HeldByFile, Apart, Subsystems
<1>5. LiveIsKnown
  BY DEF Init, LiveIsKnown, Buffers
<1> QED
  BY <1>3, <1>4, <1>5, InitFilesInv DEF BuffersInv, Kept

\* One step per action; those that touch no buffer first.
LEMMA NextBuffersInv ==
  ASSUME BufferCallsOverlap = FALSE
  PROVE  BuffersInv /\ [Next]_vars => BuffersInv'
<1> SUFFICES ASSUME BuffersInv, [Next]_vars PROVE Kept' /\ HeldByFile'
  BY NextFilesInv DEF BuffersInv
<1>0. FilesInv /\ Kept /\ Shapes /\ Placed
  BY DEF BuffersInv, FilesInv
<1>1. ASSUME NEW p \in Processes, NEW m \in Minors, BeginOpen(p, m) PROVE Kept' /\ HeldByFile'
  <2>1. [at |-> "open", minor |-> m, size |-> 0] \in Calls
    BY BufferOfMinor DEF Calls
  <2>2. /\ call'[p].at = "open" /\ call[p].at = "user"
        /\ \A q \in Processes \ {p} : call'[q] = call[q]
    BY <1>0, <1>1, <2>1, AfterGo DEF BeginOpen, Idle
  <2>3. \A q \in Processes : Handling(q) \/ Handling(q)' => call'[q] = call[q]
    BY <2>2 DEF Handling
  <2>4. Kept'
    BY <1>1, <2>3, BuffersAlone DEF BeginOpen
  <2>5. HeldByFile'
    BY <1>1, <2>2, StillHeld DEF BeginOpen
  <2> QED
    BY <2>4, <2>5
<1>2. ASSUME NEW p \in Processes, FinishOpen(p) PROVE Kept' /\ HeldByFile'
  <2>1. call'[p].at = "user" /\ \A q \in Processes \ {p} : call'[q] = call[q]
    BY <1>0, <1>2, AfterReturn DEF FinishOpen
  <2>2. \A q \in Processes : Handling(q) \/ Handling(q)' => call'[q] = call[q]
    BY <1>2, <2>1 DEF Handling, FinishOpen
  <2>3. Kept'
    BY <1>2, <2>2, BuffersAlone DEF FinishOpen
  <2>4. HeldByFile'
    BY <1>2, <2>1, StillHeld DEF FinishOpen
  <2> QED
    BY <2>3, <2>4
<1>3. ASSUME NEW p \in Processes, NEW m \in Minors, Mmap(p, m) \/ Munmap(p, m)
      PROVE  Kept' /\ HeldByFile'
  <2>1. UNCHANGED <<databuf, bufSize, memory, twice, files, call>>
    BY <1>3 DEF Mmap, Munmap
  <2> QED
    BY <2>1, BuffersAlone, StillHeld
<1>4. ASSUME NEW p \in Processes, FinishRelease(p) PROVE Kept' /\ HeldByFile'
  <2> DEFINE m == call[p].minor
  <2>1. call'[p].at = "user" /\ \A q \in Processes \ {p} : call'[q] = call[q]
    BY <1>0, <1>4, AfterReturn DEF FinishRelease
  <2>2. \A q \in Processes : Handling(q) \/ Handling(q)' => call'[q] = call[q]
    BY <1>4, <2>1 DEF Handling, FinishRelease
  <2>3. Kept'
    BY <1>4, <2>2, BuffersAlone DEF FinishRelease
  <2>4. HeldByFile'
    <3> SUFFICES ASSUME NEW s \in Subsystems, databuf[s] # 0
                 PROVE  \E f \in files' :
                          /\ BufferOf(f[2]) = s
                          /\ ~(call'[f[1]].at = "close" /\ call'[f[1]].minor = f[2])
      BY <1>4 DEF HeldByFile, FinishRelease
    <3>1. PICK f \in files : /\ BufferOf(f[2]) = s
                             /\ ~(call[f[1]].at = "close" /\ call[f[1]].minor = f[2])
      BY DEF BuffersInv, HeldByFile
    <3>2. f[1] \in Processes
      BY <1>0 DEF Shapes
    <3>3. f # <<p, m>>
      BY <1>4, <3>1 DEF FinishRelease
    <3> QED
      BY <1>4, <2>1, <3>1, <3>2, <3>3 DEF FinishRelease
  <2> QED
    BY <2>3, <2>4
<1>5. ASSUME NEW p \in Processes, NEW m \in Minors, NEW size \in Sizes, BeginRegister(p, m, size)
      PROVE  Kept' /\ HeldByFile'
  <2>1. [at |-> "register", minor |-> m, size |-> size] \in Calls
    BY BufferOfMinor DEF Calls
  <2>2. /\ call'[p].at = "register" /\ call'[p].minor = m /\ call'[p].size = size
        /\ \A q \in Processes \ {p} : call'[q] = call[q]
    BY <1>0, <1>5, <2>1, AfterGo DEF BeginRegister
  <2>3. BufferOf(m) \in Subsystems
    BY <1>5, BufferOfAcquiring DEF BeginRegister, Subsystems
  <2>4. \A s \in Subsystems : bufSize'[s] = IF s = BufferOf(m) THEN size ELSE bufSize[s]
    BY <1>0, <1>5, <2>3 DEF BeginRegister, Shapes, Subsystems
  <2>5. \A s \in Subsystems : \A q \in Processes :
          Handles(q, s)' <=> (q # p /\ Handles(q, s)) \/ (q = p /\ s = BufferOf(m))
    BY <2>2 DEF Handles, Handling
  <2>6. \A q \in Processes \ {p} : ~Handles(q, BufferOf(m))
    BY <1>5, <2>3 DEF BeginRegister, Alone, Handles, Handling, Subsystems
  <2>7. \A s \in Subsystems : ~Handles(p, s)
    BY <1>5 DEF BeginRegister, Holds, Idle, Handles, Handling
  <2>8. UNCHANGED <<databuf, memory, twice, files>>
    BY <1>5 DEF BeginRegister
  <2>9. Exclusive'
    BY <1>0, <2>5, <2>6 DEF Kept, Exclusive
  <2>10. FreedBeforeForgotten'
    BY <1>0, <2>2, <2>5, <2>8 DEF Kept, FreedBeforeForgotten
  <2>11. SizeFirst'
    BY <1>0, <2>2, <2>4, <2>5, <2>6 DEF Kept, SizeFirst
  <2>12. LiveIsKnown'
    BY <1>0, <2>8 DEF Kept, LiveIsKnown, Buffers
  <2>13. WholeWhenAlone'
    BY <1>0, <2>4, <2>5, <2>7, <2>8 DEF Kept, WholeWhenAlone
  <2>14. Apart'
    BY <1>0, <2>8 DEF Kept, Apart
  <2>15. HeldByFile'
    BY <2>2, <2>8, StillHeld
  <2> QED
    BY <2>9, <2>10, <2>11, <2>12, <2>13, <2>14, <2>15 DEF Kept
<1>6. ASSUME NEW p \in Processes, NEW ok \in BOOLEAN, FinishRegister(p, ok)
      PROVE  Kept' /\ HeldByFile'
  <2> DEFINE t == BufferOf(call[p].minor)
             new == [live |-> TRUE, size |-> call[p].size]
  <2>1. t \in Subsystems /\ call[p].size \in Sizes /\ <<p, call[p].minor>> \in files
    BY <1>0, <1>6, BufferOfAcquiring DEF FinishRegister, Placed, Subsystems
  <2>2. call'[p].at = "user" /\ \A q \in Processes \ {p} : call'[q] = call[q]
    BY <1>0, <1>6, AfterReturn DEF FinishRegister
  <2>3. \A s \in Subsystems : \A q \in Processes : Handles(q, s)' <=> q # p /\ Handles(q, s)
    BY <2>2 DEF Handles, Handling
  <2>4. \A s \in Subsystems : Handles(p, s) <=> s = t
    BY <1>6 DEF Handles, Handling, FinishRegister
  <2>5. Len(memory) \in Nat /\ Buffers = 1 .. Len(memory)
    BY <1>0, LenProperties DEF Shapes, Buffers
  <2>6. /\ \A b \in Buffers : b \in Buffers' /\ memory'[b] = memory[b]
        /\ ok => memory'[Len(memory) + 1] = new
        /\ \A b \in Buffers' : b \in Buffers \/ (ok /\ b = Len(memory) + 1)
    <3>1. CASE ok
      <4>1. memory' = Append(memory, new) /\ new \in [live : BOOLEAN, size : Sizes]
        BY <1>6, <2>1, <3>1 DEF FinishRegister
      <4> HIDE DEF new
      <4>2. /\ memory' \in Seq([live : BOOLEAN, size : Sizes])
            /\ Len(memory') = Len(memory) + 1
            /\ \A b \in 1 .. Len(memory) : memory'[b] = memory[b]
            /\ memory'[Len(memory) + 1] = new
        BY <1>0, <4>1, AppendProperties DEF Shapes
      <4>3. Buffers' = 1 .. Len(memory')
        BY <4>2, LenProperties DEF Buffers
      <4> QED
        BY <2>5, <3>1, <4>2, <4>3
    <3>2. CASE ~ok
      BY <1>6, <3>2 DEF FinishRegister, Buffers
    <3> QED
      BY <3>1, <3>2
  <2>7. \A s \in Subsystems :
          databuf'[s] = IF s = t THEN (IF ok THEN Len(memory) + 1 ELSE 0) ELSE databuf[s]
    BY <1>0, <1>6, <2>1 DEF FinishRegister, Shapes, Subsystems
  <2>8. \A s \in Subsystems : databuf[s] # 0 => databuf[s] \in Buffers
    BY <1>0 DEF Shapes, Subsystems
  <2>9. twice' = (twice \/ databuf[t] # 0) /\ UNCHANGED <<bufSize, files>>
    BY <1>6 DEF FinishRegister
  <2>10. call[p].at = "register"
    BY <1>6 DEF FinishRegister
  <2>11. bufSize[t] = call[p].size
    BY <1>0, <2>1, <2>4, <2>10 DEF Kept, SizeFirst
  <2> HIDE DEF t
  <2>12. Exclusive'
    BY <1>0, <2>3 DEF Kept, Exclusive
  <2>13. FreedBeforeForgotten'
    <3> SUFFICES ASSUME NEW s \in Subsystems, NEW q \in Processes, Handles(q, s)',
                        call'[q].at \in {"unregister", "release"}, databuf'[s] # 0
                 PROVE  ~memory'[databuf'[s]].live
      BY DEF FreedBeforeForgotten
    <3>1. q # p /\ Handles(q, s) /\ call'[q] = call[q]
      BY <2>2, <2>3
    <3>2. s # t
      BY <1>0, <2>1, <2>4, <3>1 DEF Kept, Exclusive
    <3>3. databuf'[s] = databuf[s] /\ databuf[s] \in Buffers
      BY <2>7, <2>8, <3>2
    <3>4. ~memory[databuf[s]].live
      BY <1>0, <3>1, <3>3 DEF Kept, FreedBeforeForgotten
    <3> QED
      BY <2>6, <3>3, <3>4
  <2>14. SizeFirst'
    BY <1>0, <2>2, <2>3, <2>9 DEF Kept, SizeFirst
  <2>15. LiveIsKnown'
    <3> SUFFICES ASSUME ~twice', NEW b \in Buffers', memory'[b].live
                 PROVE  \E s \in Subsystems : databuf'[s] = b
      BY DEF LiveIsKnown
    <3>1. CASE ok /\ b = Len(memory) + 1
      BY <2>1, <2>7, <3>1
    <3>2. CASE b \in Buffers
      <4>1. PICK s \in Subsystems : databuf[s] = b
        BY <1>0, <2>6, <2>9, <3>2 DEF Kept, LiveIsKnown
      <4>2. b # 0
        BY <2>5, <3>2
      <4>3. s # t
        BY <2>9, <4>1, <4>2
      <4> QED
        BY <2>7, <4>1, <4>3
    <3> QED
      BY <2>6, <3>1, <3>2
  <2>16. WholeWhenAlone'
    <3> SUFFICES ASSUME NEW s \in Subsystems, databuf'[s] # 0, \A q \in Processes : ~Handles(q, s)'
                 PROVE  memory'[databuf'[s]] = [live |-> TRUE, size |-> bufSize[s]]
      BY <2>9 DEF WholeWhenAlone
    <3>1. CASE s = t
      <4>1. ok /\ databuf'[s] = Len(memory) + 1
        BY <2>7, <3>1
      <4> QED
        BY <2>6, <2>11, <3>1, <4>1
    <3>2. CASE s # t
      <4>1. databuf'[s] = databuf[s] /\ databuf[s] \in Buffers
        BY <2>7, <2>8, <3>2
      <4>2. \A q \in Processes : ~Handles(q, s)
        BY <2>3, <2>4, <3>2
      <4>3. memory[databuf[s]] = [live |-> TRUE, size |-> bufSize[s]]
        BY <1>0, <4>1, <4>2 DEF Kept, WholeWhenAlone
      <4> QED
        BY <2>6, <4>1, <4>3
    <3> QED
      BY <3>1, <3>2
  <2>17. Apart'
    <3>1. \A s \in Subsystems : databuf[s] # Len(memory) + 1
      BY <2>5, <2>8
    <3> QED
      BY <1>0, <2>7, <3>1 DEF Kept, Apart, Subsystems
  <2>18. HeldByFile'
    <3> SUFFICES ASSUME NEW s \in Subsystems, databuf'[s] # 0
                 PROVE  \E f \in files : /\ BufferOf(f[2]) = s
                                         /\ ~(call'[f[1]].at = "close" /\ call'[f[1]].minor = f[2])
      BY <2>9 DEF HeldByFile
    <3>1. CASE s = t
      <4>1. BufferOf(<<p, call[p].minor>>[2]) = s
        BY <3>1 DEF t
      <4> QED
        BY <2>1, <2>2, <4>1
    <3>2. CASE s # t
      <4>1. PICK f \in files : /\ BufferOf(f[2]) = s
                               /\ ~(call[f[1]].at = "close" /\ call[f[1]].minor = f[2])
        BY <2>7, <3>2 DEF BuffersInv, HeldByFile
      <4>2. f[1] \in Processes
        BY <1>0 DEF Shapes
      <4> QED
        BY <2>2, <4>1, <4>2
    <3> QED
      BY <3>1, <3>2
  <2> QED
    BY <2>12, <2>13, <2>14, <2>15, <2>16, <2>17, <2>18 DEF Kept
<1>7. ASSUME NEW p \in Processes, NEW m \in Minors, BeginUnregister(p, m) PROVE Kept' /\ HeldByFile'
  <2>1. call[p].at = "user"
    BY <1>7 DEF BeginUnregister, Holds, Idle
  <2> QED
    BY <1>7, <2>1, BeginFreeing DEF BeginUnregister
<1>8. ASSUME NEW p \in Processes, NEW m \in Minors, BeginRelease(p, m) PROVE Kept' /\ HeldByFile'
  <2>1. call[p].at = "user"
    BY <1>8 DEF BeginRelease, Holds, Idle
  <2> QED
    BY <1>8, <2>1, BeginFreeing DEF BeginRelease, Released
<1>9. ASSUME NEW p \in Processes, FinishUnregister(p) PROVE Kept' /\ HeldByFile'
  <2>1. /\ call' \in [Processes -> Calls] /\ call'[p].at = "user"
        /\ \A q \in Processes \ {p} : call'[q] = call[q]
    BY <1>0, <1>9, AfterReturn DEF FinishUnregister
  <2>2. ~Handling(p)'
    BY <2>1 DEF Handling
  <2> QED
    BY <1>9, <2>1, <2>2, Forgetting DEF FinishUnregister
<1>10. ASSUME NEW p \in Processes, ReleaseForgets(p) PROVE Kept' /\ HeldByFile'
  <2> DEFINE m == call[p].minor
  <2>1. m \in Minors
    BY <1>0, <1>10 DEF ReleaseForgets, Placed
  <2>2. [at |-> "close", minor |-> m, size |-> 0] \in Calls
    BY <2>1, BufferOfMinor DEF Calls
  <2>3. /\ call' \in [Processes -> Calls] /\ call'[p].at = "close" /\ call'[p].minor = m
        /\ \A q \in Processes \ {p} : call'[q] = call[q]
    BY <1>0, <1>10, <2>2, AfterGo DEF ReleaseForgets
  <2>4. ~Handling(p)'
    BY <2>3 DEF Handling
  <2> QED
    BY <1>10, <2>3, <2>4, Forgetting DEF ReleaseForgets, Released
<1>11. CASE UNCHANGED vars
  BY <1>11, BuffersAlone, StillHeld DEF vars
<1> QED
  BY <1>1, <1>2, <1>3, <1>4, <1>5, <1>6, <1>7, <1>8, <1>9, <1>10, <1>11 DEF Next

\* Where no two calls register or release the same buffer at once, and nobody
\* registers one over another, the last close leaves no buffer allocated:
\* whatever the processes forgot, and whoever died.
THEOREM NothingLeftCorrect == Spec => []NothingLeft
<1>1. CASE BufferCallsOverlap = TRUE
  <2>1. NothingLeft
    BY <1>1 DEF NothingLeft
  <2> QED
    BY <2>1, PTL
<1>2. CASE BufferCallsOverlap = FALSE
  <2>1. BuffersInv => NothingLeft
    <3> SUFFICES ASSUME BuffersInv, opens = 0, ~twice, NEW b \in Buffers, memory[b].live
                 PROVE  FALSE
      BY DEF NothingLeft
    <3>1. files = {}
      BY FS_EmptySet DEF BuffersInv, FilesInv, Counted
    <3>2. PICK s \in Subsystems : databuf[s] = b
      BY DEF BuffersInv, Kept, LiveIsKnown
    <3>3. b # 0
      BY DEF BuffersInv, FilesInv, Shapes, Buffers
    <3> QED
      BY <3>1, <3>2, <3>3 DEF BuffersInv, HeldByFile
  <2> QED
    BY <1>2, <2>1, InitBuffersInv, NextBuffersInv, PTL DEF Spec
<1> QED
  BY <1>1, <1>2, FilesAssumption

\* The step by which a process begins to free a buffer: it is alone with it.
LEMMA FreesAlone ==
  ASSUME BufferCallsOverlap = FALSE, BuffersInv, [Next]_vars, NEW p \in Processes,
         call[p] = Idle, call'[p].at \in {"unregister", "release"}
  PROVE  \A s \in Subsystems : BufferOf(call'[p].minor) = s
           => \A q \in Processes : ~Handles(q, s)
<1>0. Shapes /\ call[p].at = "user"
  BY DEF BuffersInv, FilesInv, Idle
<1>1. \A q \in Processes : \A m \in Minors : \A size \in Sizes \cup {0} :
        [at |-> "open", minor |-> m, size |-> size] \in Calls
        /\ [at |-> "register", minor |-> m, size |-> size] \in Calls
        /\ [at |-> "unregister", minor |-> m, size |-> size] \in Calls
        /\ [at |-> "release", minor |-> m, size |-> size] \in Calls
        /\ [at |-> "close", minor |-> m, size |-> size] \in Calls
  BY BufferOfMinor DEF Calls
<1>2. \A q \in Processes : call[q].at # "user" => call[q].minor \in Minors
  BY DEF BuffersInv, FilesInv, Placed
<1>3. \E m \in Minors : BeginUnregister(p, m) \/ BeginRelease(p, m)
  <2>1. ASSUME NEW q \in Processes, NEW m \in Minors, BeginOpen(q, m) PROVE FALSE
    <3>1. Go(q, "open", m, 0) /\ [at |-> "open", minor |-> m, size |-> 0] \in Calls
      BY <1>1, <2>1 DEF BeginOpen
    <3>2. call'[q].at = "open" /\ \A r \in Processes \ {q} : call'[r] = call[r]
      BY <1>0, <3>1, AfterGo
    <3> QED
      BY <1>0, <3>2
  <2>2. ASSUME NEW q \in Processes,
               \/ FinishOpen(q) \/ FinishUnregister(q) \/ FinishRelease(q)
               \/ \E ok \in BOOLEAN : FinishRegister(q, ok)
        PROVE  FALSE
    <3>1. Return(q)
      BY <2>2 DEF FinishOpen, FinishUnregister, FinishRelease, FinishRegister
    <3> QED
      BY <1>0, <3>1, AfterReturn
  <2>3. ASSUME NEW q \in Processes, ReleaseForgets(q) PROVE FALSE
    <3>1. call[q].at = "release" /\ Go(q, "close", call[q].minor, 0)
      BY <2>3 DEF ReleaseForgets
    <3>2. call[q].minor \in Minors /\ 0 \in Sizes \cup {0}
      BY <1>2, <3>1
    <3>3. [at |-> "close", minor |-> call[q].minor, size |-> 0] \in Calls
      BY <1>1, <3>2
    <3>4. call'[q].at = "close" /\ \A r \in Processes \ {q} : call'[r] = call[r]
      BY <1>0, <3>1, <3>3, AfterGo
    <3> QED
      BY <1>0, <3>4
  <2>4. ASSUME NEW q \in Processes, NEW m \in Minors, NEW size \in Sizes, BeginRegister(q, m, size)
        PROVE  FALSE
    <3>1. Go(q, "register", m, size) /\ [at |-> "register", minor |-> m, size |-> size] \in Calls
      BY <1>1, <2>4 DEF BeginRegister
    <3>2. call'[q].at = "register" /\ \A r \in Processes \ {q} : call'[r] = call[r]
      BY <1>0, <3>1, AfterGo
    <3> QED
      BY <1>0, <3>2
  <2>5. ASSUME NEW q \in Processes, NEW m \in Minors, Mmap(q, m) \/ Munmap(q, m) PROVE FALSE
    BY <1>0, <2>5 DEF Mmap, Munmap
  <2>6. ASSUME UNCHANGED vars PROVE FALSE
    BY <1>0, <2>6 DEF vars
  <2>7. ASSUME NEW q \in Processes, NEW m \in Minors, BeginUnregister(q, m) \/ BeginRelease(q, m)
        PROVE  q = p
    BY <1>0, <1>1, <2>7, AfterGo DEF BeginUnregister, BeginRelease
  <2> QED
    BY <2>1, <2>2, <2>3, <2>4, <2>5, <2>6, <2>7 DEF Next
<1>4. PICK m \in Minors : BeginUnregister(p, m) \/ BeginRelease(p, m)
  BY <1>3
<1>5. call'[p].minor = m
  BY <1>0, <1>1, <1>4, AfterGo DEF BeginUnregister, BeginRelease
<1>6. Alone(p, m)
  BY <1>4 DEF BeginUnregister, BeginRelease
<1> QED
  BY <1>0, <1>5, <1>6 DEF Alone, Handles, Handling, Subsystems

\* A buffer is freed once, and with the size it was allocated with, however many
\* files lead to it.
THEOREM FreedOnceWholeCorrect == Spec => FreedOnceWhole
<1>1. CASE BufferCallsOverlap = TRUE
  <2>1. ~BufferCallsOverlap =>
          \A s \in {"AinSS", "AoutSS"} : \A p \in Processes :
            /\ call[p] = Idle /\ call'[p].at \in {"unregister", "release"}
            /\ BufferOf(call'[p].minor) = s /\ databuf[s] # 0
            => memory[databuf[s]] = [live |-> TRUE, size |-> bufSize[s]]
    BY <1>1
  <2> QED
    BY <2>1, PTL DEF FreedOnceWhole
<1>2. CASE BufferCallsOverlap = FALSE
  <2> DEFINE Whole ==
        \A s \in Subsystems : \A p \in Processes :
          /\ call[p] = Idle /\ call'[p].at \in {"unregister", "release"}
          /\ BufferOf(call'[p].minor) = s /\ databuf[s] # 0
          => memory[databuf[s]] = [live |-> TRUE, size |-> bufSize[s]]
  <2>1. BuffersInv /\ [Next]_vars => Whole
    BY <1>2, FreesAlone DEF BuffersInv, Kept, WholeWhenAlone
  <2>2. Whole => (~BufferCallsOverlap =>
                  \A s \in {"AinSS", "AoutSS"} : \A p \in Processes :
                    /\ call[p] = Idle /\ call'[p].at \in {"unregister", "release"}
                    /\ BufferOf(call'[p].minor) = s /\ databuf[s] # 0
                    => memory[databuf[s]] = [live |-> TRUE, size |-> bufSize[s]])
    BY DEF Subsystems
  <2> QED
    BY <1>2, <2>1, <2>2, InitBuffersInv, NextBuffersInv, PTL DEF Spec, FreedOnceWhole
<1> QED
  BY <1>1, <1>2, FilesAssumption
=============================================================================
