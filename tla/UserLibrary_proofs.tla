-------------------------- MODULE UserLibrary_proofs --------------------------
(***************************************************************************)
(* Proofs about the segment of shared memory that the instances of the     *)
(* user library share: it goes with its last user whatever the others do   *)
(* meanwhile, and every board gets described though instances that found   *)
(* no segment at the same time end each other's loading.  Then about the   *)
(* results of its functions.                                               *)
(***************************************************************************)
EXTENDS UserLibrary, FiniteSetTheorems, TLAPS

Before == {"out", "find", "create", "attach", "stat", "remove"}
Places == Before \cup {"open", "read", "fill", "in"}

\* The part of the type invariant that both results need.
HandlesOK ==
  /\ at \in [Processes -> Places]
  /\ pointer \in [Processes -> {"null", "bad", "segment"}]
  /\ shmid \in [Processes -> Nat]
  /\ key \in Nat /\ made \in Nat
  /\ \A p \in Processes : at[p] \in Before => pointer[p] # "segment"
-----------------------------------------------------------------------------
(* The segment goes                                                        *)

\* p is about to attach to s, or to look whether it was the last.
Concerned(p, s) == at[p] \in {"attach", "stat", "remove"} /\ shmid[p] = s

\* A segment that nobody uses is the concern of some process.
SegmentIInv ==
  /\ HandlesOK
  /\ "death" \notin disturbed =>
       \A s \in exists : Attached(s) # {} \/ \E p \in Processes : Concerned(p, s)
-----------------------------------------------------------------------------
(* Every board is described                                                *)

Creators == {p \in Processes : at[p] \in {"find", "create"}}

Descriptions == {"blank", "partial", "mixing", "whole", "mixed"}

TablesOK ==
  /\ board \in [Processes -> Boards] /\ bFirst \in [Processes -> BOOLEAN]
  /\ infos \in [Segments -> [Boards -> Descriptions]]
  /\ fd \in [Boards -> Nat] /\ loads \in 0 .. MaxLoads

\* Each load creates one segment at most, so that there are enough.
EnoughSegments == made + Cardinality(Creators) <= loads /\ key \in 0 .. made

\* As long as nothing has come between there is one segment at most, the one
\* that the key stands for, and whoever is attached is attached to it.
OneSegment ==
  /\ exists = IF key = 0 THEN {} ELSE {key}
  /\ \A p \in Processes :
       /\ pointer[p] = "segment" => key # 0 /\ shmid[p] = key
       /\ at[p] \in Filling \cup {"open"} => pointer[p] = "segment"
       /\ at[p] \in {"find", "create"} => board[p] = 1
       /\ at[p] = "create" => bFirst[p]

\* The process whose number the driver has for the file of b will go on to the
\* boards after b.
Passing(p, b) == p \in Openers(b) /\ Descriptor[p] = fd[b]

OneOfUsEntered == \A b \in Boards : fd[b] # 0 /\ Openers(b) # {} => \E p \in Processes : Passing(p, b)

\* p will describe b, or goes on from an earlier board.
WillDescribe(p, b) ==
  /\ shmid[p] = key
  /\ \/ at[p] = "attach" /\ bFirst[p] /\ board[p] <= b
     \/ at[p] = "open" /\ board[p] <= b
     \/ p \in Openers(b)
     \/ \E c \in Boards : c < b /\ Passing(p, c)

Covered(b) ==
  infos[key][b] \in {"whole", "mixed"} \/ \E p \in Processes : WillDescribe(p, b)

BoardsIInv ==
  /\ HandlesOK
  /\ TablesOK
  /\ EnoughSegments
  /\ disturbed = {} => OneSegment /\ OneOfUsEntered /\ (key # 0 => \A b \in Boards : Covered(b))
-----------------------------------------------------------------------------
(* Proofs: the segment goes                                                *)

\* What the calls and the moments between them leave alone.
Idle == UNCHANGED <<at, board, bFirst, shmid, pointer, key, exists, made, infos, fd, loads, disturbed>>

\* The actions of the processes that load and unload the library.
Loads(p) ==
  \/ BeginLoad(p) \/ Find(p) \/ Create(p) \/ Attach(p)
  \/ OpenBoard(p) \/ ReadBoard(p) \/ FillBoard(p)
  \/ \E b \in Boards : Hold(p, b) \/ LetGo(p, b)
  \/ Detach(p) \/ Stat(p) \/ Remove(p) \/ Die(p)

LEMMA NextLoadsOrIdles ==
  ASSUME [Next]_vars PROVE Idle \/ \E p \in Processes : Loads(p)
<1>1. ASSUME NEW p \in Processes, NEW c \in Library, NEW kind \in Kinds, Make(p, c, kind)
      PROVE  Idle
  BY <1>1 DEF Make, Idle, place, handle, segment
<1>2. Return => Idle
  BY DEF Return, Idle, place, handle, segment
<1>3. Ended \/ UNCHANGED vars => Idle
  BY DEF Ended, Idle, vars, place, handle, segment
<1> QED BY <1>1, <1>2, <1>3 DEF Next, Loads

\* The handles and places keep their types, and whoever is not loaded is attached
\* to nothing.
LEMMA HandlesStep ==
  ASSUME HandlesOK, NEW p \in Processes, Loads(p) PROVE HandlesOK'
<1> USE DEF HandlesOK, Places, Before, Goes, place, handle, segment
<1>1. CASE BeginLoad(p)
  BY <1>1 DEF BeginLoad
<1>2. CASE Find(p) \/ Create(p) \/ Attach(p)
  BY <1>2 DEF Find, Create, Attach
<1>3. CASE OpenBoard(p) \/ ReadBoard(p) \/ FillBoard(p)
  BY <1>3 DEF OpenBoard, ReadBoard, FillBoard
<1>4. ASSUME NEW b \in Boards, Hold(p, b) \/ LetGo(p, b) PROVE HandlesOK'
  BY <1>4 DEF Hold, LetGo
<1>5. CASE Detach(p) \/ Stat(p) \/ Remove(p) \/ Die(p)
  BY <1>5 DEF Detach, Stat, Remove, Die
<1> QED BY <1>1, <1>2, <1>3, <1>4, <1>5 DEF Loads

\* A segment in which nobody takes an interest any more is one that is gone: each
\* step that ends the concern of p either attaches it, removes the segment, or
\* found it gone or used by another.
LEMMA SegmentStep ==
  ASSUME SegmentIInv, [Next]_vars PROVE SegmentIInv'
<1>1. CASE Idle
  BY <1>1 DEF Idle, SegmentIInv, HandlesOK, Attached, Concerned
<1>2. ASSUME NEW p \in Processes, Loads(p) PROVE SegmentIInv'
  <2>1. HandlesOK /\ HandlesOK'
    BY <1>2, HandlesStep DEF SegmentIInv
  <2> SUFFICES ASSUME "death" \notin disturbed', NEW s \in exists'
               PROVE  (Attached(s) # {} \/ \E q \in Processes : Concerned(q, s))'
    BY <2>1 DEF SegmentIInv
  <2>2. (\E q \in Processes : Concerned(q, s) \/ (pointer[q] = "segment" /\ shmid[q] = s))'
    <3> USE DEF HandlesOK, Places, Before, Goes, place, handle, segment, Concerned
    <3> DEFINE Of(q) == Concerned(q, s) \/ (pointer[q] = "segment" /\ shmid[q] = s)
    <3>1. "death" \notin disturbed /\ s \in exists => \E q \in Processes : Of(q)
      BY DEF SegmentIInv, Attached
    <3>2. CASE BeginLoad(p)
      BY <3>1, <3>2, <2>1 DEF BeginLoad, Fault
    <3>3. CASE Find(p) \/ Attach(p)
      BY <3>1, <3>3, <2>1 DEF Find, Attach
    <3>4. CASE Create(p)
      BY <3>1, <3>4, <2>1 DEF Create, Fault
    <3>5. CASE OpenBoard(p) \/ ReadBoard(p) \/ FillBoard(p)
      BY <3>1, <3>5, <2>1 DEF OpenBoard, ReadBoard, FillBoard, Fault, Met
    <3>6. ASSUME NEW b \in Boards, Hold(p, b) \/ LetGo(p, b) PROVE (\E q \in Processes : Of(q))'
      BY <3>1, <3>6, <2>1 DEF Hold, LetGo, Met
    <3>7. CASE Detach(p)
      BY <3>1, <3>7, <2>1 DEF Detach, LeftBy
    <3>8. CASE Stat(p)
      BY <3>1, <3>8, <2>1 DEF Stat, Unused, Attached
    <3>9. CASE Remove(p)
      BY <3>1, <3>9, <2>1 DEF Remove, Attached
    <3>10. CASE Die(p)
      BY <3>10 DEF Die, Fault
    <3> QED BY <1>2, <3>2, <3>3, <3>4, <3>5, <3>6, <3>7, <3>8, <3>9, <3>10 DEF Loads
  <2> QED BY <2>2 DEF Attached
<1> QED BY <1>1, <1>2, NextLoadsOrIdles

\* Once all processes have unloaded the library, none of them killed, no segment
\* of shared memory is left (my_fini, powerdaq32.c:4758-4786).
THEOREM SegmentGoesCorrect == Spec => []SegmentGoes
<1>1. Init => SegmentIInv
  BY DEF Init, SegmentIInv, HandlesOK, Places, Before
<1>2. SegmentIInv /\ [Next]_vars => SegmentIInv'
  BY SegmentStep
<1>3. SegmentIInv => SegmentGoes
  BY DEF SegmentIInv, SegmentGoes, HandlesOK, Before, Attached, Concerned
<1> QED BY <1>1, <1>2, <1>3, PTL DEF Spec
-----------------------------------------------------------------------------
(* Proofs: every board is described                                        *)

\* Describing one board in one segment leaves the others' descriptions alone.
LEMMA Described ==
  ASSUME infos \in [Segments -> [Boards -> Descriptions]], NEW s, NEW b, NEW d \in Descriptions,
         infos' = [infos EXCEPT ![s][b] = d]
  PROVE  /\ infos' \in [Segments -> [Boards -> Descriptions]]
         /\ \A t \in Segments, c \in Boards :
              infos'[t][c] = IF t = s /\ c = b THEN d ELSE infos[t][c]
<1>1. \A t \in Segments : infos'[t] = IF t = s THEN [infos[t] EXCEPT ![b] = d] ELSE infos[t]
  OBVIOUS
<1>2. \A t \in Segments : infos'[t] \in [Boards -> Descriptions]
  BY <1>1
<1>3. infos' = [t \in Segments |-> infos'[t]]
  OBVIOUS
<1> QED BY <1>1, <1>2, <1>3

LEMMA TablesStep ==
  ASSUME HandlesOK, TablesOK, NEW p \in Processes, Loads(p) PROVE TablesOK'
<1> USE LibraryAssumption DEF TablesOK, Boards, Goes, place, handle, segment
<1>1. CASE BeginLoad(p)
  BY <1>1 DEF BeginLoad
<1>2. CASE Find(p) \/ Create(p) \/ Attach(p)
  BY <1>2 DEF Find, Create, Attach
<1>3. CASE OpenBoard(p)
  BY <1>3 DEF OpenBoard, Entered
<1>4. CASE ReadBoard(p)
  <2>1. UNCHANGED infos \/ \E d \in Descriptions : infos' = [infos EXCEPT ![shmid[p]][board[p]] = d]
    BY <1>4 DEF ReadBoard, Descriptions
  <2>2. infos' \in [Segments -> [Boards -> Descriptions]]
    BY <2>1, Described
  <2>3. fd' \in [Boards -> Nat]
    <3>1. UNCHANGED fd \/ Cleared(p, board[p])
      BY <1>4 DEF ReadBoard
    <3>2. Cleared(p, board[p]) => fd' \in [Boards -> Nat]
      BY DEF Cleared
    <3> QED BY <3>1, <3>2
  <2> QED BY <1>4, <2>2, <2>3 DEF ReadBoard
<1>5. CASE FillBoard(p)
  <2>1. \E d \in Descriptions : infos' = [infos EXCEPT ![shmid[p]][board[p]] = d]
    BY <1>5 DEF FillBoard, Descriptions
  <2>2. infos' \in [Segments -> [Boards -> Descriptions]]
    BY <2>1, Described
  <2>3. fd' \in [Boards -> Nat]
    BY <1>5 DEF FillBoard, Cleared
  <2>4. board' \in [Processes -> Boards]
    <3>1. UNCHANGED board \/ (board' = [board EXCEPT ![p] = board[p] + 1] /\ board[p] < NbBoards)
      BY <1>5 DEF FillBoard, NextBoard
    <3>2. board[p] \in 1 .. NbBoards
      OBVIOUS
    <3> QED BY <3>1, <3>2
  <2> QED BY <1>5, <2>2, <2>3, <2>4 DEF FillBoard
<1>6. ASSUME NEW b \in Boards, Hold(p, b) \/ LetGo(p, b) PROVE TablesOK'
  BY <1>6, SMTT(30) DEF Hold, LetGo, Entered, Cleared
<1>7. CASE Detach(p) \/ Stat(p) \/ Remove(p) \/ Die(p)
  BY <1>7 DEF Detach, Stat, Remove, Die
<1> QED BY <1>1, <1>2, <1>3, <1>4, <1>5, <1>6, <1>7 DEF Loads

\* A load looks for the segment before it creates one, and does both once.
LEMMA EnoughStep ==
  ASSUME HandlesOK, TablesOK, EnoughSegments, NEW p \in Processes, Loads(p)
  PROVE  EnoughSegments'
<1> USE DEF HandlesOK, Goes, place, handle, segment
<1> DEFINE N == Cardinality(Creators)
<1>1. IsFiniteSet(Creators) /\ N \in Nat
  BY LibraryAssumption, FS_Subset, FS_CardinalityType DEF Creators
<1>2. made + N <= loads /\ key \in 0 .. made /\ loads \in Nat
  BY DEF EnoughSegments, TablesOK
<1>3. ASSUME Creators' \subseteq Creators, UNCHANGED <<made, loads>>, key' \in {0, key}
      PROVE  EnoughSegments'
  <2>1. Cardinality(Creators') \in 0 .. N
    BY <1>1, <1>3, FS_Subset, FS_CardinalityType
  <2> QED BY <1>1, <1>2, <1>3, <2>1 DEF EnoughSegments
<1>4. CASE BeginLoad(p)
  <2>1. p \notin Creators /\ Creators' \in {Creators, Creators \cup {p}} /\ loads' = loads + 1 /\ UNCHANGED <<made, key>>
    BY <1>4 DEF BeginLoad, Creators
  <2>2. Cardinality(Creators \cup {p}) = N + 1
    BY <1>1, <2>1, FS_AddElement
  <2>3. Cardinality(Creators') = N \/ Cardinality(Creators') = N + 1
    BY <2>1, <2>2
  <2> QED BY <1>1, <1>2, <2>1, <2>3 DEF EnoughSegments
<1>5. CASE Create(p)
  <2>1. p \in Creators /\ Creators' = Creators \ {p} /\ loads' = loads /\ made' \in {made, made + 1} /\ key' \in 0 .. made'
    BY <1>2, <1>5 DEF Create, Creators
  <2>2. Cardinality(Creators') = N - 1
    BY <1>1, <2>1, FS_RemoveElement
  <2> QED BY <1>1, <1>2, <2>1, <2>2 DEF EnoughSegments
<1>6. CASE Find(p) \/ Attach(p)
  BY <1>3, <1>6 DEF Find, Attach, Creators
<1>7. CASE OpenBoard(p) \/ ReadBoard(p) \/ FillBoard(p)
  BY <1>3, <1>7 DEF OpenBoard, ReadBoard, FillBoard, Creators
<1>8. ASSUME NEW b \in Boards, Hold(p, b) \/ LetGo(p, b) PROVE EnoughSegments'
  BY <1>3, <1>8 DEF Hold, LetGo, Creators
<1>9. CASE Detach(p) \/ Stat(p) \/ Remove(p) \/ Die(p)
  BY <1>3, <1>9 DEF Detach, Stat, Remove, Die, Creators
<1> QED BY <1>4, <1>5, <1>6, <1>7, <1>8, <1>9 DEF Loads

\* What has come between is not forgotten, and what comes between is told apart.
LEMMA StaysUndisturbed ==
  ASSUME HandlesOK, NEW p \in Processes, Loads(p), disturbed' = {}
  PROVE  /\ disturbed = {} /\ ~Die(p)
         /\ Remove(p) => Attached(shmid[p]) = {}
<1> USE DEF Goes, place, handle, segment, Fault, Met
<1>1. CASE BeginLoad(p) \/ Find(p) \/ Create(p) \/ Attach(p)
  BY <1>1 DEF BeginLoad, Find, Create, Attach, Die, Remove
<1>2. CASE OpenBoard(p) \/ ReadBoard(p) \/ FillBoard(p)
  BY <1>2 DEF OpenBoard, ReadBoard, FillBoard, Die, Remove
<1>3. ASSUME NEW b \in Boards, Hold(p, b) \/ LetGo(p, b)
      PROVE  disturbed = {} /\ ~Die(p) /\ ~Remove(p)
  BY <1>3 DEF Hold, LetGo, Die, Remove
<1>4. CASE Detach(p) \/ Stat(p) \/ Remove(p) \/ Die(p)
  BY <1>4 DEF Detach, Stat, Remove, Die
<1> QED BY <1>1, <1>2, <1>3, <1>4 DEF Loads

LEMMA OneSegmentStep ==
  ASSUME HandlesOK, TablesOK, EnoughSegments, OneSegment,
         NEW p \in Processes, Loads(p), disturbed' = {}
  PROVE  OneSegment'
<1> USE DEF HandlesOK, TablesOK, OneSegment, Filling, Goes, place, handle, segment
<1>1. CASE BeginLoad(p)
  BY <1>1 DEF BeginLoad
<1>2. CASE Find(p)
  BY <1>2 DEF Find
<1>3. CASE Create(p)
  <2>1. CASE key = 0
    <3>1. \A q \in Processes : pointer'[q] # "segment"
      BY <1>3, <2>1 DEF Create
    <3>2. disturbed = {}
      BY StaysUndisturbed
    <3>3. key' = made + 1 /\ exists' = {made + 1} /\ key' # 0
      BY <1>3, <2>1, <3>2 DEF Create, Fault
    <3>4. \A q \in Processes : q # p => at'[q] = at[q]
      BY <1>3 DEF Create
    <3>5. at'[p] = "attach" /\ UNCHANGED <<board, bFirst, pointer>>
      BY <1>3, <2>1, <3>2, <3>3 DEF Create, Fault
    <3> QED BY <3>1, <3>3, <3>4, <3>5
  <2>2. CASE key # 0
    BY <1>3, <2>2 DEF Create
  <2> QED BY <2>1, <2>2
<1>4. CASE Attach(p)
  BY <1>4 DEF Attach
<1>5. CASE OpenBoard(p) \/ ReadBoard(p)
  BY <1>5 DEF OpenBoard, ReadBoard
<1>6. CASE FillBoard(p)
  BY <1>6 DEF FillBoard
<1>7. ASSUME NEW b \in Boards, Hold(p, b) \/ LetGo(p, b) PROVE OneSegment'
  BY <1>7 DEF Hold, LetGo
<1>8. CASE Detach(p)
  BY <1>8 DEF Detach, LeftBy
<1>9. CASE Stat(p)
  BY <1>9 DEF Stat
<1>10. CASE Remove(p)
  <2>1. \A q \in Processes : pointer[q] = "segment" => shmid[q] # shmid[p]
    BY StaysUndisturbed, <1>10 DEF Attached
  <2>2. exists' = {s \in exists : s # shmid[p]}
    BY <1>10, StaysUndisturbed DEF Remove
  <2>3. exists' = IF key' = 0 THEN {} ELSE {key'}
    BY <1>10, <2>2 DEF Remove
  <2>4. UNCHANGED <<board, bFirst, shmid, pointer>> /\ at' = [at EXCEPT ![p] = "out"]
    BY <1>10 DEF Remove
  <2>5. \A q \in Processes : pointer[q] = "segment" => key' = key
    BY <1>10, <2>1 DEF Remove
  <2> QED BY <2>3, <2>4, <2>5
<1>11. ~Die(p)
  BY StaysUndisturbed
<1> QED BY <1>1, <1>2, <1>3, <1>4, <1>5, <1>6, <1>7, <1>8, <1>9, <1>10, <1>11 DEF Loads

\* Who opens a board's file, and what the driver has for the file, changes for the
\* one board that p is at.
LEMMA EnteredStep ==
  ASSUME HandlesOK, TablesOK, OneOfUsEntered, NEW p \in Processes, Loads(p), disturbed' = {}
  PROVE  OneOfUsEntered'
<1> USE DEF HandlesOK, TablesOK, Before, Filling, Goes, place, handle, segment
<1> SUFFICES ASSUME NEW b \in Boards, fd'[b] # 0, Openers(b)' # {}
             PROVE  \E q \in Processes : Passing(q, b)'
  BY DEF OneOfUsEntered
<1>1. disturbed = {} /\ ~Die(p)
  BY StaysUndisturbed
<1>2. ASSUME fd'[b] = fd[b], \A q \in Openers(b) : q \in Openers(b)', Openers(b) # {}
      PROVE  \E q \in Processes : Passing(q, b)'
  BY <1>2 DEF OneOfUsEntered, Passing
<1>3. CASE BeginLoad(p) \/ Find(p) \/ Create(p) \/ Attach(p) \/ Detach(p) \/ Stat(p) \/ Remove(p)
  BY <1>2, <1>3 DEF BeginLoad, Find, Create, Attach, Detach, Stat, Remove, Openers
<1>4. CASE OpenBoard(p)
  <2>1. at[p] = "open" /\ at'[p] = "read" /\ board' = board /\ p \notin Openers(b)
    BY <1>1, <1>4 DEF OpenBoard, Fault, Openers
  <2>2. \A q \in Processes : q # p => at'[q] = at[q]
    BY <1>4 DEF OpenBoard
  <2>3. CASE board[p] = b /\ fd[b] = 0
    <3>1. fd'[b] = Descriptor[p]
      BY <1>1, <1>4, <2>3 DEF OpenBoard, Fault, Entered
    <3> QED BY <2>1, <2>3, <3>1 DEF Passing, Openers
  <2>4. CASE board[p] = b /\ fd[b] # 0
    <3>1. fd'[b] = fd[b] /\ Openers(b) # {}
      BY <1>1, <1>4, <2>4 DEF OpenBoard, Fault, Entered, Met
    <3> QED BY <1>2, <2>1, <2>2, <3>1 DEF Openers
  <2>5. CASE board[p] # b
    <3>1. fd'[b] = fd[b] /\ Openers(b)' = Openers(b)
      BY <1>4, <2>1, <2>2, <2>5 DEF OpenBoard, Entered, Openers
    <3> QED BY <1>2, <3>1
  <2> QED BY <2>3, <2>4, <2>5
<1>5. CASE ReadBoard(p)
  BY <1>1, <1>2, <1>5 DEF ReadBoard, Fault, Openers
<1>6. CASE FillBoard(p)
  <2>1. fd'[b] = fd[b] /\ (board[p] = b => fd[b] # Descriptor[p])
    BY <1>6 DEF FillBoard, Cleared, Matches
  <2>2. Openers(b)' \subseteq Openers(b)
    BY <1>6 DEF FillBoard, Openers
  <2>3. PICK q \in Processes : Passing(q, b)
    BY <2>1, <2>2 DEF OneOfUsEntered
  <2>4. q # p
    BY <2>1, <2>3 DEF Passing, Openers
  <2> QED BY <1>6, <2>1, <2>3, <2>4 DEF FillBoard, Passing, Openers
<1>7. ASSUME NEW c \in Boards, Hold(p, c) \/ LetGo(p, c) PROVE \E q \in Processes : Passing(q, b)'
  <2>1. Openers(b)' = Openers(b) /\ Openers(c) = {}
    BY <1>1, <1>7 DEF Hold, LetGo, Met, Openers
  <2>2. fd'[b] = fd[b]
    BY <1>7, <2>1 DEF Hold, LetGo, Entered, Cleared
  <2> QED BY <1>2, <2>1, <2>2
<1> QED BY <1>1, <1>3, <1>4, <1>5, <1>6, <1>7 DEF Loads

\* Whoever is not p goes on describing, unless the driver's entry for a board that
\* it is to pass is changed under it.
LEMMA GoesOn ==
  ASSUME NEW b \in Boards, NEW q \in Processes, WillDescribe(q, b), key' = key,
         at'[q] = at[q], board'[q] = board[q], shmid'[q] = shmid[q], bFirst'[q] = bFirst[q],
         \A c \in Boards : c < b /\ Passing(q, c) => fd'[c] = fd[c]
  PROVE  WillDescribe(q, b)'
BY DEF WillDescribe, Passing, Openers

LEMMA EnoughMade ==
  ASSUME TablesOK, EnoughSegments, made \in Nat, key # 0 PROVE key \in Segments
<1>1. Cardinality(Creators) \in Nat
  BY LibraryAssumption, FS_Subset, FS_CardinalityType DEF Creators
<1> QED BY <1>1, LibraryAssumption DEF TablesOK, EnoughSegments, Segments

LEMMA CoveredStep ==
  ASSUME HandlesOK, TablesOK, EnoughSegments, OneSegment, OneOfUsEntered,
         key # 0 => \A b \in Boards : Covered(b),
         NEW p \in Processes, Loads(p), disturbed' = {}, key' # 0, NEW b \in Boards
  PROVE  Covered(b)'
<1> USE DEF HandlesOK, TablesOK, Before, Filling, Goes, place, handle, segment
<1>1. disturbed = {} /\ ~Die(p) /\ key \in Nat /\ board[p] \in Boards
  BY StaysUndisturbed
<1> DEFINE Still(q) == /\ at'[q] = at[q] /\ board'[q] = board[q]
                       /\ shmid'[q] = shmid[q] /\ bFirst'[q] = bFirst[q]
<1>2. \A q \in Processes \ {p} : Still(q)
  <2>1. CASE BeginLoad(p) \/ Find(p) \/ Create(p) \/ Attach(p)
    BY <2>1 DEF BeginLoad, Find, Create, Attach
  <2>2. CASE OpenBoard(p) \/ ReadBoard(p)
    BY <2>2 DEF OpenBoard, ReadBoard
  <2>3. CASE FillBoard(p)
    <3>1. board' = [board EXCEPT ![p] = board[p] + 1] \/ UNCHANGED board
      BY <2>3 DEF FillBoard
    <3> QED BY <2>3, <3>1 DEF FillBoard
  <2>4. ASSUME NEW c \in Boards, Hold(p, c) \/ LetGo(p, c) PROVE \A q \in Processes \ {p} : Still(q)
    BY <2>4 DEF Hold, LetGo
  <2>5. CASE Detach(p) \/ Stat(p) \/ Remove(p)
    BY <2>5 DEF Detach, Stat, Remove
  <2> QED BY <1>1, <2>1, <2>2, <2>3, <2>4, <2>5 DEF Loads
<1> HIDE DEF Still
\* The cases in which the descriptions and the driver's entries stay as they are.
<1>3. ASSUME key' = key, infos' = infos, fd' = fd,
             \A c \in Boards : WillDescribe(p, c) => WillDescribe(p, c)'
      PROVE  Covered(b)'
  <2>1. key # 0 /\ Covered(b)
    BY <1>3
  <2>2. ASSUME NEW q \in Processes, WillDescribe(q, b) PROVE WillDescribe(q, b)'
    BY <1>2, <1>3, <2>2, GoesOn DEF Still
  <2> QED BY <1>3, <2>1, <2>2 DEF Covered
<1>4. CASE BeginLoad(p) \/ Find(p) \/ Detach(p) \/ Stat(p) \/ Remove(p)
  <2>1. key' = key /\ infos' = infos /\ fd' = fd
    BY <1>4 DEF BeginLoad, Find, Detach, Stat, Remove
  <2>2. \A c \in Boards : ~WillDescribe(p, c)
    BY <1>4 DEF BeginLoad, Find, Detach, Stat, Remove, WillDescribe, Passing, Openers
  <2> QED BY <1>3, <2>1, <2>2
<1>5. CASE Create(p)
  <2>1. at[p] = "create" /\ at'[p] = "attach" /\ infos' = infos /\ fd' = fd
    BY <1>1, <1>5 DEF Create, Fault
  <2>2. CASE key = 0
    <3>1. shmid'[p] = key' /\ bFirst'[p] /\ board'[p] = 1
      BY <1>1, <1>5, <2>2 DEF Create, Fault, OneSegment
    <3> QED BY <2>1, <3>1 DEF Covered, WillDescribe, Boards
  <2>3. CASE key # 0
    <3>1. key' = key
      BY <1>5, <2>3 DEF Create
    <3>2. \A c \in Boards : ~WillDescribe(p, c)
      BY <2>1 DEF WillDescribe, Passing, Openers
    <3> QED BY <1>3, <2>1, <3>1, <3>2
  <2> QED BY <2>2, <2>3
<1>6. CASE Attach(p)
  <2>1. key' = key /\ infos' = infos /\ fd' = fd
    BY <1>6 DEF Attach
  <2>2. ASSUME NEW c \in Boards, WillDescribe(p, c) PROVE WillDescribe(p, c)'
    <3>1. at[p] = "attach" /\ bFirst[p] /\ board[p] <= c /\ shmid[p] = key
      BY <1>6, <2>2 DEF Attach, WillDescribe, Passing, Openers
    <3>2. shmid[p] \in exists
      BY <2>1, <3>1 DEF OneSegment
    <3> QED BY <1>6, <2>1, <3>1, <3>2 DEF Attach, WillDescribe
  <2> QED BY <1>3, <2>1, <2>2
<1>7. CASE OpenBoard(p)
  <2> DEFINE c == board[p]
  <2>1. /\ at[p] = "open" /\ at'[p] = "read" /\ board' = board /\ shmid' = shmid
        /\ key' = key /\ infos' = infos /\ Entered(p, c)
    BY <1>1, <1>7 DEF OpenBoard, Fault
  <2>2. shmid[p] = key /\ p \in Openers(c)' /\ p \notin Openers(c)
    BY <2>1 DEF OneSegment, Openers
  <2>3. PICK r \in Processes : Passing(r, c)' /\ shmid'[r] = key
    <3>1. CASE fd[c] = 0
      BY <1>1, <2>1, <2>2, <3>1 DEF Entered, Passing
    <3>2. CASE fd[c] # 0
      <4>1. Openers(c) # {} /\ fd'[c] = fd[c]
        BY <1>1, <1>7, <2>1, <3>2 DEF OpenBoard, Entered, Met, Fault
      <4>2. PICK r \in Processes : Passing(r, c)
        BY <1>1, <3>2, <4>1 DEF OneOfUsEntered
      <4>3. r # p /\ shmid[r] = key
        BY <2>2, <4>2 DEF Passing, Openers, OneSegment
      <4> QED BY <1>2, <2>1, <4>1, <4>2, <4>3 DEF Still, Passing, Openers
    <3> QED BY <3>1, <3>2
  <2>4. \A d \in Boards : d # c => fd'[d] = fd[d]
    BY <2>1 DEF Entered
  <2>5. c < b => WillDescribe(r, b)'
    BY <1>1, <2>1, <2>3 DEF WillDescribe
  <2>6. c = b => WillDescribe(p, b)'
    BY <2>1, <2>2 DEF WillDescribe
  <2>7. key # 0 /\ Covered(b)
    BY <2>1
  <2>8. ASSUME b < c, NEW q \in Processes, WillDescribe(q, b) PROVE WillDescribe(q, b)'
    <3>1. q # p
      BY <1>1, <2>1, <2>8 DEF WillDescribe, Passing, Openers, Boards
    <3>2. \A d \in Boards : d < b => fd'[d] = fd[d]
      BY <1>1, <2>4, <2>8 DEF Boards
    <3> QED BY <1>2, <2>1, <2>8, <3>1, <3>2, GoesOn DEF Still
  <2>9. b < c \/ b = c \/ c < b
    BY <1>1 DEF Boards
  <2> QED BY <2>1, <2>5, <2>6, <2>7, <2>8, <2>9 DEF Covered
<1>8. CASE ReadBoard(p)
  <2> DEFINE c == board[p]
  <2>1. /\ at[p] = "read" /\ at'[p] = "fill" /\ board' = board /\ shmid' = shmid
        /\ key' = key /\ fd' = fd
        /\ \E d \in Descriptions : infos' = [infos EXCEPT ![shmid[p]][c] = d]
    BY <1>1, <1>8 DEF ReadBoard, Fault, Descriptions
  <2>2. shmid[p] = key
    BY <2>1 DEF OneSegment
  <2>3. b = c => WillDescribe(p, b)'
    BY <2>1, <2>2 DEF WillDescribe, Openers
  <2>4. b # c => infos'[key][b] = infos[key][b]
    BY <2>1, <2>2, EnoughMade, Described
  <2>5. ASSUME NEW q \in Processes, WillDescribe(q, b) PROVE WillDescribe(q, b)'
    <3>1. CASE q = p
      BY <2>1, <2>5, <3>1 DEF WillDescribe, Passing, Openers
    <3>2. CASE q # p
      BY <1>2, <2>1, <2>5, <3>2, GoesOn DEF Still
    <3> QED BY <3>1, <3>2
  <2> QED BY <2>1, <2>3, <2>4, <2>5 DEF Covered
<1>9. CASE FillBoard(p)
  <2> DEFINE c == board[p]
  <2>1. /\ at[p] = "fill" /\ shmid' = shmid /\ key' = key /\ bFirst' = bFirst
        /\ Cleared(p, c) /\ c \in Boards
        /\ \E d \in Descriptions : /\ infos' = [infos EXCEPT ![shmid[p]][c] = d]
                                   /\ OthersFill(p) = {} => d \in {"whole", "mixed"}
    BY <1>1, <1>9 DEF FillBoard, Descriptions
  <2>2. shmid[p] = key
    BY <2>1 DEF OneSegment
  <2>3. key # 0 /\ Covered(b) /\ key \in Segments
    BY <2>1, EnoughMade
  <2>4. CASE b = c
    <3>1. OthersFill(p) = {} => infos'[key][b] \in {"whole", "mixed"}
      BY <2>1, <2>2, <2>3, <2>4, Described
    <3>2. ASSUME NEW q \in OthersFill(p) PROVE WillDescribe(q, b)'
      BY <1>2, <2>1, <2>2, <2>4, <3>2 DEF Still, OthersFill, Openers, WillDescribe
    <3>3. OthersFill(p) \subseteq Processes
      BY DEF OthersFill, Openers
    <3> QED BY <2>1, <3>1, <3>2, <3>3 DEF Covered
  <2>5. CASE b # c
    <3>1. infos'[key][b] = infos[key][b]
      BY <2>1, <2>2, <2>3, <2>5, Described
    <3>2. Matches(p, c) /\ c < b => WillDescribe(p, b)'
      <4>1. ASSUME Matches(p, c), c < b PROVE at'[p] = "open" /\ board'[p] = c + 1
        <5>1. NextBoard(p)
          BY <1>1, <4>1, LibraryAssumption DEF NextBoard, Boards
        <5> QED BY <1>1, <1>9, <5>1 DEF FillBoard
      <4> QED BY <1>1, <2>1, <2>2, <4>1 DEF WillDescribe, Boards
    <3>3. ~(Matches(p, c) /\ c < b) => \A d \in Boards : d < b => fd'[d] = fd[d]
      BY <1>1, <2>1 DEF Cleared
    <3>4. ASSUME ~(Matches(p, c) /\ c < b), NEW q \in Processes, WillDescribe(q, b)
          PROVE  WillDescribe(q, b)'
      <4>1. q # p
        BY <1>1, <2>1, <2>5, <3>4 DEF WillDescribe, Passing, Openers, Matches
      <4> QED BY <1>2, <2>1, <3>3, <3>4, <4>1, GoesOn DEF Still
    <3> QED BY <2>1, <2>3, <3>1, <3>2, <3>4 DEF Covered
  <2> QED BY <2>4, <2>5
<1>10. ASSUME NEW e \in Boards, Hold(p, e) \/ LetGo(p, e) PROVE Covered(b)'
  <2>1. UNCHANGED <<at, board, bFirst, shmid, key, infos>> /\ Openers(e) = {}
    BY <1>1, <1>10 DEF Hold, LetGo, Met
  <2>2. \A d \in Boards : d # e => fd'[d] = fd[d]
    BY <1>10 DEF Hold, LetGo, Entered, Cleared
  <2>3. ASSUME NEW q \in Processes, WillDescribe(q, b) PROVE WillDescribe(q, b)'
    <3>1. \A d \in Boards : d < b /\ Passing(q, d) => fd'[d] = fd[d]
      BY <2>1, <2>2 DEF Passing
    <3> QED BY <2>1, <2>3, <3>1, GoesOn
  <2> QED BY <2>1, <2>3 DEF Covered
<1> QED BY <1>1, <1>4, <1>5, <1>6, <1>7, <1>8, <1>9, <1>10 DEF Loads

LEMMA BoardsStep ==
  ASSUME BoardsIInv, [Next]_vars PROVE BoardsIInv'
<1>1. CASE Idle
  <2>1. HandlesOK' /\ TablesOK' /\ EnoughSegments'
    BY <1>1 DEF BoardsIInv, Idle, HandlesOK, TablesOK, EnoughSegments, Creators
  <2>2. OneSegment => OneSegment'
    BY <1>1 DEF Idle, OneSegment
  <2>3. OneOfUsEntered => OneOfUsEntered'
    BY <1>1 DEF Idle, OneOfUsEntered, Passing, Openers
  <2>4. \A b \in Boards : Covered(b) => Covered(b)'
    BY <1>1 DEF Idle, Covered, WillDescribe, Passing, Openers
  <2>5. key' = key /\ disturbed' = disturbed
    BY <1>1 DEF Idle
  <2> QED BY <2>1, <2>2, <2>3, <2>4, <2>5 DEF BoardsIInv
<1>2. ASSUME NEW p \in Processes, Loads(p) PROVE BoardsIInv'
  <2>1. HandlesOK' /\ TablesOK' /\ EnoughSegments'
    BY <1>2, HandlesStep, TablesStep, EnoughStep DEF BoardsIInv
  <2>2. ASSUME disturbed' = {}
        PROVE  OneSegment' /\ OneOfUsEntered' /\ (key' # 0 => \A b \in Boards : Covered(b)')
    <3>1. disturbed = {}
      BY <1>2, <2>2, StaysUndisturbed DEF BoardsIInv
    <3>2. /\ HandlesOK /\ TablesOK /\ EnoughSegments /\ OneSegment /\ OneOfUsEntered
          /\ key # 0 => \A b \in Boards : Covered(b)
      BY <3>1 DEF BoardsIInv
    <3>3. OneSegment'
      BY <1>2, <2>2, <3>2, OneSegmentStep
    <3>4. OneOfUsEntered'
      BY <1>2, <2>2, <3>2, EnteredStep
    <3>5. ASSUME key' # 0, NEW b \in Boards PROVE Covered(b)'
      BY <1>2, <2>2, <3>2, <3>5, CoveredStep
    <3> QED BY <3>3, <3>4, <3>5
  <2> QED BY <2>1, <2>2 DEF BoardsIInv, Boards
<1> QED BY <1>1, <1>2, NextLoadsOrIdles

\* Whenever nobody is still loading the library, every board is described in the
\* segment, though several instances may have taken themselves for the first
\* and the CLOSESUBSYSTEM of one has ended the my_init of another
\* (powerdaq32.c:4710-4746, pd_hcaps.c:473).
THEOREM EveryBoardDescribedCorrect == Spec => []EveryBoardDescribed
<1>1. Init => BoardsIInv
  <2> SUFFICES ASSUME Init PROVE BoardsIInv
    OBVIOUS
  <2>1. HandlesOK
    BY DEF Init, HandlesOK, Places, Before
  <2>2. TablesOK
    BY LibraryAssumption DEF Init, TablesOK, Boards, Descriptions
  <2>3. Creators = {}
    BY DEF Init, Creators
  <2>4. EnoughSegments
    BY <2>3, FS_EmptySet DEF Init, EnoughSegments
  <2>5. OneSegment /\ OneOfUsEntered /\ key = 0
    BY DEF Init, OneSegment, OneOfUsEntered, Filling, Openers
  <2> QED BY <2>1, <2>2, <2>4, <2>5 DEF BoardsIInv
<1>2. BoardsIInv /\ [Next]_vars => BoardsIInv'
  BY BoardsStep
<1>3. BoardsIInv => EveryBoardDescribed
  <2> SUFFICES ASSUME BoardsIInv, Settled, NEW s \in exists, NEW b \in Boards, Attached(s) # {}
               PROVE  infos[s][b] \in {"whole", "mixed"}
    BY DEF EveryBoardDescribed
  <2>1. s = key /\ Covered(b)
    BY DEF BoardsIInv, Settled, OneSegment
  <2>2. ASSUME NEW p \in Processes PROVE ~WillDescribe(p, b)
    BY DEF Settled, Loading, Filling, WillDescribe, Passing, Openers
  <2> QED BY <2>1, <2>2 DEF Covered
<1> QED BY <1>1, <1>2, <1>3, PTL DEF Spec
-----------------------------------------------------------------------------
(* Proofs: the result of a call is that of its requests                    *)

\* A call of one request returns its result.
Single(c) == c.result = "last" /\ \E a : c.asks = <<a>>

\* A call of several returns the first failure.
UpToFailure(c) == c.result = "first" /\ \E n \in 1 .. 6 : DOMAIN c.asks = 1 .. n

Reports(c) == Single(c) \/ UpToFailure(c) \/ c.asks = <<>> \/ c.name \in Hiding

LEMMA GetReports ==
  ASSUME NEW name, NEW cmd, NEW sets, NEW gives
  PROVE  Reports(Get(name, cmd, sets, gives))
BY DEF Reports, Single, Get, Call

LEMMA SetReports == ASSUME NEW name, NEW cmd, NEW sets PROVE Reports(Set(name, cmd, sets))
BY DEF Reports, Single, Set, Call

LEMMA PlainReports == ASSUME NEW name, NEW cmd PROVE Reports(Plain(name, cmd))
BY SetReports DEF Plain

LEMMA CheckedGetReports ==
  ASSUME NEW name, NEW cmd, NEW sets, NEW gives
  PROVE  Reports(Checked(Get(name, cmd, sets, gives)))
BY DEF Reports, Single, Checked, Get, Call

LEMMA CheckedSetReports ==
  ASSUME NEW name, NEW cmd, NEW sets PROVE Reports(Checked(Set(name, cmd, sets)))
BY DEF Reports, Single, Checked, Set, Call

LEMMA NotDoneReports == ASSUME NEW name PROVE Reports(NotDone(name))
BY DEF Reports, NotDone, Checked, Call

\* Every function of the library is of one of these kinds.
LEMMA LibraryReports == \A c \in Library : Reports(c)
<1>1. \A c \in UserEventCalls \cup BoardCalls : Reports(c)
  BY GetReports, SetReports, PlainReports DEF UserEventCalls, BoardCalls
<1>2. \A c \in EepromCalls : Reports(c)
  BY GetReports, SetReports DEF EepromCalls
<1>3. \A c \in AInInits \cup CTInit : Reports(c)
  BY SetReports, CheckedSetReports DEF AInInits, CTInit
<1>4. \A c \in TermCalls : Reports(c)
  BY PlainReports DEF TermCalls
<1>5. \A c \in StartCalls \cup StopCalls : Reports(c)
  BY PlainReports DEF StartCalls, StopCalls
<1>6. \A c \in InputScans \cup OutputScans : Reports(c)
  BY GetReports, NotDoneReports DEF InputScans, OutputScans, Scans
<1>7. \A c \in AInSettings \cup AInSwitches : Reports(c)
  BY SetReports, PlainReports DEF AInSettings, AInSwitches
<1>8. \A c \in AInData \cup AInSamples : Reports(c)
  BY GetReports, SetReports, PlainReports, CheckedGetReports DEF AInData, AInSamples
<1>9. \A c \in AOutSettings \cup AOutSwitches \cup AOutData : Reports(c)
  BY GetReports, SetReports, PlainReports, CheckedGetReports DEF AOutSettings, AOutSwitches, AOutData
<1>10. \A c \in DInCalls \cup DOutCalls : Reports(c)
  BY GetReports, SetReports, PlainReports DEF DInCalls, DOutCalls
<1>11. \A c \in RegisterCalls \cup DmaCalls \cup AODmaCalls : Reports(c)
  BY GetReports, SetReports DEF RegisterCalls, DmaCalls, AODmaCalls, WriteReg, ReadReg
<1>12. \A c \in PortCalls : Reports(c)
  BY GetReports, SetReports DEF PortCalls, WriteReg, ReadReg
<1>13. \A c \in PortInterrupts : Reports(c)
  BY GetReports, SetReports, NotDoneReports DEF PortInterrupts, WriteReg, ReadReg
<1>14. \A c \in UctSettings \cup UctCalls : Reports(c)
  BY GetReports, SetReports, PlainReports DEF UctSettings, UctCalls
<1>15. \A c \in UctNotDone : Reports(c)
  BY NotDoneReports DEF UctNotDone
<1>16. \A c \in CalDspCalls \cup Prescaler : Reports(c)
  BY GetReports, SetReports DEF CalDspCalls, Prescaler, ReadDsp, WriteDsp
<1>17. \A c \in WaitCalls \cup DateCalls : Reports(c)
  BY GetReports, SetReports, PlainReports DEF WaitCalls, DateCalls
<1>18. \A c \in CounterReads \cup CounterWrites : Reports(c)
  BY CheckedGetReports, CheckedSetReports DEF CounterReads, CounterWrites, ReadDsp, WriteDsp
<1>19. \A c \in ClClock \cup CvClock : Reports(c)
  BY CheckedGetReports DEF ClClock, CvClock
<1>20. \A c \in PxiSave \cup PxiRestore \cup PxiLines : Reports(c)
  BY NotDoneReports DEF PxiSave, PxiRestore, PxiLines
<1>21. \A c \in AOutInit \cup AOInit \cup DOInit \cup BufferCalls : Reports(c)
  BY DEF Reports, AOutInit, AOInit, DOInit, BufferCalls, UpToFailure, Started, Call
<1>22. \A c \in AdapterCalls : Reports(c)
  BY GetReports DEF Reports, AdapterCalls, UpToFailure, Call
<1>23. \A c \in AcquireCalls : Reports(c)
  <2>1. \A asks : Reports(Checked(Call("PdAcquireSubsystem_open", asks, {}, "opened")))
    BY DEF Reports, Checked, Call, Hiding
  <2> QED BY <2>1, CheckedSetReports DEF AcquireCalls
<1>24. \A c \in EssiCalls : Reports(c)
  <2>1. Reports(Call("PdEssiReset", [i \in 1 .. 6 |-> Ask("BRDREGWR", {0, 1})], {}, "first"))
    BY DEF Reports, UpToFailure, Call
  <2> QED BY <2>1, GetReports, SetReports DEF EssiCalls, ReadDsp, WriteDsp
<1>25. \A c \in PortSwitches \cup PropSwitch : Reports(c)
  BY DEF Reports, PortSwitches, PropSwitch, Halves, Call, Hiding
<1>26. \A c \in AOBoardCalls : Reports(c)
  <2>1. Reports(AllChannels("PdAO32Reset")) /\ Reports(AllChannels("PdAO96Reset"))
    BY DEF Reports, AllChannels, Call, Hiding
  <2> QED BY <2>1, GetReports, SetReports DEF AOBoardCalls, WriteReg, ReadReg
<1>27. \A c \in CounterLoad \cup CounterSwitches \cup PxiDisconnect : Reports(c)
  BY DEF Reports, CounterLoad, CounterSwitches, PxiDisconnect, ChangeStatus, Checked, Call, Hiding
<1> QED
  BY <1>1, <1>2, <1>3, <1>4, <1>5, <1>6, <1>7, <1>8, <1>9, <1>10, <1>11, <1>12, <1>13, <1>14,
     <1>15, <1>16, <1>17, <1>18, <1>19, <1>20, <1>21, <1>22, <1>23, <1>24, <1>25, <1>26, <1>27
  DEF Library

\* The result of such a call is negative exactly if one of the requests that it
\* made was, whatever the requests come to.
LEMMA OutcomeIsTheRequests ==
  ASSUME NEW c \in Library, NEW oks \in [DOMAIN c.asks -> BOOLEAN],
         c.name \notin Hiding, c.asks # <<>>
  PROVE  /\ Outcome(c, oks).negative <=> Outcome(c, oks).failed # {}
         /\ Outcome(c, oks).asked # {}
<1> DEFINE n      == Made(c, oks)
           neg(i) == IsNegative(c.asks[i].cmd, oks[i])
           Stops  == {i \in DOMAIN oks : neg(i)}
<1>1. Single(c) \/ UpToFailure(c)
  BY LibraryReports DEF Reports
<1>2. \E k \in 1 .. 6 : DOMAIN c.asks = 1 .. k /\ DOMAIN oks = 1 .. k /\ Len(oks) = k
  BY <1>1 DEF Single, UpToFailure
<1>3. n \in DOMAIN oks /\ Negative(c, oks) = neg(n) /\ (Stops \cap 1 .. n # {} => n \in Stops)
  <2>1. CASE Single(c)
    <3>1. DOMAIN oks = {1} /\ Len(oks) = 1
      BY <1>2, <2>1 DEF Single
    <3>2. n = 1 /\ Negative(c, oks) = neg(1)
      BY <2>1, <3>1 DEF Single, Made, Negative
    <3> QED BY <3>1, <3>2
  <2>2. CASE UpToFailure(c) /\ Stops = {}
    <3>1. n = Len(oks) /\ Negative(c, oks) = neg(n)
      BY <2>2 DEF UpToFailure, Made, Negative
    <3> QED BY <1>2, <2>2, <3>1
  <2>3. CASE UpToFailure(c) /\ Stops # {}
    <3>1. \E i \in Stops : \A j \in Stops : i <= j
      <4>1. Stops # {} /\ Stops \subseteq 1 .. 6
        BY <1>2, <2>3
      <4> HIDE DEF Stops
      <4>2. CASE 1 \in Stops \/ 2 \in Stops \/ 3 \in Stops
        BY <4>1, <4>2
      <4>3. CASE Stops \subseteq 4 .. 6 /\ (4 \in Stops \/ 5 \in Stops)
        BY <4>3
      <4>4. CASE Stops \subseteq {6}
        <5>1. 6 \in Stops
          BY <4>1, <4>4
        <5> QED BY <4>4, <5>1
      <4> QED BY <4>1, <4>2, <4>3, <4>4
    <3>2. n = CHOOSE i \in Stops : \A j \in Stops : i <= j
      BY <2>3 DEF UpToFailure, Made
    <3>3. Negative(c, oks) = neg(n)
      BY <2>3 DEF UpToFailure, Negative
    <3>4. n \in Stops
      BY <3>1, <3>2
    <3> QED BY <3>3, <3>4
  <2> QED BY <1>1, <2>1, <2>2, <2>3
<1>4. n \in Nat /\ n >= 1
  BY <1>2, <1>3
<1>5. Outcome(c, oks).negative = neg(n)
  BY <1>3 DEF Outcome
<1>6. Outcome(c, oks).failed = {c.asks[i].cmd : i \in {j \in 1 .. n : neg(j)}}
  BY DEF Outcome
<1>7. \A j \in 1 .. n : j \in DOMAIN oks
  BY <1>2, <1>3
<1> HIDE DEF n, neg
<1>8. neg(n) <=> \E j \in 1 .. n : neg(j)
  BY <1>3, <1>4, <1>7
<1>9. Outcome(c, oks).asked = {c.asks[i].cmd : i \in 1 .. n} /\ n \in 1 .. n
  BY <1>4 DEF Outcome, n
<1> QED BY <1>5, <1>6, <1>8, <1>9

\* The outcome of a call that has made its requests, with some results.
Answered(c) == c.asks # <<>> /\ \E oks \in [DOMAIN c.asks -> BOOLEAN] : last = Outcome(c, oks)

\* What is in `last' is the outcome of a call of the library, or its refusal.
CallsIInv == last = NoCall \/ \E c \in Library : last = Refusal(c) \/ Answered(c)

\* A negative result hides no failure and invents none: for all functions but
\* those named, and whatever their requests come to, it means that one of the
\* requests failed or that none was made.
THEOREM ResultIsTheDriversCorrect == Spec => []ResultIsTheDrivers
<1>1. Init => CallsIInv
  BY DEF Init, CallsIInv
<1>2. CallsIInv /\ [Next]_vars => CallsIInv'
  <2> SUFFICES ASSUME CallsIInv, [Next]_vars PROVE CallsIInv'
    OBVIOUS
  <2>1. ASSUME NEW p \in Processes, Loads(p) PROVE last' = NoCall
    BY <2>1 DEF Loads, BeginLoad, Find, Create, Attach, OpenBoard, ReadBoard, FillBoard, Hold, LetGo,
                Detach, Stat, Remove, Die, Goes
  <2>2. ASSUME NEW p \in Processes, NEW c \in Library, NEW kind \in Kinds, Make(p, c, kind)
        PROVE  last' = Refusal(c) \/ Answered(c)'
    BY <2>2 DEF Make, Results, Answered
  <2>3. Return => last' = NoCall
    BY DEF Return
  <2>4. ASSUME Ended \/ UNCHANGED vars PROVE CallsIInv'
    BY <2>4 DEF Ended, vars, CallsIInv, Answered
  <2> QED
    BY <2>1, <2>2, <2>3, <2>4 DEF Next, Loads, CallsIInv
<1>3. CallsIInv => ResultIsTheDrivers
  <2>1. ASSUME NEW c \in Library, last = Refusal(c) PROVE ResultIsTheDrivers
    BY <2>1 DEF Refusal, ResultIsTheDrivers
  <2>2. ASSUME NEW c \in Library, c.asks # <<>>, NEW oks \in [DOMAIN c.asks -> BOOLEAN],
               last = Outcome(c, oks)
        PROVE  ResultIsTheDrivers
    <3>1. last.name = c.name
      BY <2>2 DEF Outcome
    <3> QED
      BY <2>2, <3>1, OutcomeIsTheRequests DEF ResultIsTheDrivers
  <2> QED
    BY <2>1, <2>2 DEF CallsIInv, Answered, ResultIsTheDrivers
<1> QED
  BY <1>1, <1>2, <1>3, PTL DEF Spec
=============================================================================
