----------------------------- MODULE UserLibrary -----------------------------
(***************************************************************************)
(* The shared library that applications link with: the descriptions of the *)
(* boards, which its instances keep in one segment of System V shared      *)
(* memory (my_init and my_fini of lib/powerdaq32.c, __PdGetAdapterInfo of  *)
(* lib/pd_hcaps.c), and its calls.                                         *)
(*                                                                         *)
(* The first instance to load finds no segment, creates one and fills in   *)
(* the boards; later instances attach to it; whoever finds itself the last *)
(* removes it.  None of this is locked, and every step below is a system   *)
(* call of its own.  The driver's table of files, board.fd[], is written   *)
(* on the way: it holds the process's own number for the file.             *)
(*                                                                         *)
(* Calls share nothing with loading: each is one step that leaves its      *)
(* outcome in "last" until the next step.                                  *)
(***************************************************************************)
EXTENDS LibraryCalls

CONSTANTS
  Processes,     \* the applications
  NbBoards,      \* G_NbBoards; fd[BoardLevel] of every board
  Descriptor,    \* the number each process gets for a file it opens
  MaxLoads,      \* how often the library is loaded, in all
  Faults         \* what may go wrong, once: "death", "failure"

ASSUME LibraryAssumption ==
  /\ IsFiniteSet(Processes) /\ NbBoards \in Nat \ {0} /\ MaxLoads \in Nat
  /\ Descriptor \in [Processes -> Nat]

Boards   == 1 .. NbBoards
Segments == 1 .. MaxLoads      \* identifiers, not used again

VARIABLES
  at,            \* where a process is in my_init and my_fini
  board,         \* i of my_init
  bFirst,        \* did shmget fail
  shmid,         \* 0: none
  pointer,       \* G_pAdapterInfo: NULL, (void*)-1, or the segment
  holds,         \* the boards whose "drv" file the application itself has acquired
  key,           \* the segment shmkey stands for, or 0
  exists,        \* the segments there are
  made,          \* how many have been created
  infos,         \* the boards' descriptions in each segment
  fd,            \* pd_board[b].fd[BoardLevel]
  loads,         \* how often the library has been loaded
  last,          \* the call just made
  disturbed      \* history: what has come between

place   == <<at, board>>
handle  == <<bFirst, shmid, pointer>>
segment == <<key, exists, made>>
vars    == <<place, handle, holds, segment, infos, fd, loads, last, disturbed>>

Filling == {"read", "fill"}
Loading == {"find", "create", "attach", "open"} \cup Filling

NoCall == [name |-> "none"]

Attached(s) == {p \in Processes : pointer[p] = "segment" /\ shmid[p] = s}

\* Processes between opening and closing a board's file in my_init.
Openers(b) == {p \in Processes : at[p] \in Filling /\ board[p] = b}

Init ==
  /\ at = [p \in Processes |-> "out"] /\ board = [p \in Processes |-> 1]
  /\ bFirst = [p \in Processes |-> FALSE] /\ shmid = [p \in Processes |-> 0]
  /\ pointer = [p \in Processes |-> "null"] /\ holds = [p \in Processes |-> {}]
  /\ key = 0 /\ exists = {} /\ made = 0
  /\ infos = [s \in Segments |-> [b \in Boards |-> "blank"]]
  /\ fd = [b \in Boards |-> 0]
  /\ loads = 0 /\ last = NoCall /\ disturbed = {}
-----------------------------------------------------------------------------
(* my_init                                                                 *)

Goes(p, to) == at' = [at EXCEPT ![p] = to] /\ last' = NoCall

Fault(f) == f \in Faults /\ disturbed = {} /\ disturbed' = {f}

\* PdGetNumberAdapters; no answer, or no board, ends my_init.
BeginLoad(p) ==
  /\ at[p] = "out" /\ loads < MaxLoads
  /\ loads' = loads + 1
  /\ \/ Goes(p, "find") /\ UNCHANGED disturbed
     \/ Goes(p, "in") /\ Fault("failure")
  /\ board' = [board EXCEPT ![p] = 1]
  /\ bFirst' = [bFirst EXCEPT ![p] = FALSE] /\ shmid' = [shmid EXCEPT ![p] = 0]
  /\ pointer' = [pointer EXCEPT ![p] = "null"]
  /\ UNCHANGED <<holds, segment, infos, fd>>

\* shmget without IPC_CREAT.
Find(p) ==
  /\ at[p] = "find"
  /\ IF key = 0
     THEN Goes(p, "create") /\ bFirst' = [bFirst EXCEPT ![p] = TRUE] /\ UNCHANGED shmid
     ELSE Goes(p, "attach") /\ shmid' = [shmid EXCEPT ![p] = key] /\ UNCHANGED bFirst
  /\ UNCHANGED <<board, pointer, holds, segment, infos, fd, loads, disturbed>>

\* shmget with IPC_CREAT, which also returns a segment created meanwhile.
Create(p) ==
  /\ at[p] = "create"
  /\ \/ /\ key = 0 /\ Goes(p, "attach")
        /\ made' = made + 1 /\ key' = made + 1 /\ exists' = exists \cup {made + 1}
        /\ shmid' = [shmid EXCEPT ![p] = made + 1] /\ UNCHANGED disturbed
     \/ /\ key # 0 /\ Goes(p, "attach")
        /\ shmid' = [shmid EXCEPT ![p] = key] /\ UNCHANGED <<segment, disturbed>>
     \/ key = 0 /\ Goes(p, "in") /\ Fault("failure") /\ UNCHANGED <<shmid, segment>>
  /\ UNCHANGED <<board, bFirst, pointer, holds, infos, fd, loads>>

\* shmat, which fails when the segment has been removed since.
Attach(p) ==
  /\ at[p] = "attach"
  /\ IF shmid[p] \in exists
     THEN /\ pointer' = [pointer EXCEPT ![p] = "segment"]
          /\ Goes(p, IF bFirst[p] THEN "open" ELSE "in")
     ELSE pointer' = [pointer EXCEPT ![p] = "bad"] /\ Goes(p, "in")
  /\ UNCHANGED <<board, bFirst, shmid, holds, segment, infos, fd, loads, disturbed>>

\* OPENSUBSYSTEM leaves another's entry alone and fails; nobody looks.
Entered(p, b) == fd' = [fd EXCEPT ![b] = IF @ = 0 THEN Descriptor[p] ELSE @]

\* CLOSESUBSYSTEM.
Matches(p, b) == fd[b] = Descriptor[p]
Cleared(p, b) == fd' = [fd EXCEPT ![b] = IF Matches(p, b) THEN 0 ELSE @]

\* An application's hold on a board's file meets a load that opens it.
Met(met) == disturbed' = IF met THEN disturbed \cup {"held"} ELSE disturbed

OpenBoard(p) ==
  /\ at[p] = "open"
  /\ \/ /\ Goes(p, "read") /\ Entered(p, board[p])
        /\ Met(fd[board[p]] # 0 /\ Openers(board[p]) = {})
     \/ Goes(p, "in") /\ Fault("failure") /\ UNCHANGED fd
  /\ UNCHANGED <<board, handle, holds, segment, infos, loads>>

OthersFill(p) ==
  {q \in Openers(board[p]) \ {p} : at[q] = "fill" /\ shmid[q] = shmid[p]}

\* The configuration and the EEPROM are read, and the description is cleared.
ReadBoard(p) ==
  /\ at[p] = "read"
  /\ \/ /\ Goes(p, "fill")
        /\ infos' = [infos EXCEPT ![shmid[p]][board[p]] =
                       IF OthersFill(p) = {} THEN "partial" ELSE "mixing"]
        /\ UNCHANGED <<fd, disturbed>>
     \/ Goes(p, "in") /\ Fault("failure") /\ Cleared(p, board[p]) /\ UNCHANGED infos
  /\ UNCHANGED <<board, handle, holds, segment, loads>>

\* (Mutant: the last board is left out.)
NextBoardButLast(p) == Matches(p, board[p]) /\ board[p] < NbBoards - 1

NextBoard(p) == Matches(p, board[p]) /\ board[p] < NbBoards

\* The rest is filled in.  Two who do so at once step on each other's counters
\* (gains and ranges are counted in the segment itself).  A result of
\* CLOSESUBSYSTEM below zero ends my_init.
FillBoard(p) ==
  /\ at[p] = "fill"
  /\ \E i \in {"whole", "mixed"} :
       /\ i = "mixed" => infos[shmid[p]][board[p]] = "mixing"
       /\ infos' = [infos EXCEPT ![shmid[p]][board[p]] = IF OthersFill(p) = {} THEN i ELSE "mixing"]
  /\ Cleared(p, board[p])
  /\ IF NextBoard(p)
     THEN Goes(p, "open") /\ board' = [board EXCEPT ![p] = @ + 1]
     ELSE Goes(p, "in") /\ UNCHANGED board
  /\ UNCHANGED <<handle, holds, segment, loads, disturbed>>
-----------------------------------------------------------------------------
(* The application, and my_fini                                            *)

\* PdAcquireSubsystem of the board's own file, and its release; one application
\* at a time does so.
Hold(p, b) ==
  /\ at[p] = "in" /\ \A q \in Processes : holds[q] = {}
  /\ holds' = [holds EXCEPT ![p] = {b}] /\ Entered(p, b)
  /\ disturbed = {} /\ Met(Openers(b) # {}) /\ last' = NoCall
  /\ UNCHANGED <<place, handle, segment, infos, loads>>

LetGo(p, b) ==
  /\ at[p] = "in" /\ b \in holds[p]
  /\ holds' = [holds EXCEPT ![p] = {}] /\ Cleared(p, b)
  /\ Met(Openers(b) # {}) /\ last' = NoCall
  /\ UNCHANGED <<place, handle, segment, infos, loads>>

\* A removed segment lasts until nobody is attached to it.
LeftBy(p) == exists' = {s \in exists : s = key \/ Attached(s) \ {p} # {}}

\* The process ends: the kernel closes its files, and fd[] remembers them.
Detach(p) ==
  /\ at[p] = "in"
  /\ Goes(p, IF pointer[p] = "segment" THEN "stat" ELSE "out")
  /\ pointer' = [pointer EXCEPT ![p] = "null"] /\ LeftBy(p)
  /\ holds' = [holds EXCEPT ![p] = {}]
  /\ UNCHANGED <<board, bFirst, shmid, key, made, infos, fd, loads, disturbed>>

Unused(s) == s \in exists /\ Attached(s) = {}

\* (Mutant: only the instance that created the segment removes it.)
StatByFirst(p) ==
  /\ at[p] = "stat"
  /\ Goes(p, IF Unused(shmid[p]) /\ bFirst[p] THEN "remove" ELSE "out")
  /\ UNCHANGED <<board, handle, holds, segment, infos, fd, loads, disturbed>>

\* shm_nattch, read with IPC_STAT.
Stat(p) ==
  /\ at[p] = "stat"
  /\ Goes(p, IF Unused(shmid[p]) THEN "remove" ELSE "out")
  /\ UNCHANGED <<board, handle, holds, segment, infos, fd, loads, disturbed>>

\* IPC_RMID, whoever has attached since.
Remove(p) ==
  /\ at[p] = "remove" /\ Goes(p, "out")
  /\ exists' = {s \in exists : s # shmid[p] \/ Attached(s) # {}}
  /\ key' = IF key = shmid[p] THEN 0 ELSE key
  /\ disturbed' = IF Attached(shmid[p]) = {} THEN disturbed ELSE disturbed \cup {"removed"}
  /\ UNCHANGED <<board, handle, holds, made, infos, fd, loads>>

\* A process is killed: my_fini does not run.
Die(p) ==
  /\ at[p] # "out" /\ Goes(p, "out") /\ Fault("death")
  /\ pointer' = [pointer EXCEPT ![p] = "null"] /\ LeftBy(p)
  /\ holds' = [holds EXCEPT ![p] = {}]
  /\ UNCHANGED <<board, bFirst, shmid, key, made, infos, fd, loads>>
-----------------------------------------------------------------------------
(* Calls                                                                   *)

\* What a request may come to on a kind of board.
MayWork(cmd, kind)   == Handler(cmd).works /\ cmd \notin RefusedOn(kind)
MayResult(cmd, kind) == {ok \in BOOLEAN : IF ok THEN MayWork(cmd, kind)
                                          ELSE ~MayWork(cmd, kind) \/ Handler(cmd).fails}

\* Does the library see a failure.
IsNegative(cmd, ok) ==
  ~Handler(cmd).good \/ (~ok /\ (Handler(cmd).shows \/ ~Handler(cmd).works))

\* The union between two requests: who wrote each word last, where the answer to
\* the first request came from, and the words the driver used though nobody had
\* set them while all went well.
Begun == [words |-> [w \in Words |-> "stack"], answer |-> "stack", unset |-> {}, well |-> TRUE]

Sent(u, ask) ==
  [w \in Words |-> IF w \in ask.back THEN u.answer
                   ELSE IF w \in ask.sets THEN "caller"
                   ELSE IF ask.again THEN u.words[w] ELSE "stack"]

Asked(u, ask, ok, isFirst) ==
  LET h     == Handler(ask.cmd)
      sent  == Sent(u, ask)
      after == [w \in Words |-> IF w \in h.told \/ (ok /\ w \in h.writes) THEN "driver"
                                ELSE sent[w]]
  IN [words  |-> after,
      answer |-> IF isFirst THEN after[1] ELSE u.answer,
      unset  |-> IF u.well THEN u.unset \cup {w \in h.uses : sent[w] = "stack"} ELSE u.unset,
      well   |-> u.well /\ ok]

\* How many of its requests a call makes, given what each would come to.
Made(c, oks) ==
  LET Stops == {i \in DOMAIN oks : IsNegative(c.asks[i].cmd, oks[i])}
  IN CASE c.result = "first" /\ Stops # {}  -> CHOOSE i \in Stops : \A j \in Stops : i <= j
       [] c.result = "opened" /\ 1 \in Stops -> 1
       [] OTHER                              -> Len(oks)

Negative(c, oks) ==
  LET n == Made(c, oks)
  IN CASE c.result = "anded"  -> FALSE          \* 1 & -1 is 1, and 1 & 0 is 0
       [] c.result = "opened" -> IsNegative(c.asks[1].cmd, oks[1])
       [] OTHER               -> IsNegative(c.asks[n].cmd, oks[n])

Outcome(c, oks) ==
  LET n       == Made(c, oks)
      U[i \in 0 .. n] == IF i = 0 THEN Begun ELSE Asked(U[i - 1], c.asks[i], oks[i], i = 1)
  IN [name     |-> c.name,
      negative |-> Negative(c, oks),
      asked    |-> {c.asks[i].cmd : i \in 1 .. n},
      failed   |-> {c.asks[i].cmd : i \in {j \in 1 .. n : IsNegative(c.asks[j].cmd, oks[j])}},
      unset    |-> U[n].unset,
      gives    |-> {U[n].words[w] : w \in c.gives}]

\* The function returns an error of its own before it asks the driver.
Refusal(c) ==
  [name |-> c.name, negative |-> TRUE, asked |-> {}, failed |-> {}, unset |-> {}, gives |-> {}]

Results(c, kind) ==
  {oks \in [DOMAIN c.asks -> BOOLEAN] :
     \A i \in DOMAIN oks : oks[i] \in MayResult(c.asks[i].cmd, kind)}

\* A call of one of the library's functions on a board of some kind, from an
\* application that has the library to itself.
Make(p, c, kind) ==
  /\ loads = 1 /\ at[p] = "in" /\ last = NoCall
  /\ pointer[p] = "segment" /\ holds[p] = {} /\ disturbed = {}
  /\ \/ c.refuses /\ last' = Refusal(c)
     \/ c.asks # <<>> /\ \E oks \in Results(c, kind) : last' = Outcome(c, oks)
  /\ UNCHANGED <<place, handle, holds, segment, infos, fd, loads, disturbed>>

Return ==
  /\ last # NoCall /\ last' = NoCall
  /\ UNCHANGED <<place, handle, holds, segment, infos, fd, loads, disturbed>>

Ended == at = [p \in Processes |-> "out"] /\ loads = MaxLoads /\ UNCHANGED vars

Next ==
  \/ \E p \in Processes :
       \/ BeginLoad(p) \/ Find(p) \/ Create(p) \/ Attach(p)
       \/ OpenBoard(p) \/ ReadBoard(p) \/ FillBoard(p)
       \/ \E b \in Boards : Hold(p, b) \/ LetGo(p, b)
       \/ Detach(p) \/ Stat(p) \/ Remove(p) \/ Die(p)
       \/ \E c \in Library, kind \in Kinds : Make(p, c, kind)
  \/ Return
  \/ Ended

Spec == Init /\ [][Next]_vars
-----------------------------------------------------------------------------
(* Properties                                                              *)

\* Once all processes have unloaded the library (powerdaq32.c:4758-4786), none of
\* them killed, no segment is left, whoever attached while another was leaving.
SegmentGoes ==
  (\A p \in Processes : at[p] = "out") /\ "death" \notin disturbed => exists = {}

Settled == (\A p \in Processes : at[p] \notin Loading) /\ disturbed = {}

\* Whenever no instance is still loading, every board is described in every
\* segment an instance is attached to, even if several found no segment and the
\* CLOSESUBSYSTEM of one ended the my_init of another (powerdaq32.c:4710-4746,
\* pd_hcaps.c:473): unless a process was killed, a request failed, or an
\* application had the file of a board that was being described.
EveryBoardDescribed ==
  Settled => \A s \in exists, b \in Boards :
               Attached(s) # {} => infos[s][b] \in {"whole", "mixed"}

\* The same, and each description is the work of one instance alone: what "the
\* first instance of the DLL to load" promises (powerdaq32.c:4710-4711).
DescribedByOne ==
  Settled => \A s \in exists, b \in Boards : Attached(s) # {} => infos[s][b] = "whole"

\* A segment that is removed is one nobody uses (powerdaq32.c:4770).
RemovedUnused ==
  [][\A p \in Processes : Remove(p) => Attached(shmid[p]) = {}]_vars

\* Functions that do not set a word the driver uses: the channel list that is as
\* long as the longest (powerdaq32.c:1250, 1359).
Longest == {"PdAOAsyncInit_longest", "PdDOAsyncInit_longest"}

\* Functions that hide a failure: PdAcquireSubsystem (powerdaq32.c:250), the sums
\* of results (3226, 3427, 3651, 3682), the counters of the DSP (pwrdaqct.c).
Hiding ==
  {"PdAcquireSubsystem_open", "PdPXIDisconnect", "PdDIOReset", "PdDIOEnableOutput",
   "PdDIOPropEnable", "PdAO32Reset", "PdAO96Reset", "PdDspCtLoad", "PdDspCtEnableCounter",
   "PdDspCtEnableInterrupts"}

\* No request lets the driver use a word of the union that is only what the stack
\* held, and no call that succeeds hands such a word to its caller: except a list
\* of the longest length, and samples that could not be read (pdl_ain.c:471).
OnlyWordsSet ==
  last # NoCall /\ last.name \notin Longest =>
    /\ last.unset = {}
    /\ ~last.negative /\ last.name # "PdAInGetSamples" => "stack" \notin last.gives

\* A call returns a negative result exactly if one of the requests that it made
\* did, or if it made none; but for the functions that hide a failure.
ResultIsTheDrivers ==
  last # NoCall /\ last.name \notin Hiding =>
    (last.negative <=> last.failed # {} \/ last.asked = {})
=============================================================================
