----------------------------- MODULE DeviceFiles -----------------------------
(***************************************************************************)
(* The device files of one board, and the DAQ buffers behind them: who may *)
(* open a subsystem, which buffer an ioctl or a close releases, and what   *)
(* is left when the processes have gone, in order or by dying.             *)
(*                                                                         *)
(* None of this code holds the device spinlock: the two ioctls drop it,    *)
(* and open, close and mmap do not take it.  A call is several steps, with *)
(* `call' as its program counter.  Whether two calls may overlap is then a *)
(* matter of the kernel (one processor and no preemption keeps them apart) *)
(* and of the applications: two constants say it.  A process that dies is  *)
(* one that unmaps and closes without having released anything, which it   *)
(* may do whenever it is in no call.                                       *)
(***************************************************************************)
EXTENDS Integers, FiniteSets, Sequences

CONSTANTS
  Processes,
  Minors,           \* the device files of the board that are used
  Acquiring,        \* those whose users register DAQ buffers
  Sizes,            \* BufSizeInBytes of the buffers registered
  MaxBuffers,       \* bound: buffers allocated in a behaviour
  OpensOverlap,     \* may an open or a close overlap another one?
  BufferCallsOverlap \* may two calls be in the same BufInfo at the same time?

AllMinors == {"AIN", "AOUT", "DIN", "DOUT", "UCT", "DSPCT", "DRV"}

ASSUME FilesAssumption ==
  /\ IsFiniteSet(Processes)
  /\ Minors \subseteq AllMinors /\ Acquiring \subseteq Minors \ {"DRV"}
  /\ Sizes \subseteq Nat \ {0} /\ MaxBuffers \in Nat
  /\ OpensOverlap \in BOOLEAN /\ BufferCallsOverlap \in BOOLEAN

VARIABLES
  inUse,      \* bInUse of each subsystem
  opens,      \* pd_board.open
  files,      \* the open files: a set of <<process, minor>>
  call,       \* of each process: where it is in the driver, and for which minor
  databuf,    \* BufInfo.databuf of AinSS and AoutSS: a buffer, or 0
  bufSize,    \* BufInfo.BufSizeInBytes of both
  memory,     \* the buffers allocated so far, in order: [live, size]
  mapped,     \* the mappings: a set of <<process, minor, buffer>>
  twice       \* history: a buffer was registered over another one

vars == <<inUse, opens, files, call, databuf, bufSize, memory, mapped, twice>>

-----------------------------------------------------------------------------
Flags == {"AinSS", "AoutSS", "DinSS", "DoutSS", "UctSS"}

\* The flag that opening the file sets.  (DRV has none.)
FlagOf(m) ==
  CASE m = "AIN" -> "AinSS" [] m = "AOUT" -> "AoutSS" [] m = "DIN" -> "DinSS"
    [] m = "DOUT" -> "DoutSS" [] m \in {"UCT", "DSPCT"} -> "UctSS" [] OTHER -> "none"

\* The BufInfo that registering, mapping and closing through the file mean.
BufferOf(m) == IF m \in {"AIN", "DIN", "UCT", "DSPCT"} THEN "AinSS"
               ELSE IF m \in {"AOUT", "DOUT"} THEN "AoutSS" ELSE "none"

Idle     == [at |-> "user", minor |-> "DRV", size |-> 0]
Calls    == [at : {"user", "open", "register", "unregister", "release", "close"},
             minor : AllMinors, size : Sizes \cup {0}]
Buffers  == DOMAIN memory

Init ==
  /\ inUse = [u \in Flags |-> FALSE]
  /\ opens = 0 /\ files = {}
  /\ call = [p \in Processes |-> Idle]
  /\ databuf = [s \in {"AinSS", "AoutSS"} |-> 0]
  /\ bufSize = [s \in {"AinSS", "AoutSS"} |-> 0]
  /\ memory = <<>>
  /\ mapped = {} /\ twice = FALSE

Go(p, at, m, size) == call' = [call EXCEPT ![p] = [at |-> at, minor |-> m, size |-> size]]
Return(p)          == call' = [call EXCEPT ![p] = Idle]

\* No other process is in the middle of an open or a close.
NobodyElse == OpensOverlap \/ \A q \in Processes : call[q].at \notin {"open", "close"}

\* No other process registers or releases the same buffer.
Alone(p, m) ==
  BufferCallsOverlap \/ BufferOf(m) = "none"
  \/ \A q \in Processes \ {p} :
       call[q].at \in {"register", "unregister", "release"} => BufferOf(call[q].minor) # BufferOf(m)

-----------------------------------------------------------------------------
(* pd_open                                                                 *)

\* (Mutant: the flag is looked at for the files that have one of their own.)
MayOpenUnshared(m) == FlagOf(m) # "none" /\ m # "DSPCT" => ~inUse[FlagOf(m)]

MayOpen(m) == FlagOf(m) # "none" => ~inUse[FlagOf(m)]

\* The flag is found clear; otherwise the call returns EBUSY.
BeginOpen(p, m) ==
  /\ call[p] = Idle /\ <<p, m>> \notin files
  /\ NobodyElse /\ MayOpen(m)
  /\ Go(p, "open", m, 0)
  /\ UNCHANGED <<inUse, opens, files, databuf, bufSize, memory, mapped, twice>>

Taken(m) == IF FlagOf(m) = "none" THEN inUse ELSE [inUse EXCEPT ![FlagOf(m)] = TRUE]

\* (Mutant: opening the driver's own file is not counted.)
OpensAfterOpenOfSubsystem(m) == IF m = "DRV" THEN opens ELSE opens + 1

OpensAfterOpen(m) == opens + 1

FinishOpen(p) ==
  /\ call[p].at = "open"
  /\ inUse' = Taken(call[p].minor)
  /\ opens' = OpensAfterOpen(call[p].minor)
  /\ files' = files \cup {<<p, call[p].minor>>}
  /\ Return(p)
  /\ UNCHANGED <<databuf, bufSize, memory, mapped, twice>>

-----------------------------------------------------------------------------
(* pd_register_daq_buffer and pd_mmap, as _PdRegisterBuffer calls them     *)

Holds(p, m)  == call[p] = Idle /\ <<p, m>> \in files
Unmapped(p, m) == \A b \in Buffers : <<p, m, b>> \notin mapped

\* The geometry is written before the memory is allocated.
BeginRegister(p, m, size) ==
  /\ Holds(p, m) /\ m \in Acquiring /\ Unmapped(p, m)
  /\ Alone(p, m)
  /\ bufSize' = [bufSize EXCEPT ![BufferOf(m)] = size]
  /\ Go(p, "register", m, size)
  /\ UNCHANGED <<inUse, opens, files, databuf, memory, mapped, twice>>

FinishRegister(p, ok) ==
  LET s == BufferOf(call[p].minor) IN
  /\ call[p].at = "register"
  /\ ok => Len(memory) < MaxBuffers
  /\ memory' = IF ok THEN Append(memory, [live |-> TRUE, size |-> call[p].size]) ELSE memory
  /\ databuf' = [databuf EXCEPT ![s] = IF ok THEN Len(memory) + 1 ELSE 0]
  /\ twice' = (twice \/ databuf[s] # 0)
  /\ Return(p)
  /\ UNCHANGED <<inUse, opens, files, bufSize, mapped>>

Mmap(p, m) ==
  /\ Holds(p, m) /\ m \in Acquiring \ {"DSPCT"}
  /\ databuf[BufferOf(m)] # 0
  /\ mapped' = mapped \cup {<<p, m, databuf[BufferOf(m)]>>}
  /\ UNCHANGED <<inUse, opens, files, call, databuf, bufSize, memory, twice>>

\* The library unmaps before it unregisters, and the kernel before it closes.
Munmap(p, m) ==
  /\ Holds(p, m) /\ ~Unmapped(p, m)
  /\ mapped' = {x \in mapped : ~(x[1] = p /\ x[2] = m)}
  /\ UNCHANGED <<inUse, opens, files, call, databuf, bufSize, memory, twice>>

-----------------------------------------------------------------------------
(* pd_unregister_daq_buffer, called by the ioctl and by pd_release: the    *)
(* memory is freed first, and forgotten afterwards.                        *)

FreeBuffer(s) ==
  memory' = IF s = "none" \/ databuf[s] = 0 THEN memory
            ELSE [memory EXCEPT ![databuf[s]].live = FALSE]

\* (Mutant: the pointer to the freed buffer is kept.)
ForgottenNever(s) == databuf

Forgotten(s) == IF s = "none" THEN databuf ELSE [databuf EXCEPT ![s] = 0]

BeginUnregister(p, m) ==
  /\ Holds(p, m) /\ m \in Acquiring /\ Unmapped(p, m)
  /\ Alone(p, m)
  /\ FreeBuffer(BufferOf(m))
  /\ Go(p, "unregister", m, 0)
  /\ UNCHANGED <<inUse, opens, files, databuf, bufSize, mapped, twice>>

FinishUnregister(p) ==
  /\ call[p].at = "unregister"
  /\ databuf' = Forgotten(BufferOf(call[p].minor))
  /\ Return(p)
  /\ UNCHANGED <<inUse, opens, files, bufSize, memory, mapped, twice>>

\* (Mutant: the subsystem of the analog output's file is missing in the switch.)
ReleasedInput(m) == IF m = "AOUT" THEN "none" ELSE BufferOf(m)

\* The buffer that closing the file releases.
Released(m) == BufferOf(m)

\* pd_release, whatever the process has or has not released before.
BeginRelease(p, m) ==
  /\ Holds(p, m) /\ Unmapped(p, m)
  /\ Alone(p, m)
  /\ FreeBuffer(Released(m))
  /\ Go(p, "release", m, 0)
  /\ UNCHANGED <<inUse, opens, files, databuf, bufSize, mapped, twice>>

ReleaseForgets(p) ==
  /\ call[p].at = "release" /\ NobodyElse
  /\ databuf' = Forgotten(Released(call[p].minor))
  /\ Go(p, "close", call[p].minor, 0)
  /\ UNCHANGED <<inUse, opens, files, bufSize, memory, mapped, twice>>

\* pd_driver_close: the last close clears every flag.
\* (Mutant: so does the last but one.)
FlagsAfterCloseEarly(m) ==
  IF opens <= 2 THEN [u \in Flags |-> FALSE]
  ELSE IF FlagOf(m) = "none" THEN inUse ELSE [inUse EXCEPT ![FlagOf(m)] = FALSE]

FlagsAfterClose(m) ==
  IF opens = 1 THEN [u \in Flags |-> FALSE]
  ELSE IF FlagOf(m) = "none" THEN inUse ELSE [inUse EXCEPT ![FlagOf(m)] = FALSE]

FinishRelease(p) ==
  LET m == call[p].minor IN
  /\ call[p].at = "close"
  /\ inUse' = FlagsAfterClose(m)
  /\ opens' = opens - 1
  /\ files' = files \ {<<p, m>>}
  /\ Return(p)
  /\ UNCHANGED <<databuf, bufSize, memory, mapped, twice>>

Next ==
  \E p \in Processes :
    \/ FinishOpen(p) \/ FinishUnregister(p) \/ ReleaseForgets(p) \/ FinishRelease(p)
    \/ \E ok \in BOOLEAN : FinishRegister(p, ok)
    \/ \E m \in Minors : \/ BeginOpen(p, m) \/ Mmap(p, m) \/ Munmap(p, m)
                         \/ BeginUnregister(p, m) \/ BeginRelease(p, m)
                         \/ \E size \in Sizes : BeginRegister(p, m, size)

Spec == Init /\ [][Next]_vars

-----------------------------------------------------------------------------
(* What should hold.                                                       *)

\* The count of open files stays within what the processes can have open, and
\* the buffers are among those allocated.
TypeOK ==
  /\ inUse \in [Flags -> BOOLEAN]
  /\ opens \in 0 .. Cardinality(Processes) * Cardinality(Minors)
  /\ files \subseteq Processes \X Minors
  /\ call \in [Processes -> Calls]
  /\ databuf \in [{"AinSS", "AoutSS"} -> {0} \cup Buffers]
  /\ bufSize \in [{"AinSS", "AoutSS"} -> {0} \cup Sizes]
  /\ memory \in Seq([live : BOOLEAN, size : Sizes])
  /\ mapped \subseteq Processes \X Minors \X Buffers
  /\ twice \in BOOLEAN

\* Two processes never have the same subsystem open, nor one counter/timer as
\* UCT and as DSPCT ("there's no such thing as sharing of subsystem among
\* processes", powerdaq32.c:201-202).  (With OpensOverlap it does not hold: the
\* driver takes no lock between looking at the flag and setting it.)
OneHolder ==
  \A f, g \in files : FlagOf(f[2]) = FlagOf(g[2]) /\ FlagOf(f[2]) # "none" => f = g

\* A subsystem is marked as in use exactly while somebody has it open: a flag
\* left behind would lock everybody out until the module is reloaded, one
\* cleared by somebody else's close would let a second process in.
InUseIsHeld ==
  \A u \in Flags : inUse[u] <=> \E f \in files : FlagOf(f[2]) = u

\* When the last file is closed no buffer is left allocated, whatever the
\* processes forgot and whoever died, unless one was registered over another.
NothingLeft ==
  opens = 0 /\ ~twice /\ ~BufferCallsOverlap
    => \A b \in Buffers : ~memory[b].live

\* A buffer is freed once, and with the size it was allocated with, although
\* the size is kept apart from the pointer and changes before it.
FreedOnceWhole ==
  [][ ~BufferCallsOverlap =>
        \A s \in {"AinSS", "AoutSS"} : \A p \in Processes :
          /\ call[p] = Idle /\ call'[p].at \in {"unregister", "release"}
          /\ BufferOf(call'[p].minor) = s /\ databuf[s] # 0
          => memory[databuf[s]] = [live |-> TRUE, size |-> bufSize[s]] ]_vars

-----------------------------------------------------------------------------
(* What the comments say, and the code does not do.                        *)

\* powerdaq.c:841, "possibly our app crashes. We need to deallocate buffers":
\* the buffers released are those of the process that closes; the memory another
\* process still has mapped is not freed.
MappedIsAlive == \A x \in mapped : memory[x[3]].live
=============================================================================
