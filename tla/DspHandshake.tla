---------------------------- MODULE DspHandshake ----------------------------
(***************************************************************************)
(* The driver and the DSP of one board on the two sides of the PCI host    *)
(* interface: a command register, a transmit and a receive FIFO, and the   *)
(* flags each shows the other.  The driver runs the scripts of DspCommands *)
(* one register access at a time, with the board's lock held throughout;   *)
(* the DSP, which is not in the repository, answers in its own time.  Every *)
(* wait of the driver gives up after a while: a word that does not fit is  *)
(* dropped, and a word that does not come reads as NoAnswer.               *)
(*                                                                         *)
(* The driver is loaded and unloaded several times without a power cycle,  *)
(* so that a start may find what an earlier one left behind.               *)
(***************************************************************************)
EXTENDS DspCommands

CONSTANTS
  Depth,      \* words in either FIFO
  MaxLoads,   \* bound: loads of the driver
  MaxCalls    \* bound: calls after an accepted start

AllCalls == BoardCalls \o DigitalCalls \o PortCalls \o CounterCalls \o DspCounterCalls
            \o AInCalls \o AOutCalls \o EventCalls

ASSUME HandshakeAssumption ==
  /\ \A n \in DOMAIN FWDownloadData :
       FWDownloadData[n].dwMemType \in {1, 3, 7} /\ FWDownloadData[n].dwMemAdrs \in Nat
  /\ Depth \in Nat \ {0} /\ MaxLoads \in Nat /\ MaxCalls \in Nat

VARIABLES
  task,     \* "absent", "starting", "attached", "calling" or "leaving"
  script,   \* the register accesses still to be made
  result,   \* what the call has come to so far
  HTF,      \* the flags the driver shows in HI32CtrlCfg
  HCVR,     \* the host command register: [cmd, own], cmd "none" once taken
  down, up, \* the transmit and the receive FIFO: sequences of [word, own]
  HF,       \* the flags the DSP shows
  mode,     \* what the DSP runs: "dead", "loader" or "firmware"
  work,     \* what the DSP is doing: [ops, own]
  mem,      \* the DSP's memory: a set of <<type, address, word>>
  loads, calls,  \* for the bounds
  late,     \* history: a wait has timed out since the start was accepted
  failed,   \* history: a start has failed since the board was powered
  mixed     \* history: since then a word of one call was taken for another's

host == <<task, script, result, HTF, loads, calls>>
dsp  == <<HF, mode, work, mem>>
vars == <<host, HCVR, down, up, dsp, late, failed, mixed>>

-----------------------------------------------------------------------------
(* `own' marks what belongs to the call the driver is in.                  *)

NoCommand == [cmd |-> "none", own |-> FALSE]
NoWork    == [ops |-> <<>>, own |-> FALSE]
Word(w, own) == [word |-> w, own |-> own]
Old(words) == [i \in DOMAIN words |-> Word(words[i].word, FALSE)]

Init ==
  /\ task = "absent" /\ script = <<>> /\ result = TRUE /\ HTF = 0
  /\ HCVR = NoCommand /\ down = <<>> /\ up = <<>>
  /\ \/ mode = "dead" /\ HF = 0
     \/ mode = "loader" /\ HF = 1
     \/ mode = "firmware" /\ HF \in {3, 7}
  /\ work = NoWork /\ mem = {}
  /\ loads = 0 /\ calls = 0
  /\ late = FALSE /\ failed = FALSE /\ mixed = FALSE

-----------------------------------------------------------------------------
(* The driver.                                                             *)

Begin(t, s) ==
  /\ script = <<>>
  /\ task' = t /\ script' = s /\ result' = TRUE
  /\ HCVR' = [HCVR EXCEPT !.own = FALSE]
  /\ down' = Old(down) /\ up' = Old(up)
  /\ work' = [work EXCEPT !.own = FALSE]
  /\ UNCHANGED <<HF, mode, mem, late, failed, mixed>>

\* The probe of a board.
Start ==
  /\ task = "absent" /\ loads < MaxLoads
  /\ loads' = loads + 1
  /\ HTF' = 0
  /\ Begin("starting", pd_dsp_startup(HF))
  /\ UNCHANGED calls

Call(s) ==
  /\ task = "attached" /\ calls < MaxCalls
  /\ calls' = calls + 1
  /\ Begin("calling", s)
  /\ UNCHANGED <<HTF, loads>>

\* cleanup_module, which does not look at the result.
Unload ==
  /\ task = "attached"
  /\ Begin("leaving", pd_reset_dsp)
  /\ UNCHANGED <<HTF, loads, calls>>

Return ==
  /\ task \in {"starting", "calling", "leaving"} /\ script = <<>>
  /\ task' = IF task = "calling" \/ (task = "starting" /\ result) THEN "attached" ELSE "absent"
  /\ calls' = IF task = "starting" THEN 0 ELSE calls
  /\ late' = IF task = "starting" THEN FALSE ELSE late
  /\ mixed' = IF task = "starting" THEN FALSE ELSE mixed
  /\ failed' = (failed \/ (task = "starting" /\ ~result))
  /\ UNCHANGED <<script, result, HTF, loads, HCVR, down, up, dsp>>

Next1(o) == script # <<>> /\ Head(script).op = o
Arg      == Head(script).arg

\* The call goes on with the rest of the script, goes on with s, or fails.
GoOn(s) == script' = s /\ UNCHANGED result
Fail    == script' = <<>> /\ result' = FALSE

\* pd_dsp_command does not wait for the command before to be taken.
PutCommand ==
  /\ Next1("command")
  /\ HCVR' = [cmd |-> Arg, own |-> TRUE]
  /\ GoOn(Tail(script))
  /\ UNCHANGED <<task, HTF, loads, calls, down, up, dsp, late, failed, mixed>>

\* (Mutant: pd_dsp_write_x, which does not look.)
RoomUnchecked == TRUE

Room == Len(down) < Depth

\* pd_dsp_write: when the transmit FIFO stays full the word is dropped.
PutWord ==
  /\ Next1("write")
  /\ IF Room
     THEN down' = Append(down, Word(Arg, TRUE)) /\ UNCHANGED late
     ELSE late' = TRUE /\ UNCHANGED down
  /\ GoOn(Tail(script))
  /\ UNCHANGED <<task, HTF, loads, calls, HCVR, up, dsp, failed, mixed>>

\* What becomes of a word that is read, or of NoAnswer.
Takes(w) ==
  CASE Next1("expect") -> IF w = Arg THEN GoOn(Tail(script)) ELSE Fail
    [] Next1("read") -> GoOn(Tail(script))
    [] Next1("skip") ->
         GoOn(IF w = 1 THEN Tail(script) ELSE SubSeq(script, Arg + 2, Len(script)))
    [] Next1("note") ->
         IF w = 1 THEN GoOn(Tail(script))
         ELSE script' = SubSeq(script, Arg + 2, Len(script)) /\ result' = FALSE
    [] Next1("count") -> GoOn(After(Arg, w))
    [] Next1("drain") -> GoOn(AfterSample(Arg, w))

\* pd_dsp_read.
GetWord ==
  /\ \E o \in {"expect", "read", "skip", "note", "count", "drain"} : Next1(o)
  /\ IF up # <<>>
     THEN /\ Takes(Head(up).word)
          /\ up' = Tail(up)
          /\ mixed' = (mixed \/ ~Head(up).own)
          /\ UNCHANGED late
     ELSE /\ Takes(NoAnswer)
          /\ late' = TRUE
          /\ UNCHANGED <<up, mixed>>
  /\ UNCHANGED <<task, HTF, loads, calls, HCVR, down, dsp, failed>>

PutFlags ==
  /\ Next1("setflags")
  /\ HTF' = Arg
  /\ GoOn(Tail(script))
  /\ UNCHANGED <<task, loads, calls, HCVR, down, up, dsp, late, failed, mixed>>

\* pd_dsp_get_flags, once or until a time-out.
GetFlags ==
  /\ Next1("checkflags") \/ Next1("waitflags")
  /\ IF HF \in Arg THEN GoOn(Tail(script)) ELSE Fail
  /\ UNCHANGED <<task, HTF, loads, calls, HCVR, down, up, dsp, late, failed, mixed>>

Driver == PutCommand \/ PutWord \/ GetWord \/ PutFlags \/ GetFlags \/ Return

-----------------------------------------------------------------------------
(* The DSP, as the driver expects it: for each command what it answers and *)
(* takes.                                                                  *)

Reply(ws)  == <<[op |-> "reply", arg |-> ws]>>
Take(what) == <<[op |-> "take", arg |-> what]>>
Ok         == Reply({1})

Values == {0, 1, Param}

WriteTwoCommands == {"DIO256WR", "BRDREGWR", "AOCFG"}
ReadAtCommands   == {"DIO256RD", "BRDREGRD", "UCTREAD"}
ValueCommands    == {"DIREAD", "DISTATUS", "UCTSTATUS", "AISTATUS", "AIGETVALUE", "AOSTATUS"}
AckCommands      ==
  {"DICLRDATA", "DIRESET", "UCTSWCLK", "UCTRESET", "AISTARTTRIG", "AISTOPTRIG", "AIRESET",
   "AISWCLSTART", "AISWCVSTART", "AICLRESET", "AICLRDATA", "AOSTARTTRIG", "AOSTOPTRIG",
   "AOSWCVSTART", "AOCLRDATA", "AORESET"}

\* Without an own case: one parameter, acknowledged before and after.
Firmware(c) ==
  CASE c = "BRDFWDNLD" -> Ok \o Take("loader")
    [] c = "DIAGPCIECHO" -> Ok \o Take("echo")
    [] c = "BRDSTATUS" -> Reply({Block}) \o Times(Block, Reply(Values))
    [] c = "BRDEPRMRD" -> Reply({Block}) \o Times(Block, Reply(Values)) \o Ok
    [] c = "BRDEPRMWR" -> Reply({1, Block}) \o Take("counted") \o Ok
    [] c = "AOPUTBLOCK" -> Reply({0, 1, Block}) \o Take("counted") \o Ok
    [] c = "AICHLIST" -> Ok \o Take("list") \o Ok
    [] c = "DIO256WR_ALL" -> Times(Block, Take("word")) \o Ok
    [] c = "DIO256RD_ALL" -> Times(Block, Reply(Values)) \o Ok
    [] c = "DINSETINTRMASK" -> Reply({Block}) \o Times(Block, Take("word")) \o Ok
    [] c = "DINGETINTRDATA" -> Reply({Block}) \o Times(2 * Block, Reply(Values)) \o Ok
    [] c = "AIGETSAMPLES" -> Ok \o Take("samples")
    [] c \in {"DIODMASET", "AODMASET", "AICFG"} -> Ok \o Times(3, Take("word")) \o Ok
    [] c \in WriteTwoCommands -> Ok \o Times(2, Take("word")) \o Ok
    [] c \in ReadAtCommands -> Ok \o Take("word") \o Reply(Values)
    [] c \in ValueCommands -> Reply(Values)
    [] c \in AckCommands -> Ok
    [] OTHER -> Ok \o Take("word") \o Ok

Understood(c) ==
  CASE c = "PCI_LOAD" -> IF mode = "loader" THEN Take("segment") ELSE <<>>
    [] c = "PCI_EXEC" -> IF mode = "loader" THEN Take("start") ELSE <<>>
    [] c = "BRDFWDNLD" -> Firmware(c)
    [] OTHER -> IF mode = "firmware" THEN Firmware(c) ELSE <<>>

DspTakesCommand ==
  /\ mode # "dead" /\ work.ops = <<>>
  /\ HCVR.cmd \notin {"none", "BRDHRDRST"}
  /\ work' = [ops |-> Understood(HCVR.cmd), own |-> HCVR.own]
  /\ HCVR' = NoCommand
  /\ UNCHANGED <<host, down, up, HF, mode, mem, late, failed, mixed>>

Doing(o) == work.ops # <<>> /\ Head(work.ops).op = o
Then(s)  == work' = [work EXCEPT !.ops = s \o Tail(work.ops)]

DspReplies ==
  /\ Doing("reply") /\ Len(up) < Depth
  /\ \E w \in Head(work.ops).arg : up' = Append(up, Word(w, work.own))
  /\ Then(<<>>)
  /\ UNCHANGED <<host, HCVR, down, HF, mode, mem, late, failed, mixed>>

\* The number of words a header says are to follow.
Follow(n, what) == IF n > 0 THEN Times(n, Take(what)) ELSE <<>>

\* The headers are two words, size and address; the rest is one word at a time.
Needs == IF Head(work.ops).arg \in {"segment", "loader"} THEN 2 ELSE 1

DspTakesWord ==
  /\ Doing("take") /\ Len(down) >= Needs
  /\ down' = SubSeq(down, Needs + 1, Len(down))
  /\ mixed' = (mixed \/ down[1].own # work.own)
  /\ LET what == Head(work.ops).arg
         w    == down[1].word
     IN
     /\ CASE what = "segment" ->
               Then(Reply({w}) \o [i \in 1 .. w |->
                      [op |-> "store", arg |-> <<HTF, down[2].word + i - 1>>]]
                    \o Reply({down[2].word + w}))
          [] what = "loader"  -> Then(Follow(w, "word") \o <<[op |-> "loaded", arg |-> 0]>>)
          [] what = "start"   -> Then(Reply({w}) \o <<[op |-> "run", arg |-> 0]>>)
          [] what = "echo"    -> Then(Reply({w}))
          [] what = "counted" -> Then(Follow(w, "word"))
          [] what = "list"    ->
               Then(CASE w = AIBM_GET -> Times(2, Reply(Values))
                      [] w = AIBM_SET -> Follow(Block, "word")
                      [] OTHER        -> Follow(w, "word"))
          [] what = "samples" ->
               \E n \in 0 .. Block : Then(Times(n, Reply(Values)) \o Reply({ErrRet}))
          [] OTHER            -> Then(<<>>)
  /\ UNCHANGED <<host, HCVR, up, HF, mode, mem, late, failed>>

\* One word of a segment; what was at its address before is gone.
DspStores ==
  /\ Doing("store") /\ down # <<>>
  /\ LET at == Head(work.ops).arg IN
     mem' = {t \in mem : <<t[1], t[2]>> # at} \cup {<<at[1], at[2], Head(down).word>>}
  /\ down' = Tail(down)
  /\ mixed' = (mixed \/ Head(down).own # work.own)
  /\ Then(<<>>)
  /\ UNCHANGED <<host, HCVR, up, HF, mode, late, failed>>

\* The loader, or the firmware, comes up.
DspRuns ==
  /\ Doing("loaded") \/ Doing("run")
  /\ mode' = IF Doing("run") THEN "firmware" ELSE "loader"
  /\ HF' = IF Doing("run") THEN 3 ELSE 1
  /\ Then(<<>>)
  /\ UNCHANGED <<host, HCVR, down, up, mem, late, failed, mixed>>

\* The hard reset is not maskable.  The FIFOs may survive it; the memory may not.
DspResets ==
  /\ HCVR.cmd = "BRDHRDRST" /\ mode # "dead"
  /\ HCVR' = NoCommand
  /\ \/ mode' = "loader" /\ HF' = 1
     \/ mode' = "firmware" /\ HF' = 3
  /\ work' = NoWork /\ mem' = {}
  /\ \/ UNCHANGED <<down, up>>
     \/ down' = <<>> /\ up' = <<>>
  /\ UNCHANGED <<host, late, failed, mixed>>

Dsp == \/ DspTakesCommand \/ DspReplies \/ DspTakesWord \/ DspStores \/ DspRuns \/ DspResets

Next == Driver \/ Start \/ Unload \/ Dsp \/ \E n \in DOMAIN AllCalls : Call(AllCalls[n])

Spec == Init /\ [][Next]_vars

-----------------------------------------------------------------------------
(* What should hold.                                                       *)

TypeOK ==
  /\ task \in {"absent", "starting", "attached", "calling", "leaving"}
  /\ Len(down) <= Depth /\ Len(up) <= Depth
  /\ result \in BOOLEAN /\ late \in BOOLEAN /\ mixed \in BOOLEAN
  /\ HF \in {0, 1, 3, 7} /\ mode \in {"dead", "loader", "firmware"}
  /\ loads \in 0 .. MaxLoads /\ calls \in 0 .. MaxCalls
  /\ task \in {"absent", "attached"} => script = <<>>

Quiet == down = <<>> /\ up = <<>> /\ HCVR.cmd = "none" /\ work.ops = <<>>

\* A start that is accepted leaves the two sides in step, with nothing under
\* way, whatever the starts and the calls before it left behind; and so does
\* every call after it, until a wait times out.  (The echo test at the end of
\* pd_dsp_startup is what makes it so.)
InStep == task = "attached" /\ ~late => Quiet

\* Until a wait times out, no word that one call sent or asked for is taken for
\* another call's, on either side.
NoMixing == task \in {"attached", "calling"} /\ ~late => ~mixed

\* A board that is accepted at its first start runs the firmware, all of it: a
\* word that is dropped, or comes late, anywhere in the download makes the start
\* fail.
Whole ==
  /\ mode = "firmware"
  /\ \A n \in DOMAIN FWDownloadData :
       LET s == FWDownloadData[n] IN
       \A i \in DOMAIN s.dwMemData :
         <<s.dwMemType, s.dwMemAdrs + i - 1, s.dwMemData[i]>> \in mem

LoadedWhole == task \in {"attached", "calling"} /\ ~failed => Whole

\* A call fails only when a wait has timed out.
FailsOnlyLate ==
  [][ task = "calling" /\ task' = "attached" /\ ~late => result ]_vars

-----------------------------------------------------------------------------
(* What a comment says, and the code does not do.                          *)

\* pdl_fwi.c:444, "1 if all went well": a start that is accepted has loaded the
\* firmware, also when a start before it had failed.
RetriedWhole == task \in {"attached", "calling"} => Whole

\* pdl_fwi.c:191, "TRUE: command succeeded": an acknowledgement that is
\* accepted is the one of the command, not a late one of the command before.
AckIsOwn == task \in {"attached", "calling"} => ~mixed
=============================================================================
