--------------------------- MODULE DriverRequests ---------------------------
(***************************************************************************)
(* What the driver's ioctl does with each request of the user library.     *)
(*                                                                         *)
(* Every request travels in one tCmd, a union on the caller's stack that   *)
(* nobody clears: the library sets some of its words, the driver copies    *)
(* the whole union in, uses some words, writes some, and copies the whole  *)
(* union back; the library hands some words to its caller and returns what *)
(* ioctl returned.  What matters of a word is who wrote it last.  Library  *)
(* and driver agree on the member of the union for every request, so a     *)
(* word is its index in that member; Array stands for the array at its end *)
(* (or for the only structure it holds).                                   *)
(*                                                                         *)
(* The C library turns every error code of the driver into -1.             *)
(***************************************************************************)
EXTENDS Integers, Sequences, FiniteSets

Array == 8
Words == 0 .. Array       \* dwParam[0..7], and Array

-----------------------------------------------------------------------------
(* What the driver does with a request                                     *)

\* uses: the words handed to the firmware library, or tested; writes: the words
\* written when the operation succeeds; told: those written also when it fails;
\* good: may it succeed, and is the result then a success; fails: may it fail;
\* shows: is the failure in the result.
Request(cmd, uses, writes) ==
  [cmd |-> cmd, uses |-> uses, writes |-> writes, told |-> {},
   works |-> TRUE, good |-> TRUE, fails |-> TRUE, shows |-> TRUE]

\* An operation on the driver's own data.
Sure(cmd, uses, writes) == [Request(cmd, uses, writes) EXCEPT !.fails = FALSE]

\* -ENOSYS, whatever the board.
Refused(cmd) == [Request(cmd, {}, {}) EXCEPT !.works = FALSE]

\* Carried out, but retf keeps its first value, -ENODEV.
Unanswered(cmd, writes) == [Sure(cmd, {}, writes) EXCEPT !.good = FALSE]

Requests(cmds, uses, writes) == {Request(c, uses, writes) : c \in cmds}

FileRequests ==
  {Request("OPENSUBSYSTEM", {0, 1}, {}), Request("CLOSESUBSYSTEM", {0, 1}, {}),
   Refused("RELEASEALL"), Sure("PRIVATE_GETCFG", {}, {Array}),
   Request("PRIVATE_SET_EVENT", {0, 1}, {}), Request("PRIVATE_CLR_EVENT", {0}, {}),
   Sure("GET_NUMBER_ADAPTER", {}, {0})}

\* The size, or zero for a failure, is written in either case.
BufferRequests ==
  {[Request("REGISTER_BUFFER", 0 .. 4, {0}) EXCEPT !.told = {0}],
   [Request("UNREGISTER_BUFFER", {0}, {1}) EXCEPT !.told = {1}],
   [Request("GETKERNELBUFSIZE", {0}, {1}) EXCEPT !.told = {1}]}

EventRequests ==
  Requests({"SET_USER_EVENTS", "CLEAR_USER_EVENTS"}, {0, 1}, {})
  \cup {Request("GET_USER_EVENTS", {0}, {1})}

AsyncRequests ==
  Requests({"AIN_ASYNC_INIT", "AO_ASYNC_INIT"}, Words, {})
  \cup Requests({"IMMEDIATE_UPDATE", "AIN_ASYNC_TERM", "AIN_ASYNC_START", "AIN_ASYNC_STOP",
                 "AO_ASYNC_TERM", "AO_ASYNC_START", "AO_ASYNC_STOP"}, {}, {})
  \cup {Request("GET_DAQBUF_SCANS", {0, 1}, {2, 3})}
  \cup {Refused(c) : c \in {"SET_TIMED_UPDATE", "GET_DAQBUF_STATUS", "CLEAR_DAQBUF"}}

BoardRequests ==
  {Sure("BRDEEPROMREAD", {0}, {0, 1, Array}), Request("BRDEEPROMWRITE", {0, Array}, {}),
   Request("BRDTESTINTERRUPT", {}, {}), Request("BRDSTATUS", {}, 0 .. 4),
   Request("BRDREGWR", {0, 1}, {}), Request("BRDREGRD", {0}, {1})}
  \cup Requests({"BRDENABLEINTERRUPT", "BRDSETEVNTS1", "BRDSETEVNTS2"}, {0}, {})
  \cup {Refused(c) : c \in {"BRDRESET", "BRDFWLOAD", "BRDFWEXEC"}}

\* AIGETSAMPLES does not look at the result of pd_ain_get_samples; when that
\* stops before it has counted, the count is an uninitialised variable.
AInRequests ==
  {Request("AISETCFG", 0 .. 2, {}), Request("AISETCHLIST", {2, Array}, {}),
   Request("AISTATUS", {}, {0}), Request("AIGETVALUE", {}, {0}),
   [Request("AIGETSAMPLES", {0}, {0, Array}) EXCEPT !.shows = FALSE],
   Sure("AIGETXFERSAMPLES", {0}, {0, Array}),
   Unanswered("AIGETSAMPLECOUNT", {0})}
  \cup Requests({"AISETCVCLK", "AISETCLCLK", "AISETEVNT", "AICVEN", "AISETXFERSIZE"}, {0}, {})
  \cup Requests({"AISTARTTRIG", "AISTOPTRIG", "AISWCVSTART", "AISWCLSTART", "AICLRESET",
                 "AICLRDATA", "AIRESET"}, {}, {})
  \cup {Refused(c) : c \in {"AISETSSHGAIN", "AIENABLECLCOUNT", "AIENABLETIMER", "AIFLUSHFIFO"}}

AOutRequests ==
  {Request("AOSETCFG", {0, 1}, {}), Request("AOSTATUS", {}, {0}),
   Request("AOPUTBLOCK", {0, Array}, {0}), Request("AODMASET", 0 .. 2, {})}
  \cup Requests({"AOSETCVCLK", "AOSETEVNT", "AOCVEN", "AOPUTVALUE"}, {0}, {})
  \cup Requests({"AOSTARTTRIG", "AOSTOPTRIG", "AOSWCVSTART", "AOCLRDATA", "AORESET"}, {}, {})

DigitalRequests ==
  {Request("DISETCFG", {0}, {}), Request("DOWRITE", {0}, {}), Request("DORESET", {}, {}),
   Request("DIO256CMDWR", {0, 1}, {}), Request("DIO256CMDRD", {0}, {1}),
   Request("DIO256CMDWR_ALL", 0 .. 3, {}), Request("DIO256CMDRD_ALL", {}, 0 .. 3),
   Request("DIODMASET", 0 .. 2, {}), Request("DIO256SETINTRMASK", {0, Array}, {}),
   [Request("DIO256GETINTRDATA", {}, {Array}) EXCEPT !.told = {Array}],
   Request("DIO256INTRREENABLE", {0}, {})}
  \cup Requests({"DISTATUS", "DIREAD"}, {}, {0})
  \cup Requests({"DICLRDATA", "DIRESET"}, {}, {})

CounterRequests ==
  Requests({"UCTSETCFG", "UCTWRITE", "UCTSWGATE"}, {0}, {})
  \cup Requests({"UCTSWCLK", "UCTRESET"}, {}, {})
  \cup {Request("UCTSTATUS", {}, {0}), Request("UCTREAD", {0}, {1})}

OtherRequests ==
  {Request("CALDACWRITE", {0}, {}), Unanswered("TESTEVENTS", {}),
   Sure("GETADCFIFOSIZE", {}, {0})}
  \cup {Sure(c, {}, {0, Array}) : c \in {"GETSERIALNUMBER", "GETMANFCTRDATE", "GETCALIBRATIONDATE"}}
  \cup {Refused(c) : c \in {"CALSETCFG", "DIAGPCIECHO", "DIAGPCIINT", "TESTBUFFERING"}}

\* Calls of the C library that a function of the user library makes between two
\* requests; mmap takes its length from the tCmd, and so does munmap.
CLibrary ==
  {Request("open", {}, {}), Request("mmap", {0}, {}), Sure("munmap", {1}, {})}

Driver == FileRequests \cup BufferRequests \cup EventRequests \cup AsyncRequests
          \cup BoardRequests \cup AInRequests \cup AOutRequests \cup DigitalRequests
          \cup CounterRequests \cup OtherRequests \cup CLibrary

\* Requests the switch has no case for leave retf as it is.
Handler(cmd) ==
  IF \E h \in Driver : h.cmd = cmd THEN CHOOSE h \in Driver : h.cmd = cmd
  ELSE Refused(cmd)

UctRequests == {h.cmd : h \in CounterRequests}

\* Requests that are refused before the lock is taken, by the kind of board.
RefusedOn(kind) ==
  CASE kind = "DIO" ->
         {"DOWRITE", "DORESET", "DICLRDATA", "DIREAD", "DIRESET", "CALSETCFG", "CALDACWRITE"}
         \cup (UctRequests \ {"UCTSWCLK", "UCTRESET"})
    [] kind = "AO" ->
         UctRequests
         \cup {"AISETCFG", "AISETCVCLK", "AISETCLCLK", "AISETCHLIST", "AISETEVNT", "AISTATUS",
               "AICVEN", "AISTARTTRIG", "AISTOPTRIG", "AISWCLSTART", "AICLRESET", "AICLRDATA",
               "AIRESET", "AIGETVALUE", "AIGETSAMPLES", "AISETSSHGAIN", "AISETXFERSIZE"}
    [] kind = "LABMF" -> UctRequests
    [] OTHER -> {}

Kinds == {"MF", "DIO", "AO", "LABMF"}
=============================================================================
