---------------------------- MODULE LibraryCalls ----------------------------
(***************************************************************************)
(* The functions of the user library: which words of the tCmd each sets,   *)
(* which it hands to its caller, and how it makes its result from the      *)
(* results of its requests.  The values themselves, and the arithmetic on  *)
(* register numbers and masks, are left out.                               *)
(***************************************************************************)
EXTENDS DriverRequests

\* One request of a call.  sets: the words set from the arguments; again: the
\* tCmd is that of the request before; back: the words set from the first
\* request's answer.
Ask(cmd, sets)    == [cmd |-> cmd, sets |-> sets, again |-> FALSE, back |-> {}]
Again(cmd, sets)  == [Ask(cmd, sets) EXCEPT !.again = TRUE]
Update(cmd, back) == [Ask(cmd, {0}) EXCEPT !.back = back]

\* gives: the words handed to the caller after the last request.
\* refuses: are there arguments with which it returns an error without a request.
\* result: "last"  that of the last request, all being made;
\*         "first" the first failure, after which no more are made;
\*         "opened" the file descriptor, whatever OPENSUBSYSTEM said;
\*         "anded"  TRUE anded with every result.
Call(name, asks, gives, result) ==
  [name |-> name, asks |-> asks, gives |-> gives, refuses |-> FALSE, result |-> result]

Set(name, cmd, sets)        == Call(name, <<Ask(cmd, sets)>>, {}, "last")
Get(name, cmd, sets, gives) == Call(name, <<Ask(cmd, sets)>>, gives, "last")
Plain(name, cmd)            == Set(name, cmd, {})

\* A function that looks at its arguments first, and one that does nothing else.
Checked(call) == [call EXCEPT !.refuses = TRUE]
NotDone(name) == Checked(Call(name, <<>>, {}, "last"))
-----------------------------------------------------------------------------
(* powerdaq32.c                                                            *)

AdapterCalls ==
  {Call("PdGetNumberAdapters", <<Ask("open", {}), Ask("GET_NUMBER_ADAPTER", {})>>, {0}, "first"),
   Get("PdGetPciConfiguration", "PRIVATE_GETCFG", {}, {Array})}

\* There is no file for the calibration subsystem, and no negative handle.
AcquireCalls ==
  {Checked(Call("PdAcquireSubsystem_open", <<Ask("open", {}), Ask("OPENSUBSYSTEM", {0, 1})>>, {},
                "opened")),
   Checked(Set("PdAcquireSubsystem_close", "CLOSESUBSYSTEM", {0, 1}))}

UserEventCalls ==
  {Set("PdSetUserEvents", "SET_USER_EVENTS", {0, 1}),
   Set("PdClearUserEvents", "CLEAR_USER_EVENTS", {0, 1}),
   Get("PdGetUserEvents", "GET_USER_EVENTS", {0}, {1})}

BoardCalls ==
  {Plain("PdImmediateUpdate", "IMMEDIATE_UPDATE"),
   Get("PdAdapterGetBoardStatus", "BRDSTATUS", {}, 0 .. 4),
   Set("PdAdapterSetBoardEvents1", "BRDSETEVNTS1", {0}),
   Set("PdAdapterSetBoardEvents2", "BRDSETEVNTS2", {0})}

EepromCalls ==
  {Set("PdAdapterEnableInterrupt", "BRDENABLEINTERRUPT", {0}),
   Get("PdAdapterEepromRead", "BRDEEPROMREAD", {0}, {1, Array}),
   Set("PdAdapterEepromWrite", "BRDEEPROMWRITE", {0, 1, Array})}

\* Digital inputs are listed in pairs, counters at most two.
AInInits ==
  {Set("PdAInAsyncInit", "AIN_ASYNC_INIT", Words),
   Checked(Set("PdDIAsyncInit", "AIN_ASYNC_INIT", Words))}

CTInit == {Checked(Set("PdCTAsyncInit", "AIN_ASYNC_INIT", Words))}

Started(name, sets) ==
  Call(name, <<Ask("AORESET", {}), Ask("AO_ASYNC_INIT", sets)>>, {}, "first")

\* (Mutant: the result of the reset is overwritten by that of the initialisation.)
AOutInitGoesOn ==
  {Call("PdAOutAsyncInit", <<Ask("AORESET", {}), Ask("AO_ASYNC_INIT", Words)>>, {}, "last")}

AOutInit == {Started("PdAOutAsyncInit", Words)}

\* The channel list is set only if it is shorter than the longest; the driver
\* takes the longest, too.
AOInit ==
  {Started("PdAOAsyncInit", Words), Started("PdAOAsyncInit_longest", Words \ {Array})}

DOInit ==
  {Started("PdDOAsyncInit", Words), Started("PdDOAsyncInit_longest", Words \ {Array})}

TermCalls ==
  {Plain("PdAInAsyncTerm", "AIN_ASYNC_TERM"), Plain("PdDIAsyncTerm", "AIN_ASYNC_TERM"),
   Plain("PdCTAsyncTerm", "AIN_ASYNC_TERM"), Plain("PdAOutAsyncTerm", "AO_ASYNC_TERM"),
   Plain("PdAOAsyncTerm", "AO_ASYNC_TERM"), Plain("PdDOAsyncTerm", "AO_ASYNC_TERM")}

StartCalls ==
  {Plain("PdAInAsyncStart", "AIN_ASYNC_START"), Plain("PdDIAsyncStart", "AIN_ASYNC_START"),
   Plain("PdCTAsyncStart", "AIN_ASYNC_START"), Plain("PdAOutAsyncStart", "AO_ASYNC_START"),
   Plain("PdAOAsyncStart", "AO_ASYNC_START"), Plain("PdDOAsyncStart", "AO_ASYNC_START")}

StopCalls ==
  {Plain("PdAInAsyncStop", "AIN_ASYNC_STOP"), Plain("PdDIAsyncStop", "AIN_ASYNC_STOP"),
   Plain("PdCTAsyncStop", "AIN_ASYNC_STOP"), Plain("PdAOutAsyncStop", "AO_ASYNC_STOP"),
   Plain("PdAOAsyncStop", "AO_ASYNC_STOP"), Plain("PdDOAsyncStop", "AO_ASYNC_STOP")}

\* Index and number are set to 0 for the answer to a request that fails.
Scans(name) == Get(name, "GET_DAQBUF_SCANS", 0 .. 4, {2, 3})

InputScans  == {Scans("PdAInGetScans"), Scans("PdAInGetBufState"), Scans("PdDIGetBufState"),
                Scans("PdCTGetBufState")}
OutputScans == {Scans("PdAOutGetBufState"), Scans("PdAOGetBufState"), Scans("PdDOGetBufState"),
                NotDone("PdAdapterBoardReset")}

\* (Mutant: the size of the channel list is not sent.)
AInSettingsShort ==
  {Set("PdAInSetCfg", "AISETCFG", 0 .. 2), Set("PdAInSetCvClk", "AISETCVCLK", {0}),
   Set("PdAInSetClClk", "AISETCLCLK", {0}), Set("PdAInSetChList", "AISETCHLIST", {Array})}

AInSettings ==
  {Set("PdAInSetCfg", "AISETCFG", 0 .. 2), Set("PdAInSetCvClk", "AISETCVCLK", {0}),
   Set("PdAInSetClClk", "AISETCLCLK", {0}), Set("PdAInSetChList", "AISETCHLIST", {2, Array})}

AInSwitches ==
  {Set("PdAInEnableConv", "AICVEN", {0}), Set("PdAInSetEvents", "AISETEVNT", {0}),
   Plain("PdAInSwStartTrig", "AISTARTTRIG"), Plain("PdAInSwStopTrig", "AISTOPTRIG"),
   Plain("PdAInSwCvStart", "AISWCVSTART"), Plain("PdAInSwClStart", "AISWCLSTART"),
   Plain("PdAInResetCl", "AICLRESET")}

AInData ==
  {Plain("PdAInClearData", "AICLRDATA"), Plain("PdAInReset", "AIRESET"),
   Get("PdAInGetValue", "AIGETVALUE", {}, {0}),
   Get("PdAInGetDataCount", "AIGETSAMPLECOUNT", {}, {0})}

\* More samples than tCmd has room for are refused, here and in PdAOutPutBlock.
AInSamples ==
  {Checked(Get("PdAInGetSamples", "AIGETSAMPLES", {0}, {0, Array})),
   Checked(Get("PdAInGetXFerSamples", "AIGETXFERSAMPLES", {0}, {0, Array})),
   Set("PdAInSetSSHGain", "AISETSSHGAIN", {0}), Set("PdAInSetXferSize", "AISETXFERSIZE", {0})}

AOutSettings ==
  {Set("PdAOutSetCfg", "AOSETCFG", {0, 1}), Set("PdAOutSetCvClk", "AOSETCVCLK", {0}),
   Set("PdAOutSetEvents", "AOSETEVNT", {0}), Get("PdAOutGetStatus", "AOSTATUS", {}, {0}),
   Set("PdAOutEnableConv", "AOCVEN", {0})}

AOutSwitches ==
  {Plain("PdAOutSwStartTrig", "AOSTARTTRIG"), Plain("PdAOutSwStopTrig", "AOSTOPTRIG"),
   Plain("PdAOutSwCvStart", "AOSWCVSTART"), Plain("PdAOutClearData", "AOCLRDATA"),
   Plain("PdAOutReset", "AORESET")}

AOutData ==
  {Set("PdAOutPutValue", "AOPUTVALUE", {0}),
   Checked(Get("PdAOutPutBlock", "AOPUTBLOCK", {0, Array}, {0}))}

DInCalls ==
  {Set("PdDInSetCfg", "DISETCFG", {0}), Get("PdDInGetStatus", "DISTATUS", {}, {0}),
   Get("PdDInRead", "DIREAD", {}, {0}), Plain("PdDInClearData", "DICLRDATA"),
   Plain("PdDInReset", "DIRESET")}

DOutCalls == {Set("PdDOutWrite", "DOWRITE", {0}), Plain("PdDOutReset", "DORESET")}

WriteReg(name)       == Set(name, "DIO256CMDWR", {0, 1})
ReadReg(name, gives) == Get(name, "DIO256CMDRD", {0}, gives)
RegisterCalls ==
  {WriteReg("PdDIO256CmdWrite"), ReadReg("PdDIO256CmdRead", {1}),
   Set("PdDIO256CmdWriteAll", "DIO256CMDWR_ALL", 0 .. 3),
   Get("PdDIO256CmdReadAll", "DIO256CMDRD_ALL", {}, 0 .. 3)}

\* Both halves of the ports, one request each.
Halves(name) ==
  Call(name, <<Ask("DIO256CMDWR", {0, 1}), Ask("DIO256CMDWR", {0, 1})>>, {}, "anded")

PortSwitches == {Halves("PdDIOReset"), Halves("PdDIOEnableOutput")}
PropSwitch   == {Halves("PdDIOPropEnable")}

PortCalls ==
  {ReadReg("PdDIOLatchAll", {}), ReadReg("PdDIOSimpleRead", {1}), ReadReg("PdDIORead", {1}),
   Get("PdDIOReadAll", "DIO256CMDRD_ALL", {}, 0 .. 3), WriteReg("PdDIOWrite"),
   Set("PdDIOWriteAll", "DIO256CMDWR_ALL", 0 .. 3)}

PortInterrupts ==
  {WriteReg("PdDIOExtLatchEnable"), ReadReg("PdDIOExtLatchRead", {1}),
   Set("PdDIOIntrEnable", "DIO256INTRREENABLE", {0}),
   Set("PdDIOSetIntrMask", "DIO256SETINTRMASK", {0, Array}),
   Get("PdDIOGetIntrData", "DIO256GETINTRDATA", {0}, {Array}), NotDone("PdDIOSetIntCh")}

DmaCalls   == {Set("PdDIODMASet", "DIODMASET", 0 .. 2)}
AODmaCalls == {Set("PdAODMASet", "AODMASET", 0 .. 2)}

\* A read, and a write for every channel: one stands for them all.
AllChannels(name) ==
  Call(name, <<Ask("DIO256CMDRD", {0}), Ask("DIO256CMDWR", {0, 1})>>, {}, "anded")

AOBoardCalls ==
  {AllChannels("PdAO32Reset"), AllChannels("PdAO96Reset"), WriteReg("PdAO32Write"),
   WriteReg("PdAO96Write"), WriteReg("PdAO32WriteHold"), WriteReg("PdAO96WriteHold"),
   ReadReg("PdAO32Update", {}), ReadReg("PdAO96Update", {}),
   ReadReg("PdAO32SetUpdateChannel", {}), WriteReg("PdAO96SetUpdateChannel")}

UctSettings == {Set("PdUctSetCfg", "UCTSETCFG", {0}), Get("PdUctGetStatus", "UCTSTATUS", {}, {0})}

UctCalls ==
  {Set("PdUctWrite", "UCTWRITE", {0}), Get("PdUctRead", "UCTREAD", {0}, {1}),
   Set("PdUctSwSetGate", "UCTSWGATE", {0}), Plain("PdUctSwClkStrobe", "UCTSWCLK"),
   Plain("PdUctReset", "UCTRESET")}

UctNotDone ==
  {NotDone(n) : n \in {"PdUctSetMode", "PdUctWriteValue", "PdUctReadValue", "PdUctFrqCounter",
                       "PdUctFrqGetValue", "PdCalSet"}}

ReadDsp(name)  == Get(name, "BRDREGRD", {0}, {1})
WriteDsp(name) == Set(name, "BRDREGWR", {0, 1})

CalDspCalls ==
  {Set("PdCalDACWrite", "CALDACWRITE", {0}), Set("PdCalDACSet", "CALDACWRITE", {0}),
   WriteDsp("PdDspRegWrite"), ReadDsp("PdDspRegRead")}

WaitCalls ==
  {Set("PdWaitForEvent", "PRIVATE_SET_EVENT", {0, 1}), Set("PdSleepOn", "PRIVATE_SLEEP_ON", {0}),
   Plain("PdWakeUp", "PRIVATE_WAKE_UP"), Plain("PdTestEvent", "TESTEVENTS")}

DateCalls ==
  {Get("PdGetADCFifoSize", "GETADCFIFOSIZE", {}, {0}),
   Get("PdGetSerialNumber", "GETSERIALNUMBER", {0}, {Array}),
   Get("PdGetManufactureDate", "GETMANFCTRDATE", {0}, {Array}),
   Get("PdGetCalibrationDate", "GETCALIBRATIONDATE", {0}, {Array})}

\* The result of unmapping is ignored; a size of zero ends the call.
BufferCalls ==
  LET Register   == <<Ask("REGISTER_BUFFER", 0 .. 4), Again("mmap", {})>>
      Unregister == <<Ask("GETKERNELBUFSIZE", {0}), Again("munmap", {}),
                      Again("UNREGISTER_BUFFER", {0})>>
  IN {Call("PdRegisterBuffer", Register, {}, "first"), Call("PdAcquireBuffer", Register, {}, "first"),
      Call("PdUnregisterBuffer", Unregister, {}, "first"),
      Call("PdReleaseBuffer", Unregister, {}, "first")}
-----------------------------------------------------------------------------
(* pwrdaqct.c, pwrdaqes.c, pd_hcaps.c                                      *)

\* Every function refuses a number that no counter has.  The status register is
\* read, changed and written back; errors are printed.
CounterLoad ==
  {Checked(Call("PdDspCtLoad", <<Ask("BRDREGRD", {0}), Ask("BRDREGWR", {0, 1}),
                                 Ask("BRDREGWR", {0, 1}), Update("BRDREGWR", {1})>>, {}, "last"))}

ChangeStatus(name) ==
  Checked(Call(name, <<Ask("BRDREGRD", {0}), Update("BRDREGWR", {1})>>, {}, "last"))
CounterSwitches == {ChangeStatus("PdDspCtEnableCounter"), ChangeStatus("PdDspCtEnableInterrupts")}
CounterReads  == {Checked(ReadDsp(name)) : name \in {"PdDspCtGetCount", "PdDspCtGetCompare",
                                                     "PdDspCtGetStatus"}}
CounterWrites == {Checked(WriteDsp(name)) : name \in {"PdDspCtSetCompare", "PdDspCtSetLoad",
                                                      "PdDspCtSetStatus"}}
Prescaler       == {WriteDsp("PdDspPSLoad"), ReadDsp("PdDspPSGetCount")}

EssiCalls ==
  {Call("PdEssiReset", [i \in 1 .. 6 |-> Ask("BRDREGWR", {0, 1})], {}, "first"),
   WriteDsp("PdEssi0PinsEnable"), WriteDsp("PdEssi1PinsEnable"), WriteDsp("PdEssiRegWrite"),
   ReadDsp("PdEssiRegRead")}

\* A negative handle is refused.
ClClock == {Checked(Get("PdGetAdapterClBaseClock", "PRIVATE_GETCFG", {}, {Array}))}
CvClock == {Checked(Get("PdGetAdapterCvBaseClock", "PRIVATE_GETCFG", {}, {Array}))}
-----------------------------------------------------------------------------
(* pxi.c, on a PXI board                                                   *)

\* They acquire a subsystem PdAcquireSubsystem has no file for.
PxiSave    == {NotDone("PdPXISaveSettings")}
PxiRestore == {NotDone("PdPXIRestoreSettings")}

\* Closing a file is a request too; its result is ignored here.  A board that is
\* not described is refused.
Opened == <<Ask("open", {}), Ask("OPENSUBSYSTEM", {0, 1})>>
PxiDisconnect ==
  {Checked(Call("PdPXIDisconnect", Opened \o <<Ask("DIO256CMDRD", {0})>>, {}, "opened"))}

\* The lines' description is looked up for boards that do not exist only.
PxiLines == {NotDone("PdPXIConnectLine"), NotDone("PdPXIDisconnectLine")}
-----------------------------------------------------------------------------
Library ==
  AdapterCalls \cup AcquireCalls \cup UserEventCalls \cup BoardCalls \cup EepromCalls
  \cup AInInits \cup CTInit \cup AOutInit \cup AOInit \cup DOInit
  \cup TermCalls \cup StartCalls \cup StopCalls \cup InputScans \cup OutputScans
  \cup AInSettings \cup AInSwitches \cup AInData \cup AInSamples
  \cup AOutSettings \cup AOutSwitches \cup AOutData
  \cup DInCalls \cup DOutCalls \cup RegisterCalls \cup PortSwitches \cup PropSwitch
  \cup PortCalls \cup PortInterrupts \cup DmaCalls \cup AODmaCalls \cup AOBoardCalls
  \cup UctSettings \cup UctCalls \cup UctNotDone \cup CalDspCalls \cup WaitCalls \cup DateCalls
  \cup BufferCalls \cup CounterLoad \cup CounterSwitches \cup CounterReads \cup CounterWrites
  \cup Prescaler \cup EssiCalls \cup ClClock \cup CvClock
  \cup PxiSave \cup PxiRestore \cup PxiDisconnect \cup PxiLines
=============================================================================
