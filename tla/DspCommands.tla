----------------------------- MODULE DspCommands -----------------------------
(***************************************************************************)
(* What the driver's firmware interface says to the board's DSP.  Every    *)
(* function of it is a straight sequence of register accesses: a command   *)
(* put into the host command register, words written to the transmit FIFO, *)
(* words read from the receive FIFO and compared or kept.  A script is     *)
(* that sequence; the few that depend on a word read continue with the     *)
(* script that After chooses.  DspHandshake runs them.                     *)
(*                                                                         *)
(* The words matter as far as the driver looks at them: 1 acknowledges,    *)
(* counts count, ErrRet ends a block of samples.  Registers, channels,     *)
(* configurations and values that are only passed on are Param.            *)
(***************************************************************************)
EXTENDS Integers, Sequences, FiniteSets

CONSTANTS
  FWDownloadData,  \* the firmware: segments [dwMemType, dwMemAdrs, dwMemData]
  dwFWExecAdrs,    \* where it starts
  FWDnldLoader     \* the loader: [dwMemAdrs, dwMemData]

Block    == 2      \* words in the blocks of fixed size, and in the caller's buffers
Param    == 2
ErrRet   == 4         \* 0x800000
Lump     == 3         \* 0xBAD
AIBM_SET == 5         \* the two counts of AICHLIST that are none
AIBM_GET == 6
NoAnswer == -1     \* what pd_dsp_read returns when it times out

Command(c)     == <<[op |-> "command", arg |-> c]>>
Write(w)       == <<[op |-> "write", arg |-> w]>>
Read           == <<[op |-> "read", arg |-> 0]>>
Expect(w)      == <<[op |-> "expect", arg |-> w]>>
SkipUnlessAck(n) == <<[op |-> "skip", arg |-> n]>>
NoteUnlessAck(n) == <<[op |-> "note", arg |-> n]>>
Count(kind)    == <<[op |-> "count", arg |-> kind]>>
Drain(n)       == <<[op |-> "drain", arg |-> n]>>
SetFlags(f)    == <<[op |-> "setflags", arg |-> f]>>
CheckFlags(fs) == <<[op |-> "checkflags", arg |-> fs]>>
WaitFlags(fs)  == <<[op |-> "waitflags", arg |-> fs]>>

Times(n, s) == [i \in 1 .. n |-> s[1]]
Words(data) == [i \in 1 .. Len(data) |-> Write(data[i])[1]]

-----------------------------------------------------------------------------
(* The helpers of pdl_fwi.c.                                               *)

CmdRetAck(c)   == Command(c) \o Expect(1)
CmdRetValue(c) == Command(c) \o Read
WriteAck(w)    == Write(w) \o Expect(1)

\* (Mutant: the acknowledgement of the parameter is not waited for.)
CmdWriteAckHasty(c) == CmdRetAck(c) \o Write(Param)

CmdWriteAck(c) == CmdRetAck(c) \o WriteAck(Param)

WriteTwo(c) == CmdRetAck(c) \o Write(Param) \o WriteAck(Param)
WriteThree(c) == CmdRetAck(c) \o Write(Param) \o Write(Param) \o WriteAck(Param)
ReadAt(c)   == CmdRetAck(c) \o Write(Param) \o Read

\* The same where the caller goes on after a failure, not noting it or noting it.
ReadOrNot(c)  == Command(c) \o SkipUnlessAck(2) \o Write(Param) \o Read
EventOrNot(c) == ReadOrNot(c)
WriteOrNot(c) == Command(c) \o SkipUnlessAck(3) \o Write(Param) \o Write(Param) \o Read
NotedRead(c)  == Command(c) \o NoteUnlessAck(2) \o Write(Param) \o Read
NotedWrite(c) == Command(c) \o NoteUnlessAck(3) \o Write(Param) \o Write(Param) \o NoteUnlessAck(0)

-----------------------------------------------------------------------------
(* The start of the firmware.                                              *)

pd_reset_dsp == Command("BRDHRDRST") \o WaitFlags({1, 3}) \o SetFlags(0)

pd_download_firmware_bootstrap ==
  CmdRetAck("BRDFWDNLD")
  \o Write(Len(FWDnldLoader.dwMemData)) \o Write(FWDnldLoader.dwMemAdrs)
  \o Words(FWDnldLoader.dwMemData) \o WaitFlags({1})

\* (Mutant: the reply that ends a segment is read and not compared.)
SegmentUnchecked(s) ==
  SetFlags(s.dwMemType) \o Write(Len(s.dwMemData)) \o Write(s.dwMemAdrs)
  \o Command("PCI_LOAD") \o Expect(Len(s.dwMemData)) \o Words(s.dwMemData) \o Read

\* The type is told to the DSP in the flags (1, 3 and 7 in the code).
Segment(s) ==
  SetFlags(s.dwMemType) \o Write(Len(s.dwMemData)) \o Write(s.dwMemAdrs)
  \o Command("PCI_LOAD") \o Expect(Len(s.dwMemData))
  \o Words(s.dwMemData) \o Expect(s.dwMemAdrs + Len(s.dwMemData))

Segments[n \in 0 .. Len(FWDownloadData)] ==
  IF n = 0 THEN <<>> ELSE Segments[n - 1] \o Segment(FWDownloadData[n])

pd_download_firmware ==
  CheckFlags({1}) \o Segments[Len(FWDownloadData)]
  \o SetFlags(1) \o CheckFlags({1}) \o Write(dwFWExecAdrs)
  \o Command("PCI_EXEC") \o Expect(dwFWExecAdrs) \o WaitFlags({1})

\* (Mutant: only the acknowledgement of the command is checked.)
EchoAckOnly == CmdRetAck("DIAGPCIECHO") \o Write(Lump) \o Read

pd_echo_test == CmdRetAck("DIAGPCIECHO") \o Write(Lump) \o Expect(Lump)

\* What pd_dsp_startup does when it finds the flags f; nothing when it refuses.
pd_dsp_startup(f) ==
  LET loaded == pd_download_firmware \o CheckFlags({3}) \o pd_echo_test IN
  CASE f = 1 -> loaded
    [] f \in {3, 7} -> pd_reset_dsp \o pd_download_firmware_bootstrap \o loaded
    [] OTHER -> CheckFlags({})

-----------------------------------------------------------------------------
(* The functions the subsystems are built on, file by file.                *)

(* The adapter (pdl_brd.c).                                                *)

pd_adapter_enable_interrupt == CmdWriteAck("BRDINTEN")
pd_adapter_get_board_status == Command("BRDSTATUS") \o Count("status")
pd_adapter_set_board_event1 == CmdWriteAck("BRDSETEVNTS1")
pd_adapter_set_board_event2 == CmdWriteAck("BRDSETEVNTS2")
pd_adapter_eeprom_read      == Command("BRDEPRMRD") \o Count("eeprom")
pd_adapter_eeprom_write     == Command("BRDEPRMWR") \o Count("epromwrite")
pd_cal_dac_write            == CmdWriteAck("CALDACWRITE")

BoardCalls ==
  << pd_adapter_enable_interrupt, pd_adapter_get_board_status,
     pd_adapter_set_board_event1, pd_adapter_set_board_event2,
     pd_adapter_eeprom_read, pd_adapter_eeprom_write, pd_cal_dac_write >>

(* Digital lines and DSP registers (pdl_dio.c).                            *)

pd_din_set_config     == CmdWriteAck("DICFG")
pd_din_set_event      == CmdWriteAck("BRDSETEVNTS1")
pd_din_clear_events   == CmdWriteAck("BRDSETEVNTS1")
pd_din_read_inputs    == CmdRetValue("DIREAD")
pd_din_clear_data     == CmdRetAck("DICLRDATA")
pd_din_reset          == CmdRetAck("DIRESET")
pd_din_status         == CmdRetValue("DISTATUS")
pd_dout_write_outputs == CmdWriteAck("DOWRITE")
pd_dio256_write_output == WriteTwo("DIO256WR")
pd_dio256_write_all   == Command("DIO256WR_ALL") \o Times(Block, Write(Param)) \o Expect(1)
pd_dio256_read_input  == ReadAt("DIO256RD")
pd_dio256_read_all    == Command("DIO256RD_ALL") \o Times(Block, Read) \o Expect(1)
pd_dio_dmaSet         == WriteThree("DIODMASET")
pd_dio256_setIntrMask == Command("DINSETINTRMASK") \o Count("mask")
pd_dio256_getIntrData == Command("DINGETINTRDATA") \o Count("edges")
pd_dio256_intrEnable  == CmdRetValue("DININTRREENABLE") \o WriteAck(Param)
pd_dsp_reg_write      == WriteTwo("BRDREGWR")
pd_dsp_reg_read       == ReadAt("BRDREGRD")

DigitalCalls ==
  << pd_din_set_config, pd_din_set_event, pd_din_clear_events, pd_din_read_inputs,
     pd_din_clear_data, pd_din_reset, pd_din_status, pd_dout_write_outputs,
     pd_dio256_write_output, pd_dio256_write_all, pd_dio256_read_input,
     pd_dio256_read_all, pd_dio_dmaSet, pd_dio256_setIntrMask,
     pd_dio256_getIntrData, pd_dio256_intrEnable, pd_dsp_reg_write, pd_dsp_reg_read
     >>

(* The ports of the digital and the analog output boards (pdl_dao.c).      *)

pd_ao96_writex       == pd_dio256_write_output
pd_ao96_write        == pd_dio256_write_output
pd_ao96_write_hold   == pd_dio256_write_output
pd_ao96_update       == pd_dio256_read_input
pd_ao96_set_update_channel == pd_dio256_write_output
pd_ao32_write        == pd_dio256_write_output
pd_ao32_write_hold   == pd_dio256_write_output
pd_ao32_update       == pd_dio256_read_input
pd_ao32_set_update_channel == pd_dio256_read_input
pd_dio_latch_all     == pd_dio256_read_input
pd_dio_simple_read   == pd_dio256_read_input
pd_dio_read          == pd_dio256_read_input
pd_dio_write         == pd_dio256_write_output
pd_dio_latch_enable  == pd_dio256_write_output

\* Several port registers: the rest are written whatever becomes of the first,
\* and the result says whether all were.
pd_dio_reset         == NotedWrite("DIO256WR") \o NotedWrite("DIO256WR")
pd_dio_enable_output == NotedWrite("DIO256WR") \o NotedWrite("DIO256WR")
pd_dio_prop_enable   == NotedWrite("DIO256WR") \o NotedWrite("DIO256WR")

\* (Block stands for the 95 and the 32 channels that are written.)
pd_ao96_reset == NotedRead("DIO256RD") \o NotedWrite("DIO256WR") \o NotedWrite("DIO256WR")
pd_ao32_reset == NotedRead("DIO256RD") \o NotedWrite("DIO256WR") \o NotedWrite("DIO256WR")

\* With dwUpdAll, the result of the write is overwritten by that of the update.
pd_ao32_writex == WriteOrNot("DIO256WR") \o pd_dio256_read_input

PortCalls ==
  << pd_ao96_writex, pd_ao96_write, pd_ao96_write_hold, pd_ao96_update,
     pd_ao96_set_update_channel, pd_ao32_write, pd_ao32_write_hold, pd_ao32_update,
     pd_ao32_set_update_channel, pd_dio_latch_all, pd_dio_simple_read, pd_dio_read,
     pd_dio_write, pd_dio_latch_enable, pd_dio_reset, pd_dio_enable_output,
     pd_dio_prop_enable, pd_ao96_reset, pd_ao32_reset, pd_ao32_writex >>

(* Counter/timers (pdl_uct.c).                                             *)

pd_uct_set_config  == CmdWriteAck("UCTCFG")
pd_uct_set_event   == CmdWriteAck("BRDSETEVNTS1")
pd_uct_clear_event == CmdWriteAck("BRDSETEVNTS1")
pd_uct_get_status  == CmdRetValue("UCTSTATUS")
pd_uct_write       == CmdWriteAck("UCTWRITE")
pd_uct_read        == ReadAt("UCTREAD")
pd_uct_set_sw_gate == CmdWriteAck("UCTSWGATE")
pd_uct_sw_strobe   == CmdRetAck("UCTSWCLK")
pd_uct_reset       == CmdRetAck("UCTRESET")

CounterCalls ==
  << pd_uct_set_config, pd_uct_set_event, pd_uct_clear_event, pd_uct_get_status,
     pd_uct_write, pd_uct_read, pd_uct_set_sw_gate, pd_uct_sw_strobe, pd_uct_reset
     >>

(* The DSP's own counters (pdl_dspuct.c).                                  *)

\* When the status register cannot be read these go on all the same, and what
\* they write back is whatever was on the stack.
pd_dspct_load ==
  ReadOrNot("BRDREGRD") \o WriteOrNot("BRDREGWR") \o WriteOrNot("BRDREGWR") \o pd_dsp_reg_write
pd_dspct_enable_counter    == ReadOrNot("BRDREGRD") \o pd_dsp_reg_write
pd_dspct_enable_interrupts == ReadOrNot("BRDREGRD") \o pd_dsp_reg_write
pd_dspct_get_count   == pd_dsp_reg_read
pd_dspct_get_compare == pd_dsp_reg_read
pd_dspct_get_status  == pd_dsp_reg_read
pd_dspct_set_compare == pd_dsp_reg_write
pd_dspct_set_load    == pd_dsp_reg_write
pd_dspct_set_status  == pd_dsp_reg_write
pd_dsp_PS_load       == pd_dsp_reg_write
pd_dsp_PS_get_count  == pd_dsp_reg_read

DspCounterCalls ==
  << pd_dspct_load, pd_dspct_enable_counter, pd_dspct_enable_interrupts,
     pd_dspct_get_count, pd_dspct_get_compare, pd_dspct_get_status,
     pd_dspct_set_compare, pd_dspct_set_load, pd_dspct_set_status, pd_dsp_PS_load,
     pd_dsp_PS_get_count >>

(* Analog input (pdl_ain.c).                                               *)

pd_ain_set_config       == WriteThree("AICFG")
pd_ain_set_cv_clock     == CmdWriteAck("AICVCLK")
pd_ain_set_cl_clock     == CmdWriteAck("AICLCLK")
pd_ain_set_channel_list ==
  CmdRetAck("AICHLIST") \o Write(Block) \o Times(Block, Write(Param)) \o Expect(1)
pd_ain_set_BM_ctr       ==
  CmdRetAck("AICHLIST") \o Write(AIBM_SET) \o Times(Block, Write(Param)) \o Expect(1)
pd_ain_get_BM_ctr       == CmdRetAck("AICHLIST") \o Write(AIBM_GET) \o Read \o Read \o Expect(1)
pd_ain_set_events       == CmdWriteAck("AISETEVNT")
pd_ain_get_status       == CmdRetValue("AISTATUS")
pd_ain_sw_start_trigger == CmdRetAck("AISTARTTRIG")
pd_ain_sw_stop_trigger  == CmdRetAck("AISTOPTRIG")
pd_ain_set_enable_conversion == CmdWriteAck("AICVEN")
pd_ain_get_value        == CmdRetValue("AIGETVALUE")
pd_ain_set_ssh_gain     == CmdWriteAck("AISETSSHGAIN")
pd_ain_get_samples      == CmdRetAck("AIGETSAMPLES") \o Write(Block) \o Drain(Block + 1)
pd_ain_get_samples_ulong == CmdRetAck("AIGETSAMPLES") \o Write(Block) \o Drain(Block + 1)
pd_ain_reset            == CmdRetAck("AIRESET")
pd_ain_sw_cl_start      == CmdRetAck("AISWCLSTART")
pd_ain_sw_cv_start      == CmdRetAck("AISWCVSTART")
pd_ain_reset_cl         == CmdRetAck("AICLRESET")
pd_ain_clear_data       == CmdRetAck("AICLRDATA")
pd_ain_set_xfer_size    == CmdWriteAck("AIXFERSIZE")

AInCalls ==
  << pd_ain_set_config, pd_ain_set_cv_clock, pd_ain_set_cl_clock,
     pd_ain_set_channel_list, pd_ain_set_BM_ctr, pd_ain_get_BM_ctr,
     pd_ain_set_events, pd_ain_get_status, pd_ain_sw_start_trigger,
     pd_ain_sw_stop_trigger, pd_ain_set_enable_conversion, pd_ain_get_value,
     pd_ain_set_ssh_gain, pd_ain_get_samples, pd_ain_get_samples_ulong,
     pd_ain_reset, pd_ain_sw_cl_start, pd_ain_sw_cv_start, pd_ain_reset_cl,
     pd_ain_clear_data, pd_ain_set_xfer_size >>

(* Analog output (pdl_ao.c, pdl_aio.c).                                    *)

pd_aout_set_config       == WriteTwo("AOCFG")
pd_aout_set_cv_clk       == CmdWriteAck("AOCVCLK")
pd_aout_set_events       == CmdWriteAck("AOSETEVNT")
pd_aout_get_status       == CmdRetValue("AOSTATUS")
pd_aout_set_enable_conversion == CmdWriteAck("AOCVEN")
pd_aout_sw_start_trigger == CmdRetAck("AOSTARTTRIG")
pd_aout_sw_stop_trigger  == CmdRetAck("AOSTOPTRIG")
pd_aout_sw_cv_start      == CmdRetAck("AOSWCVSTART")
pd_aout_clear_data       == CmdRetAck("AOCLRDATA")
pd_aout_reset            == CmdRetAck("AORESET")
pd_aout_put_value        == CmdWriteAck("AOPUTVALUE")
pd_aout_put_block        == Command("AOPUTBLOCK") \o Count("block")
pd_aout_dmaSet           == WriteThree("AODMASET")

AOutCalls ==
  << pd_aout_set_config, pd_aout_set_cv_clk, pd_aout_set_events, pd_aout_get_status,
     pd_aout_set_enable_conversion, pd_aout_sw_start_trigger,
     pd_aout_sw_stop_trigger, pd_aout_sw_cv_start, pd_aout_clear_data,
     pd_aout_reset, pd_aout_put_value, pd_aout_put_block, pd_aout_dmaSet >>

(* Several registers at once (pdl_event.c, pdl_init.c).                    *)

\* The four event registers, one after the other: the result of each overwrites
\* that of the one before.  (All four have bits set once the board is initialised.)
EventRegisters ==
  EventOrNot("BRDSETEVNTS1") \o EventOrNot("BRDSETEVNTS2") \o EventOrNot("AISETEVNT")
  \o pd_aout_set_events

pd_enable_events  == EventRegisters
pd_disable_events == EventRegisters

\* (Block stands for the 16 or 64 calibration DACs; nothing is reported.)
pd_init_calibration == EventOrNot("CALDACWRITE") \o EventOrNot("CALDACWRITE")

EventCalls ==
  << pd_enable_events, pd_disable_events, pd_init_calibration >>

-----------------------------------------------------------------------------
(* The scripts that go on as a word read says.                             *)

Failure == CheckFlags({})

\* The words of the caller that fit.
Writes(n) == Write(n) \o Times(n, Write(Param)) \o Expect(1)

\* NoAnswer is the largest value when it is unsigned (a limit, or a count to be
\* refused), and below zero when it is an int (no words at all).
After(kind, n) ==
  CASE kind = "status" -> IF n = Block THEN Times(Block, Read) ELSE Failure
    [] kind = "eeprom" -> IF n \in 1 .. Block THEN Times(n, Read) \o Expect(1) ELSE Failure
    [] kind = "epromwrite" /\ n = 0 -> Failure
    [] kind \in {"block", "epromwrite"} ->
         Writes(IF n \in 0 .. Block THEN n ELSE Block)
    [] kind = "mask" -> (IF n > 0 THEN Times(n, Write(Param)) ELSE <<>>) \o Expect(1)
    [] kind = "edges" -> (IF n > 0 THEN Times(2 * n, Read) ELSE <<>>) \o Expect(1)

\* A block of samples is read up to ErrRet, or fails after n words without one.
AfterSample(n, w) == IF w = ErrRet THEN <<>> ELSE IF n = 1 THEN Failure ELSE Drain(n - 1)
=============================================================================
