------------------------------ MODULE Logger ------------------------------
(***************************************************************************)
(* The logger of src/middleware/logger/v1/logger.c, built with             *)
(* LOGGER_BUFFERABLE and without LOGGER_OVERWRITE.                         *)
(*                                                                         *)
(* Every text goes into a ring in SRAM, whose old bytes it may overwrite.  *)
(* When the ring is half full the caller pends logger_update to the timer  *)
(* task, which moves bytes on to a ring in DRAM that the AP reads and      *)
(* writes never overrun.  The bytes of the texts are numbered, so that     *)
(* what a ring holds tells where it comes from.                            *)
(***************************************************************************)
EXTENDS Integers, Sequences, SequencesExt

CONSTANTS
    LogBufLen,     \* BUF_LEN, the ring in SRAM
    LogDramLen,    \* buff_size, the ring in DRAM
    LogMaxQueue,   \* LOGGER_MAX_QUEUE
    LogLengths,    \* lengths of the texts
    LogSkips,      \* bytes the DMA skips to align its source
    LogTimerLen,   \* calls of logger_update that the queue of the timer task takes
    LogBytes       \* bound: bytes logged

ASSUME LogAssumption ==
    /\ LogBufLen \in Nat /\ LogBufLen > 1
    /\ LogDramLen \in Nat \ {0}
    /\ LogLengths \subseteq Nat
    /\ LogSkips \subseteq 0..(LogBufLen \div 2)   \* less than a word

VARIABLES
    logBuf, logW, logR,       \* logger_buf, logger_w_pos, logger_r_pos
    logDram, logDw, logDr,    \* the buffer in DRAM, ctrl->w_pos, ctrl->r_pos
    logEnable,                \* logger_dram_ctrl.enable
    logInited,                \* logger_dram_inited
    logWakeup,                \* logger_wakeup_ap
    logFlag,                  \* logger_data_move_flag
    logPended,                \* logger_update calls in the queue of the timer task
    logNotice,                \* logger_update_notify_ap is in that queue
    logUpdate,                \* where logger_update is, in the timer task
    logCount,                 \* bytes logged so far, the number of the last
    logSeen                   \* the last byte that the AP has read

logSram == <<logBuf, logW, logR, logCount>>
logAp == <<logDram, logDw, logDr, logSeen>>
logQueue == <<logFlag, logPended, logNotice, logUpdate>>
logMode == <<logEnable, logInited, logWakeup>>
logVars == <<logSram, logAp, logQueue, logMode>>

\* Positions in a ring are taken modulo its length.
LogPlace(i, len) == i % len

LogSwitches == {"logger", "dram"}   \* LOGGER_ON_BIT, LOGGER_DRAM_ON_BIT
LogBuffered == IF logW >= logR THEN logW - logR ELSE LogBufLen - (logR - logW)
LogHalfFull == LogBuffered >= LogBufLen \div 2

\* _LoggerTimerPendFunction, when it succeeds: it fails when others have filled
\* the queue, so that a refusal is possible at any time.
LogPends == logPended < LogTimerLen /\ logPended' = logPended + 1
---------------------------------------------------------------------------
(* logger_puts *)

\* Mutant: a text that wraps is taken for one that does not.
LogRoomFlat(n, w) ==
    IF logW < logR /\ w > logR THEN LogPlace(w + 1, LogBufLen) ELSE logR

\* Where the reader has to be when n bytes reach w: behind them, if they come
\* past the bytes that wait.  Not wrapping, a text that ends exactly where the
\* reader is does not move it: the ring is full then and looks empty.
LogRoom(n, w) ==
    LET overrun == IF logW + n >= LogBufLen THEN logW < logR \/ w >= logR
                   ELSE logW < logR /\ w > logR
    IN  IF overrun THEN LogPlace(w + 1, LogBufLen) ELSE logR

\* In a critical section or an interrupt.
LogPuts(n) ==
    /\ logCount + n <= LogBytes
    /\ n < LogBufLen
    /\ logCount' = logCount + n
    /\ logBuf' = [i \in DOMAIN logBuf |->
                     LET k == LogPlace(i - logW, LogBufLen)
                     IN  IF k < n THEN logCount + k + 1 ELSE logBuf[i]]
    /\ logW' = LogPlace(logW + n, LogBufLen)
    /\ logR' = LogRoom(n, logW')
    /\ \/ /\ logEnable # {} /\ LogHalfFull' /\ logFlag < LogMaxQueue
          /\ LogPends
          /\ logFlag' = logFlag + 1
       \/ UNCHANGED <<logFlag, logPended>>
    /\ UNCHANGED <<logAp, logMode, logNotice, logUpdate>>
---------------------------------------------------------------------------
(* logger_update, in the timer task; callers may log between its steps *)

LogAt(place, next) == logUpdate = place /\ logUpdate' = next

LogUpdateStart ==
    /\ LogAt("idle", "check")
    /\ logPended > 0
    /\ logPended' = logPended - 1
    /\ logFlag' = 0
    /\ UNCHANGED <<logSram, logAp, logMode, logNotice>>

\* Not for now; or the DRAM needs some time: pend the update once more; or go on.
LogUpdateOff ==
    /\ LogAt("check", "idle")
    /\ logEnable = {} \/ ~logInited
    /\ UNCHANGED <<logSram, logAp, logMode, logFlag, logPended, logNotice>>

\* Mutant: the flag goes up although the queue has not taken the call.
LogUpdateLaterAnyway ==
    /\ LogAt("check", "again")
    /\ LogPends \/ UNCHANGED logPended
    /\ logEnable # {} /\ logInited
    /\ UNCHANGED <<logSram, logAp, logMode, logFlag, logNotice>>

LogUpdateLater ==
    /\ \/ LogAt("check", "again") /\ LogPends
       \/ LogAt("check", "idle") /\ UNCHANGED logPended
    /\ logEnable # {} /\ logInited
    /\ UNCHANGED <<logSram, logAp, logMode, logFlag, logNotice>>

LogUpdateFlag ==
    /\ LogAt("again", "idle")
    /\ logFlag' = 1
    /\ UNCHANGED <<logSram, logAp, logMode, logPended, logNotice>>

LogUpdateGoOn ==
    /\ LogAt("check", "move")
    /\ logEnable # {} /\ logInited
    /\ UNCHANGED <<logSram, logAp, logMode, logFlag, logPended, logNotice>>

LogSane == logDw < LogDramLen /\ logDr < LogDramLen
LogDramFree ==
    IF logDw > logDr THEN LogDramLen - logDw + logDr - 1
    ELSE IF logDw < logDr THEN logDr - logDw - 1 ELSE LogDramLen - 1
\* The bytes up to the end of either ring, as many as the DRAM takes.
LogMovable ==
    LET source == IF logW > logR THEN logW - logR ELSE LogBufLen - logR
        target == IF source > LogDramLen - logDw THEN LogDramLen - logDw ELSE source
    IN  IF target > LogDramFree THEN LogDramFree ELSE target

\* How far the reader of the SRAM gets: bytes skipped and bytes copied.
LogTakenCopied(skip, n) == n   \* mutant: those skipped are not counted
LogTaken(skip, n) == skip + n

\* The critical section.  The DMA skips some bytes and copies some that follow.
LogUpdateMove ==
    /\ LogAt("move", "idle")
    /\ logInited' = (logInited /\ (LogHalfFull => LogSane))
    /\ IF ~LogHalfFull \/ ~LogSane \/ LogDramFree = 0
       THEN UNCHANGED <<logDram, logDw, logR, logNotice>>
       ELSE /\ logNotice' \in {logNotice, logNotice \/ (logWakeup /\ LogDramLen \div 4 >= LogDramFree)}
            /\ \E skip \in LogSkips : \E n \in {0, LogMovable - skip} :
                  /\ n >= 0
                  /\ logDram' = [i \in DOMAIN logDram |->
                        IF i - logDw \in 0..(n - 1)
                        THEN logBuf[logR + skip + i - logDw] ELSE logDram[i]]
                  /\ logDw' = LogPlace(logDw + n, LogDramLen)
                  /\ logR' = LogPlace(logR + LogTaken(skip, n), LogBufLen)
    /\ UNCHANGED <<logBuf, logW, logCount, logDr, logSeen, logEnable, logWakeup,
                   logFlag, logPended>>

LogNotify ==
    /\ logNotice
    /\ logNotice' = FALSE
    /\ UNCHANGED <<logSram, logAp, logMode, logFlag, logPended, logUpdate>>
---------------------------------------------------------------------------
(* The AP *)

\* logger_dram_register, with positions that the AP has set up.
LogRegister ==
    /\ ~logInited
    /\ logInited' = TRUE
    /\ logDw' = 0 /\ logDr' = 0
    /\ UNCHANGED <<logSram, logDram, logSeen, logEnable, logWakeup, logQueue>>

\* logger_update_enable, logger_update_wakeup_ap
LogUpdateEnable ==
    /\ \E s \in LogSwitches : logEnable' \in {logEnable \cup {s}, logEnable \ {s}}
    /\ UNCHANGED <<logSram, logAp, logQueue, logInited, logWakeup>>
LogUpdateWakeupAp ==
    /\ logWakeup' \in BOOLEAN
    /\ UNCHANGED <<logSram, logAp, logQueue, logEnable, logInited>>

\* What the DRAM holds for the AP.
LogRing(buf, len, from, to) ==
    [k \in 1..LogPlace(to - from, len) |-> buf[LogPlace(from + k - 1, len)]]
LogInDram == IF LogSane THEN LogRing(logDram, LogDramLen, logDr, logDw) ELSE <<>>
LogInSram == LogRing(logBuf, LogBufLen, logR, logW)

LogApReads ==
    /\ LogInDram # <<>>
    /\ logSeen' = LogInDram[Len(LogInDram)]
    /\ logDr' = logDw
    /\ UNCHANGED <<logSram, logDram, logDw, logQueue, logMode>>

\* The memory of the AP has lost its contents.
LogApForgets ==
    /\ logInited
    /\ logDw' = LogDramLen
    /\ UNCHANGED <<logSram, logDram, logDr, logSeen, logQueue, logMode>>
---------------------------------------------------------------------------
\* logger_init
LogInit ==
    /\ logBuf = [i \in 0..(LogBufLen - 1) |-> 0] /\ logW = 0 /\ logR = 0
    /\ logDram = [i \in 0..(LogDramLen - 1) |-> 0] /\ logDw = 0 /\ logDr = 0
    /\ logEnable = {} /\ logInited = FALSE /\ logWakeup = FALSE
    /\ logFlag = 0 /\ logPended = 0 /\ logNotice = FALSE /\ logUpdate = "idle"
    /\ logCount = 0 /\ logSeen = 0

LogTimerTask == \/ LogUpdateStart \/ LogUpdateOff \/ LogUpdateLater \/ LogUpdateFlag
                \/ LogUpdateGoOn \/ LogUpdateMove \/ LogNotify
LogTheAp == \/ LogRegister \/ LogUpdateEnable \/ LogUpdateWakeupAp \/ LogApReads
            \/ LogApForgets
LogNext == (\E n \in LogLengths : LogPuts(n)) \/ LogTimerTask \/ LogTheAp
LogSpec == LogInit /\ [][LogNext]_logVars
---------------------------------------------------------------------------
(* Correctness *)

\* What the AP has read, what waits for it in DRAM and what waits in SRAM is the
\* log in order: no byte twice, none that a later one overtook, none that was
\* overwritten in either ring while it counted as waiting; and what waits in
\* SRAM is the end of the log, without a gap.
LogInOrder ==
    LET log == <<logSeen>> \o LogInDram \o LogInSram IN
    /\ \A i \in 2..Len(log) : log[i - 1] < log[i]
    /\ \A i \in DOMAIN LogInSram : LogInSram[i] = logCount - Len(LogInSram) + i

\* The inductive form of LogInOrder.  A byte of the ring in SRAM is as old as it
\* is far behind the writer; the reader is no further behind than bytes have been
\* logged; and what the AP has read and what waits for it in DRAM come, in order,
\* before what waits in SRAM.
LogTypeOK ==
    /\ logW \in 0..(LogBufLen - 1) /\ logR \in 0..(LogBufLen - 1)
    /\ logDw \in 0..LogDramLen /\ logDr \in 0..(LogDramLen - 1)
    /\ DOMAIN logBuf = 0..(LogBufLen - 1) /\ DOMAIN logDram = 0..(LogDramLen - 1)
    /\ logCount \in Nat /\ logSeen \in Nat
LogAge(i) == LogPlace(logW - 1 - i, LogBufLen)
LogHeld ==
    \A i \in 0..(LogBufLen - 1) :
        LogAge(i) < logCount => logBuf[i] = logCount - LogAge(i)
LogGone == logCount - LogBuffered
LogInLine ==
    /\ logSeen <= LogGone
    /\ \A k \in DOMAIN LogInDram :
          /\ LogInDram[k] \in Nat
          /\ logSeen < LogInDram[k] /\ LogInDram[k] <= LogGone
          /\ \A j \in DOMAIN LogInDram : j < k => LogInDram[j] < LogInDram[k]
LogInv == LogTypeOK /\ LogHeld /\ LogInLine

\* Nothing is dropped without need.  A text drops bytes that wait in SRAM only
\* when it needs their place - but for a text that ends where the reader is, which
\* drops them all - and bytes in DRAM wait for the AP whatever is logged.
LogKeeps == [][
    /\ logCount' # logCount =>
          \/ LogBuffered' = IF logR' # logR THEN LogBufLen - 1
                            ELSE LogBuffered + logCount' - logCount
          \/ logW < logR /\ logW' = logR
    /\ UNCHANGED <<logSeen, logInited>> /\ LogSane' => IsPrefix(LogInDram, LogInDram')
    ]_logVars

\* The flag that keeps callers from pending another update is only up while
\* there is one that will clear it: logging never comes to a halt for good.
LogWillMove == logFlag > 0 => logPended > 0
=============================================================================
