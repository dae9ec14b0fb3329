------------------------------ MODULE TimeSync ------------------------------
(***************************************************************************)
(* The time of the AP as drivers/timer/v2/ostimer.c tells it: the AP       *)
(* writes a base, a count of the timer that both read and its own time at  *)
(* that count, into four words of a mailbox, and ts_apmcu_time and         *)
(* ts_apmcu_time_isr go on counting from there.                            *)
(*                                                                         *)
(* The high words carry a version, by which a reader sees that it has read *)
(* two bases.  The AP is taken to write in the order that suits the        *)
(* reader, the reverse of its own.  The time itself is in the low words    *)
(* here, and versions do not come round within the bound on bases.         *)
(***************************************************************************)
EXTENDS Integers, Sequences, SequencesExt

CONSTANTS
    TimeTasks,   \* tasks that ask for the time
    TimeIsr,     \* an interrupt that does
    TimeCounts,  \* bound: counts of the timer
    TimeBases,   \* bound: bases that the AP writes
    TimeWord     \* 2^64: products wrap there

VARIABLES
    timeNow,      \* the timer
    timeAp,       \* the time of the AP
    timeWritten,  \* the bases: count (cyc), time (ns), the AP suspends (freeze)
    timeMbox,     \* [word -> which base it is of]
    timeCd,       \* cd: epoch_cyc, epoch_ns, epoch_freeze; raw: epoch_ns_raw
    timeAt,       \* [reader -> where it is, and its local variables]
    timeCritical  \* who is in a critical section, or the interrupt

timeShared == <<timeNow, timeAp, timeWritten, timeMbox>>
timeVars == <<timeShared, timeCd, timeAt, timeCritical>>
Readers == TimeTasks \cup {TimeIsr}
Nobody == <<>>

WriteOrder == <<"TS_H", "TS_L", "TICK_L", "TICK_H">>
Words == ToSet(WriteOrder)
Base(word) == timeWritten[timeMbox[word]]
---------------------------------------------------------------------------
(* The AP *)

Complete == timeMbox["TICK_H"] = Len(timeWritten)
Suspended == Complete /\ Last(timeWritten).freeze

Tick ==
    /\ timeNow < TimeCounts
    /\ timeNow' = timeNow + 1
    /\ timeAp' = IF Suspended THEN timeAp ELSE timeAp + 1
    /\ UNCHANGED <<timeWritten, timeMbox, timeCd, timeAt, timeCritical>>

ApStarts ==
    /\ Complete /\ Len(timeWritten) < TimeBases
    /\ \E freeze \in {FALSE, ~Suspended} :
          timeWritten' = Append(timeWritten, [cyc |-> timeNow, ns |-> timeAp, freeze |-> freeze])
    /\ timeMbox' = [timeMbox EXCEPT !["TS_H"] = Len(timeWritten')]
    /\ UNCHANGED <<timeNow, timeAp, timeCd, timeAt, timeCritical>>

ApWrites(i) ==
    /\ timeMbox[WriteOrder[i]] < timeMbox[WriteOrder[i - 1]]
    /\ timeMbox' = [timeMbox EXCEPT ![WriteOrder[i]] = @ + 1]
    /\ UNCHANGED <<timeNow, timeAp, timeWritten, timeCd, timeAt, timeCritical>>
---------------------------------------------------------------------------
(* ts_get_ap_time *)

Away == [step |-> "away"]
\* Between two steps of a reader others run, but not in a critical section and
\* not before the end of an interrupt.
Step(r, from) == timeAt[r].step = from /\ timeCritical \in {Nobody, <<r>>}
Goes(r, to) == timeAt' = [timeAt EXCEPT ![r].step = to]

\* ts_ostimer_read_isr
ReadTimer(r) ==
    /\ Step(r, "away")
    /\ timeAt' = [timeAt EXCEPT ![r] = [step |-> "check", clk |-> timeNow, ap |-> timeAp,
                                        ver |-> 0, freeze |-> FALSE]]
    /\ timeCritical' = IF r = TimeIsr THEN <<r>> ELSE timeCritical
    /\ UNCHANGED <<timeShared, timeCd>>

\* ts_timesync_if_need_base_update
NeedUpdate(r) ==
    /\ Step(r, "check")
    /\ Goes(r, IF timeMbox["TS_H"] # timeCd.raw THEN "enter" ELSE "use")
    /\ UNCHANGED <<timeShared, timeCd, timeCritical>>

\* ts_timesync_update_base: four reads in a critical section, and the same again if
\* the versions differ.  What it has read is in cd all the same.
Enter(r) ==
    /\ Step(r, "enter") /\ Goes(r, "TICK_H")
    /\ timeCritical' = <<r>>
    /\ UNCHANGED <<timeShared, timeCd>>
ReadTickH(r) ==
    /\ Step(r, "TICK_H")
    /\ timeAt' = [timeAt EXCEPT ![r].step = "TICK_L", ![r].ver = timeMbox["TICK_H"],
                                ![r].freeze = Base("TICK_H").freeze]
    /\ UNCHANGED <<timeShared, timeCd, timeCritical>>
ReadTickL(r) ==
    /\ Step(r, "TICK_L") /\ Goes(r, "TS_L")
    /\ timeCd' = [timeCd EXCEPT !.cyc = Base("TICK_L").cyc]
    /\ UNCHANGED <<timeShared, timeCritical>>
ReadTsL(r) ==
    /\ Step(r, "TS_L") /\ Goes(r, "TS_H")
    /\ timeCd' = [timeCd EXCEPT !.ns = Base("TS_L").ns]
    /\ UNCHANGED <<timeShared, timeCritical>>
\* Mutant: it settles for a version as new as the first one.
OneVersionOrNewer(r) == timeAt[r].ver <= timeMbox["TS_H"]

OneVersion(r) == timeAt[r].ver = timeMbox["TS_H"]

ReadTsH(r) ==
    /\ Step(r, "TS_H")
    /\ Goes(r, IF OneVersion(r) THEN "use" ELSE "enter")
    /\ timeCd' = [timeCd EXCEPT !.raw = timeMbox["TS_H"],
                                !.freeze = IF OneVersion(r) THEN timeAt[r].freeze ELSE @]
    /\ timeCritical' = IF r = TimeIsr THEN timeCritical ELSE Nobody
    /\ UNCHANGED timeShared

\* ts_cyc_to_ns, with mult 2 and shift 1.
CycToNs(cyc) == (((cyc % TimeWord) * 2) % TimeWord) \div 2

Use(r) ==
    /\ Step(r, "use")
    /\ timeAt' = [timeAt EXCEPT ![r] =
          [step |-> "told", ap |-> @.ap, insuspend |-> timeCd.freeze,
           ts |-> IF timeCd.freeze THEN timeCd.ns
                  ELSE timeCd.ns + CycToNs(@.clk - timeCd.cyc)]]
    /\ timeCritical' = Nobody
    /\ UNCHANGED <<timeShared, timeCd>>
Return(r) ==
    /\ Step(r, "told")
    /\ timeAt' = [timeAt EXCEPT ![r] = Away]
    /\ UNCHANGED <<timeShared, timeCd, timeCritical>>

\* A first base, from which everybody starts.
TimeInit ==
    /\ timeNow = 0 /\ timeAp = 0
    /\ timeWritten = <<[cyc |-> 0, ns |-> 0, freeze |-> FALSE]>>
    /\ timeMbox = [w \in Words |-> 1]
    /\ timeCd = [cyc |-> 0, ns |-> 0, freeze |-> FALSE, raw |-> 1]
    /\ timeAt = [r \in Readers |-> Away]
    /\ timeCritical = Nobody

TimeNext ==
    \/ Tick \/ ApStarts \/ \E i \in 2..Len(WriteOrder) : ApWrites(i)
    \/ \E r \in Readers :
          \/ ReadTimer(r) \/ NeedUpdate(r) \/ Enter(r) \/ ReadTickH(r) \/ ReadTickL(r)
          \/ ReadTsL(r) \/ ReadTsH(r) \/ Use(r) \/ Return(r)
TimeSpec == TimeInit /\ [][TimeNext]_timeVars
---------------------------------------------------------------------------
(* Correctness *)

\* What a reader has read to its end is one base, whatever the AP writes meanwhile.
TimeWhole == [][
    \A r \in Readers : timeAt[r].step = "TS_H" /\ timeAt'[r].step = "use" =>
        \E b \in ToSet(timeWritten) :
            <<timeCd'.cyc, timeCd'.ns, timeCd'.freeze>> = <<b.cyc, b.ns, b.freeze>>
    ]_timeVars

\* "if ap in operation mode: .ts = timestamp align with ap": the time that a reader
\* is told is the one that the AP had when the timer was read.
TimeAligned ==
    \A r \in Readers : timeAt[r].step = "told" /\ ~timeAt[r].insuspend =>
        timeAt[r].ts = timeAt[r].ap
=============================================================================
