---------------------------- MODULE PowerDomain ----------------------------
(***************************************************************************)
(* The power domains of src/drivers/clk/v1/mtk_pd.c, on top of the clock   *)
(* tree.                                                                   *)
(*                                                                         *)
(* Enabling a domain enables its masters first, counts, and for the first  *)
(* count switches the domain's clock on (pdck) and runs the power sequence;*)
(* disabling goes the other way round.  Both run with the mutex of the     *)
(* power domains held and call clk_enable and clk_disable, which take that *)
(* of the clock tree.  As in ClkTree a call is a list of steps still to do.*)
(* The two power switches of a domain acknowledge one after the other and  *)
(* in their own time; a wait that polls too often ends with an error and   *)
(* the enable with it.                                                     *)
(***************************************************************************)
EXTENDS ClkTree

CONSTANTS
    PdTasks,       \* tasks that use power domains, of ClkTasks
    PdDriver,      \* the holder of the domains' clocks, of ClkHolders
    Pds,           \* power domains
    PdMasters,     \* [Pds -> Seq(Pds)]: the domains a domain lives in
    PdClk,         \* [Pds -> Seq(Clks)]: its clock of the pdck provider, if any
    PdSubClk,      \* [Pds -> Seq(Clks)]: its clock of the pdsck provider, if any
    PdBootOn,      \* domains the boot loader leaves on
    PdTimeouts,    \* domains whose hardware may be too slow
    PdUses,        \* [PdTasks -> SUBSET Pds]: the domains a task uses
    PdMaxEnable,   \* bound, [PdTasks -> Nat]: mtk_pd_enable calls of a task
    PdFree         \* nobody has the mutex

VARIABLES
    pdCnt,         \* enable_cnt
    pdPower,       \* the two power switches as they are set: PWR_ON, PWR_ON_2ND
    pdStatus,      \* and as they acknowledge: PWR_STATUS, PWR_STATUS_2ND
    pdOpen,        \* isolation and reset released, clock running
    pdSram,        \* the memory is powered
    pdProtected,   \* the bus protection is set
    pdLock,        \* xSemaphore_pd
    pdWork,        \* what the call of each task has still to do
    pdCall,        \* the domain that the call enables, or none
    pdHeld,        \* successful enables of each task not followed by a disable
    pdEnables,     \* enables a task has made
    pdFailed       \* domains whose power sequence timed out

pdHwVars == <<pdPower, pdStatus, pdOpen, pdSram, pdProtected>>
pdVars == <<pdCnt, pdHwVars, pdLock, pdWork, pdCall, pdHeld, pdEnables, pdFailed>>

PdSlaves(p) == {s \in Pds : p \in ToSet(PdMasters[s])}
PdSteps(do, ps) == [i \in DOMAIN ps |-> [do |-> do, pd |-> ps[i]]]
PdSeq(dos, p) == [i \in DOMAIN dos |-> [do |-> dos[i], pd |-> p]]
Switches == {1, 2}

\* The pdck clock and mtk_pd_on; mtk_pd_off and the pdck clock.
OnSteps == <<"clk", "on1", "on2", "acked", "open", "subclk", "sram", "unprotect">>
OffSteps == <<"protect", "sramoff", "unsubclk", "close", "off1", "off2", "gone", "unclk">>
---------------------------------------------------------------------------
(* mtk_pd_enable, mtk_pd_disable *)

PdBegin(t, steps, call) ==
    /\ clkLock # t /\ pdLock = PdFree
    /\ pdLock' = t
    /\ pdWork' = [pdWork EXCEPT ![t] = steps]
    /\ pdCall' = [pdCall EXCEPT ![t] = call]
    /\ UNCHANGED <<pdCnt, pdHwVars, pdFailed, clkVars>>

PdEnable(t, p) ==
    /\ pdEnables[t] < PdMaxEnable[t]
    /\ pdEnables' = [pdEnables EXCEPT ![t] = @ + 1]
    /\ PdBegin(t, PdSteps("enable", <<p>>), <<p>>)
    /\ UNCHANGED pdHeld

\* A task disables what it has enabled.
PdDisable(t, p) ==
    /\ pdHeld[t][p] > 0
    /\ pdHeld' = [pdHeld EXCEPT ![t][p] = @ - 1]
    /\ PdBegin(t, PdSteps("disable", <<p>>), <<>>)
    /\ UNCHANGED pdEnables
---------------------------------------------------------------------------
(* The steps of a call, which wait for a clk call to return *)

PdAt(t, do) == pdWork[t] # <<>> /\ Head(pdWork[t]).do = do /\ clkLock # t
PdOf(t) == Head(pdWork[t]).pd
PdGoOn(t, steps) == pdWork' = [pdWork EXCEPT ![t] = steps \o Tail(@)]
PdCallRest == UNCHANGED <<pdLock, pdCall, pdHeld, pdEnables, pdFailed>>

\* mtk_pd_enable_nolock: the masters, then the count.
PdEnableMasters(t) ==
    /\ PdAt(t, "enable")
    /\ PdGoOn(t, PdSteps("enable", PdMasters[PdOf(t)]) \o PdSteps("count", <<PdOf(t)>>))
    /\ PdCallRest /\ UNCHANGED <<pdCnt, pdHwVars, clkVars>>

\* The first count powers the domain: pdck clock, then mtk_pd_on.
PdCount(t) ==
    /\ PdAt(t, "count")
    /\ pdCnt' = [pdCnt EXCEPT ![PdOf(t)] = @ + 1]
    /\ PdGoOn(t, IF pdCnt[PdOf(t)] # 0 THEN <<>>
                 ELSE PdSeq(OnSteps, PdOf(t)))
    /\ PdCallRest /\ UNCHANGED <<pdHwVars, clkVars>>

\* Mutant: the masters go before the domain that lives in them.
PdUncountMastersFirst(t) ==
    LET p == PdOf(t) IN
    /\ PdAt(t, "disable")
    /\ pdCnt[p] > 0
    /\ pdCnt' = [pdCnt EXCEPT ![p] = @ - 1]
    /\ PdGoOn(t, PdSteps("disable", PdMasters[p])
                 \o IF pdCnt[p] # 1 THEN <<>> ELSE PdSeq(OffSteps, p))
    /\ PdCallRest /\ UNCHANGED <<pdHwVars, clkVars>>

\* mtk_pd_disable_nolock: a domain that is not counted, and one whose slaves
\* are counted when it goes, are assertions, after which nothing runs.
PdUncount(t) ==
    LET p == PdOf(t) IN
    /\ PdAt(t, "disable")
    /\ pdCnt[p] > 0
    /\ pdCnt[p] = 1 => \A s \in PdSlaves(p) : pdCnt[s] = 0
    /\ pdCnt' = [pdCnt EXCEPT ![p] = @ - 1]
    /\ PdGoOn(t, (IF pdCnt[p] # 1 THEN <<>>
                  ELSE PdSeq(OffSteps, p))
                 \o PdSteps("disable", PdMasters[p]))
    /\ PdCallRest /\ UNCHANGED <<pdHwVars, clkVars>>
---------------------------------------------------------------------------
(* mtk_pd_on and mtk_pd_off *)

\* mtk_pd_clk_enable and mtk_pd_clk_disable, of the pdck or the pdsck clock.  The
\* task of the last disable need not be that of the first enable.
PdClock(t) ==
    \E do \in {"clk", "subclk", "unclk", "unsubclk"} :
        LET cs == IF do \in {"clk", "unclk"} THEN PdClk[PdOf(t)] ELSE PdSubClk[PdOf(t)] IN
        /\ PdAt(t, do)
        /\ PdGoOn(t, <<>>) /\ PdCallRest /\ UNCHANGED <<pdCnt, pdHwVars>>
        /\ IF cs = <<>> THEN UNCHANGED clkVars
           ELSE IF do \in {"clk", "subclk"} THEN ClkTake(t, PdDriver, "enable", cs[1])
           ELSE ClkGive(t, PdDriver, "enable", cs[1])

\* hwccf_write of PWR_ON_BIT and PWR_ON_2ND_BIT
PdSwitch(t) ==
    \E i \in Switches : \E on \in BOOLEAN :
        /\ PdAt(t, IF on THEN <<"on1", "on2">>[i] ELSE <<"off1", "off2">>[i])
        /\ pdPower' = [pdPower EXCEPT ![PdOf(t)][i] = on]
        /\ PdGoOn(t, <<>>) /\ PdCallRest
        /\ UNCHANGED <<pdCnt, pdStatus, pdOpen, pdSram, pdProtected, clkVars>>

\* mtk_pd_is_on: -EINVAL, which is true as a truth value, when the two differ.
PdIsOn(p) == CASE pdStatus[p][1] /\ pdStatus[p][2] -> "true"
               [] ~pdStatus[p][1] /\ ~pdStatus[p][2] -> "false"
               [] OTHER -> "error"

\* mtk_pd_wait_pwr_on, mtk_pd_wait_pwr_off: mtk_pd_is_pwr_on and _off look at
\* the truth value.
PdWaitPower(t) ==
    /\ \/ PdAt(t, "acked") /\ PdIsOn(PdOf(t)) # "false"
       \/ PdAt(t, "gone") /\ PdIsOn(PdOf(t)) = "false"
    /\ PdGoOn(t, <<>>) /\ PdCallRest
    /\ UNCHANGED <<pdCnt, pdHwVars, clkVars>>

\* Clock, isolation and reset; then the memory; then the bus protection.  The
\* memory answers at once and so does the bus: their waits cannot be told from
\* a pause.
PdWrite(t) ==
    /\ \E do \in {"open", "close", "sram", "sramoff", "unprotect", "protect"} :
          /\ PdAt(t, do)
          /\ pdOpen' = [pdOpen EXCEPT ![PdOf(t)] = IF do \in {"open", "close"} THEN do = "open" ELSE @]
          /\ pdSram' = [pdSram EXCEPT ![PdOf(t)] = IF do \in {"sram", "sramoff"} THEN do = "sram" ELSE @]
          /\ pdProtected' = [pdProtected EXCEPT ![PdOf(t)] =
                                IF do \in {"protect", "unprotect"} THEN do = "protect" ELSE @]
    /\ PdGoOn(t, <<>>) /\ PdCallRest
    /\ UNCHANGED <<pdCnt, pdPower, pdStatus, clkVars>>

\* A wait of an enable polls too often - for the power, or for the memory that
\* has been told to wake up: mtk_pd_enable_nolock ends, on every level, and
\* leaves what it has counted and switched.
PdTimeout(t) ==
    LET p == PdOf(t) IN
    /\ \/ PdAt(t, "acked") /\ PdIsOn(p) = "false" /\ UNCHANGED pdSram
       \/ PdAt(t, "sram") /\ pdSram' = [pdSram EXCEPT ![p] = TRUE]
    /\ p \in PdTimeouts
    /\ pdWork' = [pdWork EXCEPT ![t] = <<>>]
    /\ pdCall' = [pdCall EXCEPT ![t] = <<>>]
    /\ pdFailed' = pdFailed \cup {p}
    /\ UNCHANGED <<pdCnt, pdPower, pdStatus, pdOpen, pdProtected, pdLock, pdHeld,
                   pdEnables, clkVars>>

\* mtk_pd_unlock, and the call returns.
PdReturn(t) ==
    /\ pdLock = t /\ pdWork[t] = <<>> /\ clkLock # t
    /\ pdLock' = PdFree
    /\ pdCall' = [pdCall EXCEPT ![t] = <<>>]
    /\ pdHeld' = IF pdCall[t] = <<>> THEN pdHeld
                 ELSE [pdHeld EXCEPT ![t][pdCall[t][1]] = @ + 1]
    /\ UNCHANGED <<pdCnt, pdHwVars, pdWork, pdEnables, pdFailed, clkVars>>

\* The hardware: a switch acknowledges what it is set to.
PdAcknowledge(p, i) ==
    /\ pdStatus[p][i] # pdPower[p][i]
    /\ pdStatus' = [pdStatus EXCEPT ![p][i] = pdPower[p][i]]
    /\ UNCHANGED <<pdCnt, pdPower, pdOpen, pdSram, pdProtected, pdLock, pdWork,
                   pdCall, pdHeld, pdEnables, pdFailed, clkVars>>

\* mtk_pd_disable_unused, which the platform calls before the tasks run: a domain
\* nobody counts is switched on in full and then off.
PdDisableUnused ==
    LET unused == {p \in Pds : pdCnt[p] = 0 /\ PdIsOn(p) = "true"} IN
    /\ unused # {} /\ \A t \in PdTasks : pdEnables[t] = 0
    /\ pdPower' = [p \in Pds |-> IF p \in unused THEN [i \in Switches |-> FALSE] ELSE pdPower[p]]
    /\ pdStatus' = [p \in Pds |-> IF p \in unused THEN [i \in Switches |-> FALSE] ELSE pdStatus[p]]
    /\ pdOpen' = [p \in Pds |-> pdOpen[p] /\ p \notin unused]
    /\ pdSram' = [p \in Pds |-> pdSram[p] /\ p \notin unused]
    /\ pdProtected' = [p \in Pds |-> pdProtected[p] \/ p \in unused]
    /\ UNCHANGED <<pdCnt, pdLock, pdWork, pdCall, pdHeld, pdEnables, pdFailed, clkVars>>
---------------------------------------------------------------------------
PdInit ==
    /\ ClkInit
    /\ pdCnt = [p \in Pds |-> 0]
    /\ pdPower = [p \in Pds |-> [i \in Switches |-> p \in PdBootOn]]
    /\ pdStatus = pdPower
    /\ pdOpen = [p \in Pds |-> p \in PdBootOn]
    /\ pdSram = pdOpen
    /\ pdProtected = [p \in Pds |-> p \notin PdBootOn]
    /\ pdLock = PdFree
    /\ pdWork = [t \in PdTasks |-> <<>>]
    /\ pdCall = [t \in PdTasks |-> <<>>]
    /\ pdHeld = [t \in PdTasks |-> [p \in Pds |-> 0]]
    /\ pdEnables = [t \in PdTasks |-> 0]
    /\ pdFailed = {}

PdStep(t) == \/ PdEnableMasters(t) \/ PdCount(t) \/ PdUncount(t) \/ PdClock(t)
             \/ PdSwitch(t) \/ PdWaitPower(t) \/ PdWrite(t) \/ PdTimeout(t) \/ PdReturn(t)
PdUse(t) == \E p \in PdUses[t] : PdEnable(t, p) \/ PdDisable(t, p)
\* A task in a call of mtk_pd makes no clk call of its own.
PdNext ==
    \/ \E t \in PdTasks : PdUse(t) \/ PdStep(t)
    \/ \E p \in Pds, i \in Switches : PdAcknowledge(p, i)
    \/ PdDisableUnused
    \/ /\ \/ ClkDisableUnused
          \/ \E t \in ClkTasks : ClkStep(t) \/ (pdLock # t /\ ClkUse(t))
       /\ UNCHANGED pdVars
PdSpec == PdInit /\ [][PdNext]_<<pdVars, clkVars>>
---------------------------------------------------------------------------
(* Correctness *)

\* p and the domains it lives in.
PdAbove(p) == LET above[q \in Pds] == {q} \cup UNION {above[m] : m \in ToSet(PdMasters[q])}
              IN  above[p]
PdUp(p) == /\ pdOpen[p] /\ pdSram[p] /\ ~pdProtected[p] /\ \A i \in Switches : pdPower[p][i]
           /\ \A c \in ToSet(PdClk[p] \o PdSubClk[p]) : ClkFlows("enable", c)

\* A domain that a task has enabled and not disabled is up with all its masters
\* and clocks, and a domain whose memory is awake lies in masters that are up,
\* in every state and whatever other tasks do - unless one of these timed out.
PdRuns == \A p \in Pds :
    (PdAbove(p) \cap pdFailed = {}) =>
        /\ (\E t \in PdTasks : pdHeld[t][p] > 0) => \A q \in PdAbove(p) : PdUp(q)
        /\ (pdSram[p] /\ p \notin PdBootOn) => \A q \in PdAbove(p) \ {p} : PdUp(q)

\* Between calls a domain is counted once for each task and each counted slave
\* that needs it, and no domain and no clock stays on for nobody.  An enable that
\* times out leaves counts behind, and never takes one away.
PdCounted ==
    pdLock = PdFree => \A p \in Pds :
        LET needed == MapThenSumSet(LAMBDA t : pdHeld[t][p], PdTasks)
                      + MapThenSumSet(LAMBDA s : pdCnt[s], PdSlaves(p))
        IN  /\ pdCnt[p] >= needed
            /\ pdFailed = {} =>
                 /\ pdCnt[p] = needed
                 /\ pdOpen[p] => needed > 0 \/ p \in PdBootOn
                 /\ \A c \in ToSet(PdClk[p] \o PdSubClk[p]) :
                       clkHeld[PdDriver]["enable"][c] = IF needed > 0 THEN 1 ELSE 0

Counted == ClkCounted /\ PdCounted

\* No mtk_pd_disable ends in an assertion: its domain is counted, and nothing that
\* lives in one that goes is.
PdAsserts == \A t \in PdTasks :
    LET p == PdOf(t) IN
    (pdWork[t] # <<>> /\ Head(pdWork[t]).do = "disable") =>
        /\ pdCnt[p] > 0
        /\ pdCnt[p] = 1 => \A s \in PdSlaves(p) : pdCnt[s] = 0

\* What is needed runs and nothing else is kept on, and no call that gives back
\* what it was given trips over a count: ClkRuns, PdRuns, Counted and the assertions.
Powered == ClkRuns /\ PdRuns /\ Counted /\ ClkAsserts /\ PdAsserts
=============================================================================
