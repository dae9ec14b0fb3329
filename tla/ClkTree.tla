------------------------------ MODULE ClkTree ------------------------------
(***************************************************************************)
(* The clock tree of src/drivers/clk/v1/mtk_clk.c.                         *)
(*                                                                         *)
(* Every clock has two reference counts, one of clk_prepare (its PLL) and  *)
(* one of clk_enable (its gate).  The first reference takes one of the     *)
(* clock's parent and one of the clock that votes for it in hardware       *)
(* (hc_id) or of the clocks it groups (pdck); the last one gives them back.*)
(* A call recurses over the tree with the mutex held; here it is a list of *)
(* steps still to do (clkWork), so that what other tasks rely on can be    *)
(* seen between any two accesses to the hardware.                          *)
(*                                                                         *)
(* clk.h says that the functions must not be called from an interrupt,     *)
(* where they would skip the mutex.                                        *)
(***************************************************************************)
EXTENDS Integers, Sequences, FiniteSets, FiniteSetsExt, SequencesExt

CONSTANTS
    ClkTasks,      \* tasks that call
    ClkHolders,    \* who has references: tasks, and drivers that have them for all tasks
    Clks,          \* clocks
    ClkParents,    \* [Clks -> Seq(Clks)]: parent_names, in the order of the mux
    ClkHc,         \* [Clks -> Seq(Clks)]: hc_id, at most one
    ClkPdck,       \* [Clks -> Seq(Clks)]: the clocks a pdck clock groups
    ClkOps,        \* [Clks -> SUBSET ClkKinds]: what the clock's ops can switch
    ClkAlwaysOn,   \* clocks with PLL_AO
    ClkBootOn,     \* clocks the boot loader leaves on
    ClkUses,       \* [ClkTasks -> SUBSET (ClkKinds \X Clks)]: what a task takes
    ClkSwitches,   \* [ClkTasks -> SUBSET (Clks \X Clks)]: its clk_set_parent calls
    ClkFree        \* nobody has the mutex

VARIABLES
    clkCnt,        \* prepare_cnt and enable_cnt
    clkHw,         \* what the hardware does: PLL on, gate open
    clkMux,        \* the entry of its parents a mux selects; 0: none of them
    clkLock,       \* xSemaphore_clk
    clkWork,       \* what the call of each task has still to do
    clkCall,       \* the reference a call takes, "none" for other calls
    clkHeld        \* the references each holder has taken and not given back

clkVars == <<clkCnt, clkHw, clkMux, clkLock, clkWork, clkCall, clkHeld>>

ClkKinds == {"prepare", "enable"}
ClkMuxes == {c \in Clks : Len(ClkParents[c]) > 1}

\* mtk_clk_get_parent_nolock: no parent, the only one, or what the mux selects.
ClkParent(c) ==
    IF c \in ClkMuxes /\ clkMux[c] = 0 THEN <<>>
    ELSE IF c \in ClkMuxes THEN <<ClkParents[c][clkMux[c]]>>
    ELSE ClkParents[c]

\* What the first reference switches on besides the parent, and the last off.
ClkOwn(kind, c) ==
    IF ClkHc[c] # <<>> THEN ClkHc[c]
    ELSE IF kind = "enable" THEN ClkPdck[c] ELSE <<>>
ClkHasSwitch(kind, c) == ClkHc[c] = <<>> /\ kind \in ClkOps[c]

ClkSteps(do, kind, cs) == [i \in DOMAIN cs |-> [do |-> do, kind |-> kind, clk |-> cs[i]]]
ClkSwitch(do, kind, c) == IF ClkHasSwitch(kind, c) THEN ClkSteps(do, kind, <<c>>) ELSE <<>>
ClkNone == <<"none">>
---------------------------------------------------------------------------
(* The calls: mtk_clk_lock, and what is to be done. *)

ClkBegin(t, steps, call) ==
    /\ clkLock = ClkFree
    /\ clkLock' = t
    /\ clkWork' = [clkWork EXCEPT ![t] = steps]
    /\ clkCall' = [clkCall EXCEPT ![t] = call]
    /\ UNCHANGED <<clkCnt, clkHw, clkMux>>

\* clk_prepare, clk_enable, called by t for h.
ClkTake(t, h, kind, c) ==
    /\ ClkBegin(t, ClkSteps("raise", kind, <<c>>), <<h, kind, c>>)
    /\ UNCHANGED clkHeld

\* clk_unprepare, clk_disable.
ClkGive(t, h, kind, c) ==
    /\ ClkBegin(t, ClkSteps("lower", kind, <<c>>), ClkNone)
    /\ clkHeld' = [clkHeld EXCEPT ![h][kind][c] = @ - 1]

\* The references to its parent that clock c has.
ClkRefs(do, order, c, ps) ==
    LET kinds == SelectSeq(order, LAMBDA k : clkCnt[k][c] > 0)
    IN  IF ps = <<>> THEN <<>>
        ELSE [i \in DOMAIN kinds |-> [do |-> do, kind |-> kinds[i], clk |-> ps[1]]]
ClkSelecting(c, p) == <<[do |-> "select", clk |-> c, parent |-> p]>>

\* Mutant: the old parent is given back before the new one is selected.
ClkSetParentBreaks(t, c, p) ==
    /\ ClkParent(c) # <<p>>
    /\ ClkBegin(t, ClkRefs("lower", <<"enable", "prepare">>, c, ClkParent(c))
                     \o ClkRefs("raise", <<"prepare", "enable">>, c, <<p>>)
                     \o ClkSelecting(c, p), ClkNone)
    /\ UNCHANGED clkHeld

\* Mutant: the references of prepare stay with the old parent.
ClkSetParentUnprepared(t, c, p) ==
    /\ ClkParent(c) # <<p>>
    /\ ClkBegin(t, ClkRefs("raise", <<"enable">>, c, <<p>>) \o ClkSelecting(c, p)
                     \o ClkRefs("lower", <<"enable">>, c, ClkParent(c)), ClkNone)
    /\ UNCHANGED clkHeld

\* clk_set_parent: the new parent is taken first and the old one given back last.
ClkSetParent(t, c, p) ==
    /\ ClkParent(c) # <<p>>
    /\ ClkBegin(t, ClkRefs("raise", <<"prepare", "enable">>, c, <<p>>)
                     \o ClkSelecting(c, p)
                     \o ClkRefs("lower", <<"enable", "prepare">>, c, ClkParent(c)), ClkNone)
    /\ UNCHANGED clkHeld
---------------------------------------------------------------------------
(* The steps of a call *)

ClkFirst(t, do) == clkWork[t] # <<>> /\ Head(clkWork[t]).do = do
ClkGoOn(t, steps) == clkWork' = [clkWork EXCEPT ![t] = steps \o Tail(@)]

\* mtk_clk_prepare_nolock, mtk_clk_enable_nolock
ClkRaise(t) ==
    LET k == Head(clkWork[t]).kind  c == Head(clkWork[t]).clk IN
    /\ ClkFirst(t, "raise")
    /\ IF c \in ClkAlwaysOn
       THEN ClkGoOn(t, <<>>) /\ UNCHANGED clkCnt
       ELSE /\ clkCnt' = [clkCnt EXCEPT ![k][c] = @ + 1]
            /\ ClkGoOn(t, IF clkCnt[k][c] # 0 THEN <<>>
                          ELSE ClkSteps("raise", k, ClkParent(c) \o ClkOwn(k, c))
                               \o ClkSwitch("on", k, c))
    /\ UNCHANGED <<clkHw, clkMux, clkLock, clkCall, clkHeld>>

\* mtk_clk_unprepare_nolock, mtk_clk_disable_nolock; a count that is not
\* positive is an assertion, after which nothing runs.
ClkLower(t) ==
    LET k == Head(clkWork[t]).kind  c == Head(clkWork[t]).clk IN
    /\ ClkFirst(t, "lower")
    /\ IF c \in ClkAlwaysOn
       THEN ClkGoOn(t, <<>>) /\ UNCHANGED clkCnt
       ELSE /\ clkCnt[k][c] > 0
            /\ clkCnt' = [clkCnt EXCEPT ![k][c] = @ - 1]
            /\ ClkGoOn(t, IF clkCnt[k][c] # 1 THEN <<>>
                          ELSE ClkSwitch("off", k, c)
                               \o ClkSteps("lower", k, ClkOwn(k, c) \o ClkParent(c)))
    /\ UNCHANGED <<clkHw, clkMux, clkLock, clkCall, clkHeld>>

\* ops->prepare, ops->enable; ops->unprepare, ops->disable
ClkSwitchHw(t) ==
    /\ \E do \in {"on", "off"} :
          /\ ClkFirst(t, do)
          /\ clkHw' = [clkHw EXCEPT ![Head(clkWork[t]).kind][Head(clkWork[t]).clk]
                                        = (do = "on")]
    /\ ClkGoOn(t, <<>>)
    /\ UNCHANGED <<clkCnt, clkMux, clkLock, clkCall, clkHeld>>

\* ops->set_parent
ClkSelect(t) ==
    LET c == Head(clkWork[t]).clk  p == Head(clkWork[t]).parent IN
    /\ ClkFirst(t, "select")
    /\ clkMux' = [clkMux EXCEPT ![c] = CHOOSE i \in DOMAIN ClkParents[c] : ClkParents[c][i] = p]
    /\ ClkGoOn(t, <<>>)
    /\ UNCHANGED <<clkCnt, clkHw, clkLock, clkCall, clkHeld>>

\* mtk_clk_unlock, and the call returns.
ClkReturn(t) ==
    /\ clkLock = t /\ clkWork[t] = <<>>
    /\ clkLock' = ClkFree
    /\ clkCall' = [clkCall EXCEPT ![t] = ClkNone]
    /\ clkHeld' = IF clkCall[t] = ClkNone THEN clkHeld
                  ELSE [clkHeld EXCEPT ![clkCall[t][1]][clkCall[t][2]][clkCall[t][3]] = @ + 1]
    /\ UNCHANGED <<clkCnt, clkHw, clkMux, clkWork>>

\* mtk_clk_disable_unused, which the platform calls before the tasks run.
ClkDisableUnused ==
    /\ \A k \in ClkKinds, c \in Clks : clkCnt[k][c] = 0
    /\ clkLock = ClkFree
    /\ clkHw' = [clkHw EXCEPT !["enable"] =
                    [c \in Clks |-> @[c] /\ ~("enable" \in ClkOps[c] /\ clkCnt["enable"][c] = 0)]]
    /\ UNCHANGED <<clkCnt, clkMux, clkLock, clkWork, clkCall, clkHeld>>
---------------------------------------------------------------------------
ClkInit ==
    /\ clkCnt = [k \in ClkKinds |-> [c \in Clks |-> 0]]
    /\ clkHw = [k \in ClkKinds |-> [c \in Clks |-> k \in ClkOps[c] /\ c \in ClkBootOn]]
    /\ clkMux \in [ClkMuxes -> {0, 1}]
    /\ clkLock = ClkFree
    /\ clkWork = [t \in ClkTasks |-> <<>>]
    /\ clkCall = [t \in ClkTasks |-> ClkNone]
    /\ clkHeld = [h \in ClkHolders |-> [k \in ClkKinds |-> [c \in Clks |-> 0]]]

\* A task of its own accord: at most one reference of a kind to a clock at a time,
\* and it gives back what it has.
ClkUse(t) ==
    \/ \E u \in ClkUses[t] : \/ clkHeld[t][u[1]][u[2]] = 0 /\ ClkTake(t, t, u[1], u[2])
                             \/ clkHeld[t][u[1]][u[2]] > 0 /\ ClkGive(t, t, u[1], u[2])
    \/ \E s \in ClkSwitches[t] : ClkSetParent(t, s[1], s[2])
ClkStep(t) == ClkRaise(t) \/ ClkLower(t) \/ ClkSwitchHw(t) \/ ClkSelect(t) \/ ClkReturn(t)
ClkNext == ClkDisableUnused \/ \E t \in ClkTasks : ClkUse(t) \/ ClkStep(t)
---------------------------------------------------------------------------
(* Correctness *)

\* The clocks that c needs, directly.
ClkNeeds(kind, c) == ToSet(ClkParent(c) \o ClkOwn(kind, c))

\* Does the clock run: it and everything it needs are switched on.
ClkFlows(kind, c) ==
    LET flows[d \in Clks] ==
            \/ d \in ClkAlwaysOn
            \/ /\ ClkHasSwitch(kind, d) => clkHw[kind][d]
               /\ \A n \in ClkNeeds(kind, d) : flows[n]
    IN  flows[c]

\* A clock that somebody has taken and not given back runs, all the way up, in
\* every state: whatever other tasks take, give back and re-parent meanwhile,
\* and between any two writes to the hardware.
ClkRuns == \A h \in ClkHolders, k \in ClkKinds, c \in Clks :
               clkHeld[h][k][c] > 0 => ClkFlows(k, c)

\* No call gives back what is not counted, and ends in the assertion.
ClkAsserts == \A t \in ClkTasks :
    LET step == Head(clkWork[t]) IN
    ClkFirst(t, "lower") => step.clk \in ClkAlwaysOn \/ clkCnt[step.kind][step.clk] > 0

\* Between calls every count is the number of references that holders and counted
\* clocks have, and what no one counts is off, unless the boot loader left it on:
\* no sequence of calls leaks a reference or gives one back twice, across
\* clk_set_parent too.
ClkCounted ==
    clkLock = ClkFree =>
        \A k \in ClkKinds, c \in Clks \ ClkAlwaysOn :
            /\ clkCnt[k][c] = MapThenSumSet(LAMBDA h : clkHeld[h][k][c], ClkHolders)
                               + Cardinality({d \in Clks \ ClkAlwaysOn :
                                                 clkCnt[k][d] > 0 /\ c \in ClkNeeds(k, d)})
            /\ (ClkHasSwitch(k, c) /\ clkHw[k][c]) => clkCnt[k][c] > 0 \/ c \in ClkBootOn
=============================================================================
