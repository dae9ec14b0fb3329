--------------------------- MODULE AurisysControl ---------------------------
(***************************************************************************)
(* Who makes, uses, tells and frees the audio libraries of                 *)
(* drivers/audio/aurisys: the controller with its components (a library in *)
(* a scenario), a manager for each stream, and in it a handler for each    *)
(* library, which has an instance of the library (arsi) while it runs.     *)
(*                                                                         *)
(* A stream is one task, which makes all calls for its manager; commands   *)
(* of the AP, the controller's start and its end come from another.  A     *)
(* call is a list of steps, each of which waits for one lock, or does what *)
(* is done under those that are held and frees some.  The locks of the     *)
(* reserved memory and of the exchange between two cores are taken last,   *)
(* and left out.  What a library does with the data is in Aurisys.         *)
(***************************************************************************)
EXTENDS Integers, Sequences, FiniteSets, SequencesExt

CONSTANTS
    AcSetups,    \* [streams, commands]: the streams, [stream -> [scenario, way ("ul", "dl",
                 \* "both"), libs]], and what commands come, [kind, enable,
                 \* libs, scenarios]
    AcControl,   \* the task of the commands
    AcReserve    \* libraries in aurisys_reserve_mem

\* A stream has a library once, as its list is a hash table by names.  There is one
\* reserved memory for each direction (aurisys_lib_handler.c:2707), and no setup has two
\* libraries that need the same.
AcAssumption ==
    \A setup \in AcSetups : LET streams == setup.streams IN
    /\ IsFiniteSet(DOMAIN streams) /\ AcControl \notin DOMAIN streams
    /\ \A s \in DOMAIN streams :
          /\ streams[s].libs \in Seq(ToSet(streams[s].libs)) /\ IsInjective(streams[s].libs)
          /\ streams[s].way \in {"ul", "dl", "both"}
    /\ \A s, u \in DOMAIN streams :
          \A l \in ToSet(streams[s].libs) \cap AcReserve, m \in ToSet(streams[u].libs) \cap AcReserve :
          <<s, l>> = <<u, m>> \/ {streams[s].way, streams[u].way} = {"ul", "dl"}
    /\ \A c \in setup.commands :
          /\ c.libs \in Seq(ToSet(c.libs)) /\ c.scenarios \in Seq(ToSet(c.scenarios))
          /\ c.kind \in {"log", "dump", "apply", "get"} /\ c.enable \in BOOLEAN
ASSUME AcAssumption

VARIABLES
    acStreams,     \* the setup
    acCommands,
    acController,  \* "none", "bad" (no configuration), "on"
    acComponent,   \* [component -> what commands have set: enable_log, enable_lib_dump]
    acManagers,    \* streams that have a manager
    acHandler,     \* [stream, library -> its handler]
    acReserved,    \* dl_reserve_mem, ul_reserve_mem
    acWork,        \* [task -> the steps of its call that are left]
    acHeld,        \* locks that are held
    acStage,       \* [stream -> "away", "made", "ready" (arsi made), "ending"]
    acFailed,      \* the library for which the command has failed, or AcControl
    acHalted,      \* AUD_ASSERT has stopped the processor
    acRaced        \* the parameters of a handler were read while they were moved

acFixed == <<acStreams, acCommands>>
acLibs == <<acComponent, acHandler, acReserved>>
acVars == <<acFixed, acController, acManagers, acLibs, acWork, acHeld, acStage, acFailed,
            acHalted, acRaced>>

AcTasks == DOMAIN acStreams
AcHandlers == UNION {{<<s, l>> : l \in ToSet(acStreams[s].libs)} : s \in AcTasks}
AcComponentOf(h) == <<h[2], acStreams[h[1]].scenario>>
\* Of a configuration those that a stream has, or a command means.
AcComponents == {AcComponentOf(h) : h \in AcHandlers}
                \cup UNION {ToSet(c.libs) \X ToSet(c.scenarios) : c \in acCommands}
AcListed(c) == {h \in AcHandlers : acHandler[h].there /\ AcComponentOf(h) = c}
AcNoHandler == [there |-> FALSE, arsi |-> FALSE, log |-> FALSE, told |-> FALSE,
                dumps |-> FALSE, dump |-> FALSE, param |-> "none"]
AcRegions(h) == IF h[2] \notin AcReserve THEN {}
                ELSE IF acStreams[h[1]].way = "both" THEN {"dl", "ul"} ELSE {acStreams[h[1]].way}
---------------------------------------------------------------------------
(* Steps *)

AcLockOf(h) == <<"handler", h>>
AcManagerLock(s) == <<"manager", s>>
AcTakes(lock) == [do |-> "lock", on |-> lock, frees |-> {}]
AcDoes(do, on, frees) == [do |-> do, on |-> on, frees |-> frees]
\* A handler's own lock is held, in this order, after that of its manager or controller.
AcUnder(h, do) == <<AcTakes(AcLockOf(h)), AcDoes(do, h, {AcLockOf(h)})>>
\* The elements of two sequences in turn
AcInTurn(first, second) ==
    [k \in 1 .. 2 * Len(first) |-> IF k % 2 = 1 THEN first[(k + 1) \div 2] ELSE second[k \div 2]]
AcTakesAll(hs) == [k \in DOMAIN hs |-> AcTakes(AcLockOf(hs[k]))]
AcEach(hs, do) ==
    AcInTurn(AcTakesAll(hs), [k \in DOMAIN hs |-> AcDoes(do, hs[k], {AcLockOf(hs[k])})])
AcOwn(s) == [k \in DOMAIN acStreams[s].libs |-> <<s, acStreams[s].libs[k]>>]
AcInManager(s, steps, stage) ==
    <<AcTakes(AcManagerLock(s))>> \o steps \o <<AcDoes("end", stage, {AcManagerLock(s)})>>

AcIdle(t) == ~acHalted /\ ~acRaced /\ acWork[t] = <<>>
AcTurn(t, do) == ~acHalted /\ ~acRaced /\ acWork[t] # <<>> /\ Head(acWork[t]).do = do
AcOn(t) == Head(acWork[t]).on
AcCalls(t, steps) ==
    /\ AcIdle(t) /\ acWork' = [acWork EXCEPT ![t] = steps]
    /\ UNCHANGED <<acFixed, acController, acManagers, acLibs, acHeld, acStage, acFailed, acHalted,
                   acRaced>>
AcThen(t, steps) ==
    /\ acWork' = [acWork EXCEPT ![t] = steps \o Tail(@)]
    /\ acHeld' = acHeld \ Head(acWork[t]).frees
AcGoesOn(t) == AcThen(t, <<>>)

AcLock(t) ==
    /\ AcTurn(t, "lock") /\ AcOn(t) \notin acHeld
    /\ acWork' = [acWork EXCEPT ![t] = Tail(@)]
    /\ acHeld' = acHeld \cup {AcOn(t)}
    /\ UNCHANGED <<acFixed, acController, acManagers, acLibs, acStage, acFailed, acHalted, acRaced>>

AcEnd(t) ==
    /\ AcTurn(t, "end")
    /\ acStage' = [acStage EXCEPT ![t] = AcOn(t)]
    /\ AcGoesOn(t)
    /\ UNCHANGED <<acFixed, acController, acManagers, acLibs, acFailed, acHalted, acRaced>>
---------------------------------------------------------------------------
(* The life of a manager *)

\* create_aurisys_lib_manager, when get_aurisys_on says so.
AcCreateManager(s) ==
    /\ acStage[s] = "away" /\ acController = "on"
    /\ AcCalls(s, <<AcTakes(<<"controller">>), AcTakes(<<"managers">>), AcDoes("create", s, {<<"managers">>}),
                    AcDoes("end", "made", {<<"controller">>})>>)
\* new_aurisys_lib_manager: its handlers get what commands have set so far.
AcCreate(s) ==
    /\ AcTurn(s, "create")
    /\ acManagers' = acManagers \cup {s}
    /\ acHandler' = [h \in AcHandlers |->
          IF h[1] # s THEN acHandler[h]
          ELSE LET c == acComponent[AcComponentOf(h)] IN
               [AcNoHandler EXCEPT !.there = TRUE, !.log = c.log, !.dumps = c.dump]]
    /\ AcGoesOn(s)
    /\ UNCHANGED <<acFixed, acController, acComponent, acReserved, acStage, acFailed, acHalted, acRaced>>

\* Mutant: the controller's lock is not taken.
AcDestroyManagerAlone(s) ==
    /\ acStage[s] = "ending"
    /\ AcCalls(s, <<AcTakes(<<"managers">>), AcTakes(AcManagerLock(s)), AcTakes(<<"handlers">>)>>
                  \o AcEach(AcOwn(s), "unlink")
                  \o <<AcDoes("free", s, {<<"handlers">>, AcManagerLock(s), <<"managers">>}),
                       AcDoes("end", "away", {})>>)

AcDestroyManager(s) ==
    /\ acStage[s] = "ending"
    /\ AcCalls(s, <<AcTakes(<<"controller">>), AcTakes(<<"managers">>), AcTakes(AcManagerLock(s)),
                    AcTakes(<<"handlers">>)>>
                  \o AcEach(AcOwn(s), "unlink")
                  \o <<AcDoes("free", s, {<<"handlers">>, AcManagerLock(s), <<"managers">>}),
                       AcDoes("end", "away", {<<"controller">>})>>)
AcUnlink(s) ==
    /\ AcTurn(s, "unlink")
    /\ acHandler' = [acHandler EXCEPT ![AcOn(s)] = AcNoHandler]
    /\ AcGoesOn(s)
    /\ UNCHANGED <<acFixed, acController, acManagers, acComponent, acReserved, acStage, acFailed,
                   acHalted, acRaced>>
AcFree(s) ==
    /\ AcTurn(s, "free")
    /\ acManagers' = acManagers \ {s}
    /\ AcGoesOn(s)
    /\ UNCHANGED <<acFixed, acController, acLibs, acStage, acFailed, acHalted, acRaced>>
---------------------------------------------------------------------------
(* Libraries *)

AcCreateArsi(s) == acStage[s] = "made" /\ AcCalls(s, AcInManager(s, AcEach(AcOwn(s), "make"), "ready"))
AcDestroyArsi(s) == acStage[s] = "ready" /\ AcCalls(s, AcInManager(s, AcEach(AcOwn(s), "unmake"), "ending"))

\* aurisys_arsi_create_handler: reserved memory that is in use stops the processor.
AcMake(s) ==
    LET h == AcOn(s)  old == acHandler[h] IN
    /\ AcTurn(s, "make")
    /\ acHalted' = (~old.arsi /\ AcRegions(h) \cap acReserved # {})
    /\ acReserved' = IF old.arsi THEN acReserved ELSE acReserved \cup AcRegions(h)
    /\ acHandler' = IF old.arsi THEN acHandler
                    ELSE [acHandler EXCEPT ![h].arsi = TRUE, ![h].told = old.log, ![h].dump = old.dumps]
    /\ AcGoesOn(s)
    /\ UNCHANGED <<acFixed, acController, acManagers, acComponent, acStage, acFailed, acRaced>>

\* Mutant: the reserved memory is not given back.
AcUnmakeKeeps(s) ==
    LET h == AcOn(s)  old == acHandler[h] IN
    /\ AcTurn(s, "unmake")
    /\ acHalted' = (old.arsi /\ ~(AcRegions(h) \subseteq acReserved))
    /\ acHandler' = [acHandler EXCEPT ![h].arsi = FALSE, ![h].told = FALSE,
                                      ![h].dump = @ /\ ~(old.arsi /\ old.dumps)]
    /\ AcGoesOn(s)
    /\ UNCHANGED <<acFixed, acController, acManagers, acComponent, acReserved, acStage, acFailed, acRaced>>

\* aurisys_arsi_destroy_handler
AcUnmake(s) ==
    LET h == AcOn(s)  old == acHandler[h] IN
    /\ AcTurn(s, "unmake")
    /\ acHalted' = (old.arsi /\ ~(AcRegions(h) \subseteq acReserved))
    /\ acReserved' = IF old.arsi THEN acReserved \ AcRegions(h) ELSE acReserved
    /\ acHandler' = [acHandler EXCEPT ![h].arsi = FALSE, ![h].told = FALSE,
                                      ![h].dump = @ /\ ~(old.arsi /\ old.dumps)]
    /\ AcGoesOn(s)
    /\ UNCHANGED <<acFixed, acController, acManagers, acComponent, acStage, acFailed, acRaced>>

\* Processing, gains, mute, enhancement and buffers, for which every library, or one,
\* is called; and parameters that are applied again.
AcProcess(s) == acStage[s] = "ready" /\ AcCalls(s, AcInManager(s, AcEach(AcOwn(s), "use"), "ready"))
AcSet(s, h) == acStage[s] = "ready" /\ h[1] = s /\ AcCalls(s, AcInManager(s, AcUnder(h, "use"), "ready"))
AcUse(s) ==
    /\ AcTurn(s, "use")
    /\ AcGoesOn(s)
    /\ UNCHANGED <<acFixed, acController, acManagers, acLibs, acStage, acFailed, acHalted, acRaced>>

\* aurisys_apply_param_list, aurisys_update_param: no lock.  A buffer is found, or
\* there are no parameters any more, and then they are copied.
AcApplyParam(s) ==
    /\ acStage[s] \in {"made", "ready"}
    /\ LET hs == AcOwn(s) IN
       AcCalls(s, AcInTurn([k \in DOMAIN hs |-> AcDoes("move", hs[k], {})],
                           [k \in DOMAIN hs |-> AcDoes("copy", hs[k], {})]))
AcMove(s) ==
    /\ AcTurn(s, "move")
    /\ acHandler' = [acHandler EXCEPT ![AcOn(s)].param = "moving"]
    /\ AcGoesOn(s)
    /\ UNCHANGED <<acFixed, acController, acManagers, acComponent, acReserved, acStage, acFailed,
                   acHalted, acRaced>>
AcCopy(s) ==
    /\ AcTurn(s, "copy")
    /\ \E param \in {"none", "set"} : acHandler' = [acHandler EXCEPT ![AcOn(s)].param = param]
    /\ AcGoesOn(s)
    /\ UNCHANGED <<acFixed, acController, acManagers, acComponent, acReserved, acStage, acFailed,
                   acHalted, acRaced>>
---------------------------------------------------------------------------
(* Commands: aurisys_set_parameter, aurisys_get_parameter                  *)

\* The components of some libraries in some scenarios, those of one library together
AcTargets(libs, scenarios) ==
    LET n == Len(scenarios) IN
    [k \in 1 .. Len(libs) * n |-> <<libs[(k - 1) \div n + 1], scenarios[((k - 1) % n) + 1]>>]
AcCommand(kind, enable, libs, scenarios) ==
    LET cs == AcTargets(libs, scenarios) IN
    /\ acController = "on" /\ kind # "get"
    /\ AcCalls(AcControl, <<AcTakes(<<"controller">>)>>
            \o [k \in DOMAIN cs |-> AcDoes("component", [of |-> cs[k], kind |-> kind, enable |-> enable], {})]
            \o <<AcDoes("finish", kind, {<<"controller">>})>>)
AcGet(libs, scenarios) ==
    /\ acController = "on"
    /\ AcCalls(AcControl, <<AcTakes(<<"controller">>), AcDoes("find", AcTargets(libs, scenarios), {}),
                            AcDoes("finish", "get", {<<"controller">>})>>)

AcRuns(hs, kind, enable) ==
    AcInTurn(AcTakesAll(hs), [k \in DOMAIN hs |->
        AcDoes("run", [handler |-> hs[k], kind |-> kind, enable |-> enable], {AcLockOf(hs[k])})])

\* aurisys_set_parameter_to_component, and what it is to do with the handlers; not if
\* the configuration has no such component, or its library has failed in another one.
AcSetComponent ==
    LET on == AcOn(AcControl)  c == on.of
        skipped == c \notin AcComponents \/ c[1] = acFailed
        done == skipped \/ (on.kind = "dump" /\ acComponent[c].dump = on.enable) IN
    /\ AcTurn(AcControl, "component")
    /\ acComponent' = IF skipped THEN acComponent
                      ELSE CASE on.kind = "log" -> [acComponent EXCEPT ![c].log = on.enable]
                             [] on.kind = "dump" -> [acComponent EXCEPT ![c].dump = on.enable]
                             [] OTHER -> acComponent
    /\ AcThen(AcControl, IF done THEN <<>> ELSE AcRuns(SetToSeq(AcListed(c)), on.kind, on.enable))
    /\ UNCHANGED <<acFixed, acController, acManagers, acHandler, acReserved, acStage, acFailed,
                   acHalted, acRaced>>
\* The first component of a library with handlers
AcFind ==
    LET cs == AcOn(AcControl)
        busy == {k \in DOMAIN cs : AcListed(cs[k]) # {}}
        first == CHOOSE k \in busy : \A j \in busy : k <= j IN
    /\ AcTurn(AcControl, "find")
    /\ AcThen(AcControl, IF busy = {} THEN <<>> ELSE AcRuns(SetToSeq(AcListed(cs[first])), "get", TRUE))
    /\ UNCHANGED <<acFixed, acController, acManagers, acLibs, acStage, acFailed, acHalted, acRaced>>

AcFails(old, kind) == kind # "dump" /\ (~old.arsi \/ (kind = "apply" /\ old.param = "none"))

\* Mutant: only a library that is there is told, and the handler is not.
AcRunTellsArsi ==
    LET on == AcOn(AcControl)  h == on.handler  old == acHandler[h]
        fails == AcFails(old, on.kind) IN
    /\ AcTurn(AcControl, "run")
    /\ acHandler' = CASE on.kind = "log" ->
                           [acHandler EXCEPT ![h].told = old.arsi /\ on.enable]
                      [] on.kind = "dump" /\ old.arsi ->
                           [acHandler EXCEPT ![h].dump = TRUE, ![h].dumps = @ \/ ~old.dump]
                      [] OTHER -> acHandler
    /\ acRaced' = (on.kind = "apply" /\ old.param = "moving")
    /\ acFailed' = IF fails THEN h[2] ELSE acFailed
    \* Who asks takes the first answer.
    /\ IF on.kind = "get" /\ ~fails
       THEN /\ acWork' = [acWork EXCEPT ![AcControl] = <<Last(@)>>]
            /\ acHeld' = acHeld \ {AcLockOf(h)}
       ELSE AcGoesOn(AcControl)
    /\ UNCHANGED <<acFixed, acController, acManagers, acComponent, acReserved, acStage, acHalted>>

\* aurisys_arsi_run_adb_cmd
AcRun ==
    LET on == AcOn(AcControl)  h == on.handler  old == acHandler[h]
        fails == AcFails(old, on.kind) IN
    /\ AcTurn(AcControl, "run")
    /\ acHandler' = CASE on.kind = "log" ->
                           [acHandler EXCEPT ![h].log = on.enable, ![h].told = old.arsi /\ on.enable]
                      [] on.kind = "dump" /\ old.arsi ->
                           [acHandler EXCEPT ![h].dump = TRUE, ![h].dumps = @ \/ ~old.dump]
                      [] OTHER -> acHandler
    /\ acRaced' = (on.kind = "apply" /\ old.param = "moving")
    /\ acFailed' = IF fails THEN h[2] ELSE acFailed
    \* Who asks takes the first answer.
    /\ IF on.kind = "get" /\ ~fails
       THEN /\ acWork' = [acWork EXCEPT ![AcControl] = <<Last(@)>>]
            /\ acHeld' = acHeld \ {AcLockOf(h)}
       ELSE AcGoesOn(AcControl)
    /\ UNCHANGED <<acFixed, acController, acManagers, acComponent, acReserved, acStage, acHalted>>

AcFinish ==
    /\ AcTurn(AcControl, "finish")
    /\ acFailed' = AcControl
    /\ AcGoesOn(AcControl)
    /\ UNCHANGED <<acFixed, acController, acManagers, acLibs, acStage, acHalted, acRaced>>
---------------------------------------------------------------------------
(* init_aurisys_controller, deinit_aurisys_controller                      *)

AcNew == [c \in AcComponents |-> [log |-> FALSE, dump |-> FALSE]]

AcStart == AcCalls(AcControl, <<AcTakes(<<"controllers">>), AcDoes("start", AcControl, {<<"controllers">>})>>)
AcStarts ==
    LET first == acController = "none" IN
    /\ AcTurn(AcControl, "start")
    /\ acController' = IF first THEN "bad" ELSE acController
    /\ AcThen(AcControl, IF first THEN <<AcTakes(<<"controller">>), AcDoes("parse", AcControl, {<<"controller">>})>>
                         ELSE <<>>)
    /\ UNCHANGED <<acFixed, acManagers, acLibs, acStage, acFailed, acHalted, acRaced>>
\* Without a configuration it stays, and starting it again is refused.
AcParse ==
    /\ AcTurn(AcControl, "parse")
    /\ acController' \in {"on", "bad"}
    /\ acComponent' = AcNew
    /\ AcGoesOn(AcControl)
    /\ UNCHANGED <<acFixed, acManagers, acHandler, acReserved, acStage, acFailed, acHalted, acRaced>>

\* Its lock goes with it, so nobody may be in a call, or have a manager.
AcDeinit ==
    /\ \A t \in DOMAIN acWork : AcIdle(t)
    /\ acController # "none" /\ \A s \in AcTasks : acStage[s] = "away"
    /\ acController' = "none"
    /\ UNCHANGED <<acFixed, acManagers, acLibs, acWork, acHeld, acStage, acFailed, acHalted, acRaced>>

\* Nothing more is said.
AcStopped == (acHalted \/ acRaced) /\ UNCHANGED acVars
---------------------------------------------------------------------------
AcInit ==
    /\ \E setup \in AcSetups : acStreams = setup.streams /\ acCommands = setup.commands
    /\ acController = "none" /\ acComponent = AcNew
    /\ acManagers = {} /\ acHandler = [h \in AcHandlers |-> AcNoHandler]
    /\ acReserved = {}
    /\ acWork = [t \in AcTasks \cup {AcControl} |-> <<>>] /\ acHeld = {}
    /\ acStage = [s \in AcTasks |-> "away"]
    /\ acFailed = AcControl /\ acHalted = FALSE /\ acRaced = FALSE

AcNext ==
    \/ \E t \in DOMAIN acWork : AcLock(t)
    \/ \E s \in AcTasks :
          \/ AcCreateManager(s) \/ AcCreate(s) \/ AcDestroyManager(s) \/ AcUnlink(s) \/ AcFree(s)
          \/ AcCreateArsi(s) \/ AcMake(s) \/ AcDestroyArsi(s) \/ AcUnmake(s)
          \/ AcProcess(s) \/ AcUse(s) \/ AcApplyParam(s) \/ AcMove(s) \/ AcCopy(s) \/ AcEnd(s)
    \/ \E h \in AcHandlers : AcSet(h[1], h)
    \/ \E c \in acCommands : \/ AcGet(c.libs, c.scenarios)
                             \/ AcCommand(c.kind, c.enable, c.libs, c.scenarios)
    \/ AcSetComponent \/ AcFind \/ AcRun \/ AcFinish
    \/ AcStart \/ AcStarts \/ AcParse \/ AcDeinit \/ AcStopped
AcSpec == AcInit /\ [][AcNext]_acVars
---------------------------------------------------------------------------
(* Correctness *)

\* What a step works on: handlers, managers, the controller.
AcUses(step, h) == \/ step.do \in {"make", "unmake", "use", "move", "copy", "unlink"} /\ step.on = h
                   \/ step.do = "run" /\ step.on.handler = h
                   \/ step.do = "lock" /\ step.on = AcLockOf(h)
AcAlive ==
    \A t \in DOMAIN acWork : acWork[t] # <<>> =>
        LET step == Head(acWork[t]) IN
        /\ \A h \in AcHandlers : AcUses(step, h) => acHandler[h].there
        /\ \A s \in AcTasks : step.do = "lock" /\ step.on = AcManagerLock(s) => s \in acManagers
        /\ step.do = "lock" /\ step.on = <<"controller">> => acController # "none"

(* Nothing is used that another task has freed; a handler logs as the last *)
(* command for its component has said, whether it came before or after it, *)
(* and its library as the handler; reserved memory is in use by one        *)
(* library, which still runs, and no assertion about it fails; and the     *)
(* buffer for a dump is freed with the library that it was made for.       *)
AcServes ==
    acRaced \/
    /\ AcAlive /\ ~acHalted
    /\ \A h \in AcHandlers : LET handler == acHandler[h] IN handler.there =>
          /\ <<"controller">> \notin acHeld => handler.log = acComponent[AcComponentOf(h)].log
          /\ AcLockOf(h) \notin acHeld /\ handler.arsi => handler.told = handler.log
    /\ \A r \in {"dl", "ul"} :
          LET users == {h \in AcHandlers : acHandler[h].arsi /\ r \in AcRegions(h)}
          IN  Cardinality(users) <= 1 /\ (r \in acReserved <=> users # {})
    /\ \A h \in AcHandlers : acHandler[h].dump => acHandler[h].arsi /\ acHandler[h].dumps
=============================================================================
