-------------------------------- MODULE Eint --------------------------------
(***************************************************************************)
(* External interrupts, drivers/eint/v02/src/eint.c: a set of pins with a  *)
(* mask, a domain, a sensitivity and a polarity each, and a callback.      *)
(*                                                                         *)
(* A task makes the calls, one at a time; each is a list of accesses to    *)
(* registers still to do, and the interrupt may come between any two.  A   *)
(* pin whose callback is not to be unmasked automatically stays masked     *)
(* after it until its driver unmasks it.  The registers that are written   *)
(* as a whole (the domain) are read and written in one step here: only     *)
(* tasks write them.                                                       *)
(***************************************************************************)
EXTENDS Integers, Sequences, FiniteSetsExt

CONSTANTS
    Pins,          \* EINT numbers, integers: the interrupt serves them in order
    EintDrivers    \* [Pins -> records: level, high, auto and unmask]: registrations

EintAssumption ==
    /\ Pins \subseteq Nat
    /\ \A p \in Pins : EintDrivers[p] \subseteq
          [level : BOOLEAN, high : BOOLEAN, auto : BOOLEAN, unmask : BOOLEAN]
ASSUME EintAssumption

VARIABLES
    eintMask, eintDomain, eintLevel, eintHigh, eintSoft,  \* sets of pins: registers
    eintLatch,     \* edges that have come and are not acknowledged
    eintLine,      \* pins whose line is high
    eintFunc,      \* EINT_FUNC: pins with a callback,
    eintAuto,      \*   with eint_auto_umask
    eintDeb,       \*   with is_deb_en
    eintStore,     \* EINT_Mask_Store, EINT_Domain_Store and EINT_CONF
    eintWork,      \* what the call of the task has still to do
    eintSaved,     \* flags in which this call has saved a bit that was set
    eintIsr,       \* status in mt_eint_lisr: pins still to be served
    eintWants,     \* [registered pins -> what their drivers have asked for]
    eintEnabled,   \* pins whose drivers wait for a callback
    eintAsleep     \* between save_all_config and store_all_config

eintRegs == <<eintMask, eintDomain, eintLevel, eintHigh, eintSoft, eintLatch>>
eintTable == <<eintFunc, eintAuto, eintDeb>>
eintOwner == <<eintWants, eintEnabled, eintAsleep>>
eintVars == <<eintRegs, eintLine, eintTable, eintStore, eintWork, eintSaved, eintIsr, eintOwner>>

With(set, p, in) == IF in THEN set \cup {p} ELSE set \ {p}
---------------------------------------------------------------------------
(* The hardware *)

EintActive(p) == (p \in eintLine) = (p \in eintHigh)
\* EINT_STA_BASE: a level, an edge or a bit of EINT_SOFT, unless it is masked.
EintStatus == {p \in Pins \ eintMask :
                  p \in eintLatch \cup eintSoft \/ (p \in eintLevel /\ EintActive(p))}

EintLineChanges(p) ==
    /\ eintLine' = With(eintLine, p, p \notin eintLine)
    /\ eintLatch' = IF p \notin eintLevel /\ ~EintActive(p) THEN eintLatch \cup {p} ELSE eintLatch
    /\ UNCHANGED <<eintMask, eintDomain, eintLevel, eintHigh, eintSoft, eintTable, eintStore,
                   eintWork, eintSaved, eintIsr, eintOwner>>

\* What is asleep may lose its settings.
EintForgets ==
    /\ eintAsleep /\ eintWork = <<>>
    /\ eintLevel' = {} /\ eintHigh' = {} /\ eintLatch' = {}
    /\ UNCHANGED <<eintMask, eintDomain, eintSoft, eintLine, eintTable, eintStore, eintWork,
                   eintSaved, eintIsr, eintOwner>>
---------------------------------------------------------------------------
(* mt_eint_lisr *)

EintLisr ==
    /\ eintIsr = {} /\ EintStatus \cap eintDomain # {}
    /\ eintIsr' = EintStatus \cap eintDomain
    /\ UNCHANGED <<eintRegs, eintLine, eintTable, eintStore, eintWork, eintSaved, eintOwner>>

\* Mask, callback, acknowledge and unmask.
EintServe ==
    LET p == Min(eintIsr) IN
    /\ eintIsr # {}
    /\ eintIsr' = eintIsr \ {p}
    /\ eintMask' = With(eintMask, p, p \notin eintAuto)
    /\ eintLatch' = eintLatch \ {p}
    /\ eintEnabled' = With(eintEnabled, p, p \in eintEnabled /\ p \in eintAuto)
    /\ UNCHANGED <<eintDomain, eintLevel, eintHigh, eintSoft, eintLine, eintTable, eintStore,
                   eintWork, eintSaved, eintWants, eintAsleep>>
---------------------------------------------------------------------------
(* The accesses of a call, in the order of its code *)

\* "mask" is a driver's own, "hold" one until the mask is restored.
Do(do, p, to) == [do |-> do, pin |-> p, to |-> to]

\* The function that calls them holds the mask in a flag of its own.
MaskSave(p, flag) == <<Do("read", p, flag), Do("hold", p, TRUE)>>
MaskRestore(p, flag) == Do("restore", p, flag)
SetPolarity(p, high) == MaskSave(p, "inner") \o <<Do("pol", p, high), MaskRestore(p, "inner")>>
SetSens(p, level) == Do("sens", p, level)

Registration(p, how) ==
    <<Do("func", p, TRUE), Do("auto", p, how.auto), Do("domain", p, TRUE), SetSens(p, how.level)>>
    \o SetPolarity(p, how.high) \o <<Do("ack", p, FALSE)>>
    \o (IF how.unmask THEN <<Do("mask", p, FALSE)>> ELSE <<>>)
Unregistration(p) ==
    <<Do("func", p, FALSE), Do("auto", p, FALSE), Do("deb", p, FALSE), Do("domain", p, FALSE),
      Do("ack", p, FALSE), Do("mask", p, TRUE)>>

SendPulse(p) ==
    MaskSave(p, "inner") \o <<Do("soft", p, TRUE), Do("soft", p, FALSE), MaskRestore(p, "inner")>>
SetDebounce(p) ==
    MaskSave(p, "inner") \o <<Do("deb", p, FALSE), Do("deb", p, TRUE), MaskRestore(p, "inner")>>
\* mt_can_en_debounce: not for edges.
SetHwDebounce(p) == IF p \in eintLevel THEN SetDebounce(p) ELSE <<>>

\* With the sensitivity and the polarity it has read, which nobody else writes.
GetDefPol(p, level, high) ==
    <<Do("save", p, "domain")>> \o MaskSave(p, "outer") \o <<SetSens(p, TRUE)>>
    \o SetPolarity(p, FALSE) \o <<Do("ack", p, FALSE), Do("hold", p, FALSE)>>
    \o SetPolarity(p, high)
    \o <<SetSens(p, level), MaskRestore(p, "outer"), Do("ack", p, FALSE),
         Do("unsave", p, "domain")>>

\* Mutant: the masks are saved while pins can still interrupt.
SaveAllMasksFirst == <<Do("save masks", 0, FALSE), Do("mask all", 0, TRUE),
                       Do("save domains", 0, FALSE), Do("save table", 0, FALSE)>>

\* The domain is emptied first, so that nothing interrupts.
SaveAll == <<Do("save domains", 0, FALSE), Do("save masks", 0, FALSE), Do("mask all", 0, TRUE),
             Do("save table", 0, FALSE)>>

\* The loop over the pins, some of which are left.
StoreLeft(pins) == <<Do("next", pins, FALSE)>>
StorePin(p) ==
    <<Do("func", p, p \in eintStore.func), Do("auto", p, p \in eintStore.auto),
      Do("deb", p, p \in eintStore.deb), SetSens(p, p \in eintStore.level)>>
    \o SetPolarity(p, p \in eintStore.high) \o <<Do("ack", p, FALSE)>>
\* mask_restore_all unmasks every pin for a moment.
StoreMasks == <<Do("mask all", 0, FALSE), Do("restore masks", 0, FALSE),
                Do("restore domains", 0, FALSE)>>
StoreNext(pins) ==
    IF pins = {} THEN StoreMasks ELSE StorePin(Min(pins)) \o StoreLeft(pins \ {Min(pins)})
StoreAll == StoreLeft(Pins)
---------------------------------------------------------------------------
(* One access *)

EintAccess(do, p, to) ==
    /\ eintMask' =
          CASE do \in {"mask", "hold"} -> With(eintMask, p, to)
            [] do = "restore" -> With(eintMask, p, to \in eintSaved)
            [] do = "mask all" -> IF to THEN Pins ELSE {}
            [] do = "restore masks" -> eintMask \cup eintStore.mask
            [] OTHER -> eintMask
    /\ eintDomain' =
          CASE do = "domain" -> With(eintDomain, p, to)
            [] do = "save" -> eintDomain \ {p}
            [] do = "unsave" -> With(eintDomain, p, to \in eintSaved)
            [] do = "save domains" -> {}
            [] do = "restore domains" -> eintStore.domain
            [] OTHER -> eintDomain
    /\ eintSaved' =
          CASE do = "read" -> With(eintSaved, to, p \in eintMask)
            [] do = "save" -> With(eintSaved, to, p \in eintDomain)
            [] do \in {"restore", "unsave"} -> eintSaved \ {to}
            [] OTHER -> eintSaved
    /\ eintLevel' = IF do = "sens" THEN With(eintLevel, p, to) ELSE eintLevel
    /\ eintHigh' = IF do = "pol" THEN With(eintHigh, p, to) ELSE eintHigh
    /\ eintSoft' = IF do = "soft" THEN With(eintSoft, p, to) ELSE eintSoft
    /\ eintLatch' = CASE do = "ack" -> eintLatch \ {p}
                      [] do = "soft" /\ to /\ p \notin eintLevel -> eintLatch \cup {p}
                      [] OTHER -> eintLatch
    /\ eintFunc' = IF do = "func" THEN With(eintFunc, p, to) ELSE eintFunc
    /\ eintAuto' = IF do = "auto" THEN With(eintAuto, p, to) ELSE eintAuto
    /\ eintDeb' = IF do = "deb" THEN With(eintDeb, p, to) ELSE eintDeb
    /\ eintStore' =
          CASE do = "save domains" -> [eintStore EXCEPT !.domain = eintDomain]
            [] do = "save masks" -> [eintStore EXCEPT !.mask = eintMask]
            [] do = "save table" ->
                  [eintStore EXCEPT !.func = eintFunc, !.auto = eintAuto, !.deb = eintDeb,
                                    !.level = eintLevel, !.high = eintHigh]
            [] OTHER -> eintStore
    /\ eintEnabled' = IF do = "mask" THEN With(eintEnabled, p, ~to) ELSE eintEnabled
    /\ UNCHANGED <<eintLine, eintIsr, eintWants, eintAsleep>>

EintStep ==
    LET step == Head(eintWork) IN
    /\ eintIsr = {} /\ eintWork # <<>>
    /\ eintWork' = IF step.do = "next" THEN StoreNext(step.pin) ELSE Tail(eintWork)
    /\ EintAccess(step.do, step.pin, step.to)
---------------------------------------------------------------------------
(* The calls *)

EintCall(steps) ==
    /\ eintIsr = {} /\ eintWork = <<>>
    /\ eintWork' = steps
    /\ UNCHANGED <<eintRegs, eintLine, eintTable, eintStore, eintSaved, eintIsr, eintEnabled>>
EintAwake == ~eintAsleep /\ UNCHANGED eintAsleep

EintRegister(p) ==
    /\ EintAwake /\ p \notin DOMAIN eintWants
    /\ \E how \in EintDrivers[p] :
          /\ EintCall(Registration(p, how))
          /\ eintWants' = [q \in DOMAIN eintWants \cup {p} |-> IF q = p THEN how ELSE eintWants[q]]
EintUnregister(p) ==
    /\ EintAwake /\ p \in DOMAIN eintWants
    /\ EintCall(Unregistration(p))
    /\ eintWants' = [q \in DOMAIN eintWants \ {p} |-> eintWants[q]]

\* mt_eint_mask, mt_eint_unmask
EintSetMask(p, on) ==
    /\ EintAwake /\ p \in DOMAIN eintWants
    /\ EintCall(<<Do("mask", p, on)>>)
    /\ UNCHANGED eintWants

\* A pin that the interrupt leaves masked must not be enabled: mask_save and
\* mask_restore would unmask it when the interrupt comes in between.
EintPause(p) ==
    /\ EintAwake /\ p \in DOMAIN eintWants
    /\ p \in eintEnabled => p \in eintAuto
    /\ EintCall(SendPulse(p)) \/ EintCall(SetHwDebounce(p))
    /\ UNCHANGED eintWants
EintGetDefPol(p) ==
    /\ EintAwake
    /\ EintCall(GetDefPol(p, p \in eintLevel, p \in eintHigh)) /\ UNCHANGED eintWants

EintSaveAll ==
    /\ ~eintAsleep /\ eintAsleep' = TRUE
    /\ EintCall(SaveAll) /\ UNCHANGED eintWants
EintStoreAll ==
    /\ eintAsleep /\ eintAsleep' = FALSE
    /\ EintCall(StoreAll) /\ UNCHANGED eintWants
---------------------------------------------------------------------------
\* mt_eint_init
EintInit ==
    /\ eintMask = Pins /\ eintDomain = {} /\ eintLevel = {} /\ eintHigh = {} /\ eintSoft = {}
    /\ eintLatch = {} /\ eintLine = {}
    /\ eintFunc = {} /\ eintAuto = {} /\ eintDeb = {}
    /\ eintStore = [mask |-> {}, domain |-> {}, func |-> {}, auto |-> {}, deb |-> {},
                    level |-> {}, high |-> {}]
    /\ eintWork = <<>> /\ eintSaved = {} /\ eintIsr = {}
    /\ eintWants = <<>> /\ eintEnabled = {} /\ eintAsleep = FALSE

EintNext ==
    \/ EintForgets \/ EintLisr \/ EintServe \/ EintStep \/ EintSaveAll \/ EintStoreAll
    \/ \E p \in Pins : \/ EintLineChanges(p)
                       \/ EintRegister(p) \/ EintUnregister(p) \/ EintPause(p) \/ EintGetDefPol(p)
                       \/ \E on \in BOOLEAN : EintSetMask(p, on)
EintSpec == EintInit /\ [][EintNext]_eintVars
---------------------------------------------------------------------------
(* Correctness *)

EintAtRest == eintWork = <<>> /\ eintIsr = {}

\* No driver is called that does not wait for it: not in the middle of a
\* registration, not for a pin that waits to be unmasked, not in sleep, and not
\* while all masks are restored.  Between calls every pin is as its driver has
\* asked, whatever the interrupt did in the middle of the calls, over sleep too.
EintAsWanted ==
    /\ eintIsr \cap eintFunc \subseteq eintEnabled
    /\ EintAtRest /\ eintAsleep => eintDomain = {} /\ eintMask = Pins
    /\ EintAtRest /\ ~eintAsleep =>
          /\ eintMask = Pins \ eintEnabled
          /\ eintDomain = DOMAIN eintWants /\ eintFunc = DOMAIN eintWants
          /\ \A p \in DOMAIN eintWants : LET how == eintWants[p] IN
                <<p \in eintAuto, p \in eintLevel, p \in eintHigh>>
                = <<how.auto, how.level, how.high>>
=============================================================================
