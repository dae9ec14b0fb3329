-------------------------------- MODULE Gdma --------------------------------
(***************************************************************************)
(* The DMA controller, drivers/dma/v3/dma.c, in its interrupt mode: tasks  *)
(* take a channel, start a transfer and wait for the interrupt or leave    *)
(* the rest to it; the interrupt frees the channel.                        *)
(*                                                                         *)
(* Interrupts and critical sections are single steps here; the hardware    *)
(* ends a transfer whenever it likes.  A transfer can address a block of   *)
(* memory (2^26 bytes) on either side, and one jump into another.          *)
(***************************************************************************)
EXTENDS Integers, Sequences, FiniteSets, FiniteSetsExt

CONSTANTS
    GdmaChannels,  \* channels, integers: the highest free one is taken
    GdmaReserved,  \* RESERVED_DMA_CHANNEL: only for those who name them
    GdmaAsks,      \* [task -> requests: channel or GdmaAny, sync, stride, src, dst, len]
    GdmaAny,       \* NO_RESERVED
    GdmaNobody,    \* no task
    GdmaBlock      \* bytes of a block, 2^MAX_ADDR_BIT

GdmaTasks == DOMAIN GdmaAsks

\* mt_config_gdma refuses more than 2^16 - 1 units of 8 bytes, far less than a block.
GdmaRequests == [channel : GdmaChannels \cup {GdmaAny}, sync : BOOLEAN, stride : BOOLEAN,
                 src : Nat, dst : Nat, len : 1 .. GdmaBlock - 1]

ASSUME GdmaAssumption ==
    /\ GdmaReserved \subseteq GdmaChannels /\ GdmaAny \notin GdmaChannels
    /\ IsFiniteSet(GdmaChannels) /\ GdmaChannels \subseteq Int
    /\ GdmaBlock \in Nat \ {0} /\ GdmaNobody \notin GdmaTasks
    /\ \A task \in GdmaTasks : GdmaAsks[task] \subseteq GdmaRequests

VARIABLES
    gdmaChannel,   \* [channel -> in_use, task_handle, flag (sync), iten, the transfer]
    gdmaRunning,   \* channels with a transfer that goes on: RLCT is not 0
    gdmaIrq,       \* channels that interrupt: INSTSTA
    gdmaNotified,  \* tasks with a notification
    gdmaAt,        \* [task -> what it does next, its request, channel and pieces]
    gdmaLate,      \* tasks that have given up a wait before the interrupt
    gdmaEarly,     \* tasks that were told a transfer was done, and it was not
    gdmaHalf,      \* tasks that were told so although a piece was refused
    gdmaStuck      \* channels that a stride transfer leaves in use

gdmaHistory == <<gdmaLate, gdmaEarly, gdmaHalf, gdmaStuck>>
gdmaVars == <<gdmaChannel, gdmaRunning, gdmaIrq, gdmaNotified, gdmaAt, gdmaHistory>>

\* A transfer, and which side of it jumps.
Piece(src, dst, len, jump) == [src |-> src, dst |-> dst, len |-> len, jump |-> jump]
GdmaNone == Piece(0, 0, 0, "none")
GdmaFree == [inUse |-> FALSE, task |-> GdmaNobody, sync |-> TRUE, iten |-> FALSE, conf |-> GdmaNone]
GdmaIdle == [do |-> "idle", channel |-> GdmaAny, ask |-> GdmaAny, left |-> <<>>, refused |-> FALSE]
---------------------------------------------------------------------------
(* mt_addr_check and the wrapping of mt_config_gdma *)

Crosses(addr, len) ==
    /\ (addr + len) % GdmaBlock # 0
    /\ (addr + len) % GdmaBlock <= addr % GdmaBlock

\* Both sides cross the end of a block: two pieces, at the end of the source's.
GdmaPieces(ask) ==
    LET first == GdmaBlock - (ask.src % GdmaBlock) IN
    IF ask.stride \/ ~Crosses(ask.src, ask.len) \/ ~Crosses(ask.dst, ask.len)
    THEN <<Piece(ask.src, ask.dst, ask.len, "none")>>
    ELSE <<Piece(ask.src, ask.dst, first, "none"),
           Piece(ask.src + first, ask.dst + first, ask.len - first, "none")>>

\* Mutant: the destination is not looked at.
GdmaWrapSource(conf) ==
    IF conf.src % GdmaBlock > (conf.src + conf.len) % GdmaBlock
    THEN [conf EXCEPT !.jump = "src"] ELSE conf

GdmaWrap(conf) ==
    IF conf.src % GdmaBlock > (conf.src + conf.len) % GdmaBlock
    THEN [conf EXCEPT !.jump = "src"]
    ELSE IF conf.dst % GdmaBlock > (conf.dst + conf.len) % GdmaBlock
    THEN [conf EXCEPT !.jump = "dst"] ELSE conf

\* Where the hardware reads and writes: a side stays in its block if it does not jump.
GdmaAddress(addr, i, jumps) ==
    LET block == addr - (addr % GdmaBlock) IN
    IF jumps /\ i >= GdmaBlock - (addr % GdmaBlock)
    THEN block + GdmaBlock + ((i - (GdmaBlock - (addr % GdmaBlock))) % GdmaBlock)
    ELSE block + ((addr + i) % GdmaBlock)
GdmaMoves(conf) ==
    {<<GdmaAddress(conf.src, i, conf.jump = "src"), GdmaAddress(conf.dst, i, conf.jump = "dst")>> :
        i \in 0 .. conf.len - 1}
---------------------------------------------------------------------------
(* dma_transaction, dma_transaction_stride_mode *)

GdmaGoes(task, do) == gdmaAt' = [gdmaAt EXCEPT ![task].do = do]

\* The pieces are transactions of their own; all but the last are synchronous.
GdmaTransaction(task, ask) ==
    /\ gdmaAt[task] = GdmaIdle
    /\ gdmaAt' = [gdmaAt EXCEPT ![task] = [GdmaIdle EXCEPT !.do = "request", !.ask = ask,
                                                           !.left = GdmaPieces(ask)]]
    /\ UNCHANGED <<gdmaChannel, gdmaRunning, gdmaIrq, gdmaNotified, gdmaHistory>>

GdmaSync(at) == at.ask.sync \/ Len(at.left) > 1

\* The call, or what it makes of the next piece, ends; mt_addr_check looks at no result.
GdmaEnds(task, done) ==
    LET at == gdmaAt[task]  refused == at.refused \/ ~done IN
    IF Len(at.left) > 1
    THEN /\ gdmaAt' = [gdmaAt EXCEPT ![task] = [at EXCEPT !.do = "request", !.channel = GdmaAny,
                                                         !.left = Tail(@), !.refused = refused]]
         /\ UNCHANGED gdmaHalf
    ELSE /\ gdmaAt' = [gdmaAt EXCEPT ![task] = GdmaIdle]
         /\ gdmaHalf' = IF done /\ at.refused THEN gdmaHalf \cup {task} ELSE gdmaHalf

\* mt_request_dma_channel: again until there is one, or too often for a stride transfer.
GdmaRequestAny(task) ==
    LET free == {c \in GdmaChannels \ GdmaReserved : ~gdmaChannel[c].inUse} IN
    /\ gdmaAt[task].do = "request" /\ gdmaAt[task].ask.channel = GdmaAny
    /\ \/ /\ free # {}
          /\ gdmaChannel' = [gdmaChannel EXCEPT ![Max(free)].inUse = TRUE, ![Max(free)].task = task]
          /\ gdmaAt' = [gdmaAt EXCEPT ![task].do = "start", ![task].channel = Max(free)]
          /\ UNCHANGED gdmaHalf
       \/ /\ free = {} /\ gdmaAt[task].ask.stride
          /\ GdmaEnds(task, FALSE)
          /\ UNCHANGED gdmaChannel
    /\ UNCHANGED <<gdmaRunning, gdmaIrq, gdmaNotified, gdmaLate, gdmaEarly, gdmaStuck>>

\* mt_req_gdma: a channel that is in use is refused.
GdmaRequest(task) ==
    LET c == gdmaAt[task].ask.channel IN
    /\ gdmaAt[task].do = "request" /\ c # GdmaAny
    /\ IF gdmaChannel[c].inUse
       THEN /\ GdmaEnds(task, FALSE)
            /\ UNCHANGED gdmaChannel
       ELSE /\ gdmaChannel' = [gdmaChannel EXCEPT ![c].inUse = TRUE, ![c].task = task]
            /\ gdmaAt' = [gdmaAt EXCEPT ![task].do = "reset", ![task].channel = c]
            /\ UNCHANGED gdmaHalf
    /\ UNCHANGED <<gdmaRunning, gdmaIrq, gdmaNotified, gdmaLate, gdmaEarly, gdmaStuck>>

\* mt_reset_gdma_conf
GdmaReset(task) ==
    LET c == gdmaAt[task].channel IN
    /\ gdmaAt[task].do = "reset"
    /\ gdmaChannel' = [gdmaChannel EXCEPT ![c].sync = FALSE, ![c].iten = FALSE, ![c].conf = GdmaNone]
    /\ GdmaGoes(task, "start")
    /\ UNCHANGED <<gdmaRunning, gdmaIrq, gdmaNotified, gdmaHistory>>

\* mt_config_gdma and mt_start_gdma in a critical section.  A stride transfer that
\* is waited for has no interrupt.
GdmaStart(task) ==
    LET at == gdmaAt[task]  c == at.channel IN
    /\ at.do = "start"
    /\ gdmaChannel' = [gdmaChannel EXCEPT ![c].sync = GdmaSync(at),
                                          ![c].iten = ~(at.ask.stride /\ at.ask.sync),
                                          ![c].conf = GdmaWrap(Head(at.left))]
    /\ gdmaRunning' = gdmaRunning \cup {c}
    /\ gdmaIrq' = gdmaIrq \ {c}
    /\ IF GdmaSync(at)
       THEN GdmaGoes(task, "await") /\ UNCHANGED gdmaHalf
       ELSE GdmaEnds(task, TRUE)
    /\ gdmaStuck' = IF gdmaChannel'[c].iten THEN gdmaStuck ELSE gdmaStuck \cup {c}
    /\ UNCHANGED <<gdmaNotified, gdmaLate, gdmaEarly>>

\* ulTaskNotifyTake: the result is DMA_RESULT_DONE.
GdmaWoken(task) ==
    /\ gdmaAt[task].do = "await"
    /\ task \in gdmaNotified
    /\ gdmaNotified' = gdmaNotified \ {task}
    /\ gdmaEarly' = IF gdmaAt[task].channel \in gdmaRunning
                        /\ gdmaChannel[gdmaAt[task].channel].task = task
                    THEN gdmaEarly \cup {task} ELSE gdmaEarly
    /\ GdmaEnds(task, TRUE)
    /\ UNCHANGED <<gdmaChannel, gdmaRunning, gdmaIrq, gdmaLate, gdmaStuck>>

\* Also after 10000 ticks without one.
GdmaGivesUp(task) ==
    /\ gdmaAt[task].do = "await"
    /\ task \notin gdmaNotified
    /\ gdmaLate' = gdmaLate \cup {task}
    /\ GdmaEnds(task, TRUE)
    /\ UNCHANGED <<gdmaChannel, gdmaRunning, gdmaIrq, gdmaNotified, gdmaEarly, gdmaStuck>>
---------------------------------------------------------------------------
(* The interrupt and the hardware *)

\* mt_free_gdma
GdmaFreed(c) == [gdmaChannel EXCEPT ![c].inUse = FALSE, ![c].task = GdmaNobody, ![c].sync = TRUE]

\* Mutant: a transfer that nobody waits for is announced too.
GdmaIrqHandlerAlways(c) ==
    /\ c \in gdmaIrq
    /\ gdmaNotified' = gdmaNotified \cup {gdmaChannel[c].task}
    /\ gdmaChannel' = GdmaFreed(c)
    /\ gdmaIrq' = gdmaIrq \ {c}
    /\ gdmaRunning' = gdmaRunning \ {c}
    /\ UNCHANGED <<gdmaAt, gdmaHistory>>

\* mt_dma_irqhandler, for one of the channels.
GdmaIrqHandler(c) ==
    /\ c \in gdmaIrq
    /\ gdmaNotified' = IF gdmaChannel[c].sync THEN gdmaNotified \cup {gdmaChannel[c].task}
                       ELSE gdmaNotified
    /\ gdmaChannel' = GdmaFreed(c)
    /\ gdmaIrq' = gdmaIrq \ {c}
    /\ gdmaRunning' = gdmaRunning \ {c}
    /\ UNCHANGED <<gdmaAt, gdmaHistory>>

GdmaFinishes(c) ==
    /\ c \in gdmaRunning
    /\ gdmaRunning' = gdmaRunning \ {c}
    /\ gdmaIrq' = IF gdmaChannel[c].iten THEN gdmaIrq \cup {c} ELSE gdmaIrq
    /\ UNCHANGED <<gdmaChannel, gdmaNotified, gdmaAt, gdmaHistory>>
---------------------------------------------------------------------------
\* mt_init_dma
GdmaInit ==
    /\ gdmaChannel = [c \in GdmaChannels |-> GdmaFree]
    /\ gdmaRunning = {} /\ gdmaIrq = {} /\ gdmaNotified = {}
    /\ gdmaAt = [task \in GdmaTasks |-> GdmaIdle]
    /\ gdmaLate = {} /\ gdmaEarly = {} /\ gdmaHalf = {} /\ gdmaStuck = {}

GdmaNext ==
    \/ \E task \in GdmaTasks :
          \/ \E ask \in GdmaAsks[task] : GdmaTransaction(task, ask)
          \/ GdmaRequestAny(task) \/ GdmaRequest(task) \/ GdmaReset(task) \/ GdmaStart(task)
          \/ GdmaWoken(task) \/ GdmaGivesUp(task)
    \/ \E c \in GdmaChannels : GdmaIrqHandler(c) \/ GdmaFinishes(c)

GdmaSpec == GdmaInit /\ [][GdmaNext]_gdmaVars
---------------------------------------------------------------------------
(* A call that waits for its transfer and is told that it is done finds it *)
(* done, unless the task has given up a wait before: the notification of   *)
(* that transfer is still to come, and is taken for the next one's.        *)
GdmaDone == gdmaEarly \subseteq gdmaLate

(* A channel that is in use is about to be started, or runs, or has an     *)
(* interrupt that will free it; unless a stride transfer was waited for,   *)
(* for which no interrupt comes.                                           *)
GdmaComesBack ==
    \A c \in GdmaChannels \ gdmaStuck : gdmaChannel[c].inUse =>
        \/ c \in gdmaIrq
        \/ c \in gdmaRunning /\ gdmaChannel[c].iten
        \/ \E task \in GdmaTasks : gdmaAt[task].channel = c /\ gdmaAt[task].do # "idle"

(* Two calls never use one channel, and none uses a channel that another   *)
(* has started.                                                            *)
GdmaOwned ==
    \A task \in GdmaTasks : gdmaAt[task].do \in {"reset", "start"} =>
        LET c == gdmaAt[task].channel IN
        /\ gdmaChannel[c].inUse /\ gdmaChannel[c].task = task
        /\ c \notin gdmaRunning \cup gdmaIrq

(* Every byte comes from where it was and lands where it was to, on both   *)
(* sides of the end of a block.  Not so where the source ends exactly at   *)
(* the end of its block and the destination crosses one: the source is     *)
(* taken to cross, and nothing is done for the destination.                *)
GdmaLandsAll(conf) ==
    \/ GdmaMoves(conf) = {<<conf.src + i, conf.dst + i>> : i \in 0 .. conf.len - 1}
    \/ (conf.src + conf.len) % GdmaBlock = 0 /\ Crosses(conf.dst, conf.len)
GdmaLands == \A c \in gdmaRunning : GdmaLandsAll(gdmaChannel[c].conf)

\* mt_addr_check does not look at stride transfers.
GdmaStridesStay ==
    \A task \in GdmaTasks : \A ask \in GdmaAsks[task] :
        ask.stride => ~Crosses(ask.src, ask.len) \/ ~Crosses(ask.dst, ask.len)

(* What the controller promises, in all: GdmaDone, GdmaComesBack,          *)
(* GdmaOwned and GdmaLands.                                                *)
GdmaServes == GdmaDone /\ GdmaComesBack /\ GdmaOwned /\ GdmaLands
---------------------------------------------------------------------------
(* The invariant behind GdmaServes, in parts.                              *)

GdmaSteps == {"idle", "request", "reset", "start", "await"}
GdmaConfs == [src : Nat, dst : Nat, len : Nat, jump : {"none", "src", "dst"}]
GdmaEntries == [inUse : BOOLEAN, task : GdmaTasks \cup {GdmaNobody}, sync : BOOLEAN,
                iten : BOOLEAN, conf : GdmaConfs]
GdmaAts == [do : GdmaSteps, channel : GdmaChannels \cup {GdmaAny},
            ask : GdmaRequests \cup {GdmaAny}, left : Seq(GdmaConfs), refused : BOOLEAN]
GdmaTypeOK ==
    /\ gdmaChannel \in [GdmaChannels -> GdmaEntries] /\ gdmaAt \in [GdmaTasks -> GdmaAts]
    /\ gdmaRunning \subseteq GdmaChannels /\ gdmaIrq \subseteq GdmaChannels

\* A channel in use has a task; others have no transfer.
GdmaInUse(c) ==
    /\ gdmaChannel[c].inUse <=> gdmaChannel[c].task # GdmaNobody
    /\ c \in gdmaRunning \cup gdmaIrq => gdmaChannel[c].inUse

\* A call has a channel once it has got one, and a piece left to transfer.
GdmaPiecesOf(ask) == {GdmaPieces(ask), Tail(GdmaPieces(ask))} \ {<<>>}
GdmaCalls(task) ==
    LET at == gdmaAt[task] IN
    /\ at.do = "idle" => at = GdmaIdle
    /\ at.do # "idle" => at.ask \in GdmaAsks[task] /\ at.left \in GdmaPiecesOf(at.ask)
    /\ at.channel = GdmaAny <=> at.do \in {"idle", "request"}

\* Who has started, or will start, a transfer on the channel and waits for it.
GdmaWaits(task, c) == gdmaAt[task].channel = c /\ gdmaAt[task].do \in {"reset", "start", "await"}

\* A task that has given up no wait is notified only of the transfer that it waits for.
GdmaNotifies(task) ==
    /\ \A c \in GdmaChannels : gdmaChannel[c].task = task /\ gdmaChannel[c].sync =>
          GdmaWaits(task, c) /\ task \notin gdmaNotified
    /\ task \in gdmaNotified => gdmaAt[task].do = "await"
GdmaAwaits(task) ==
    LET c == gdmaAt[task].channel IN
    gdmaAt[task].do = "await" /\ gdmaChannel[c].task = task => gdmaChannel[c].sync

\* An interrupt or a start will come.
GdmaGoesOn(c) ==
    \/ c \in gdmaIrq
    \/ c \in gdmaRunning /\ gdmaChannel[c].iten
    \/ \E task \in GdmaTasks : gdmaAt[task].channel = c /\ gdmaAt[task].do \in {"reset", "start"}

GdmaInv ==
    /\ GdmaTypeOK /\ GdmaDone /\ GdmaOwned /\ GdmaLands
    /\ \A c \in GdmaChannels : GdmaInUse(c)
    /\ \A task \in GdmaTasks : GdmaCalls(task)
    /\ \A task \in GdmaTasks \ gdmaLate : GdmaNotifies(task)
    /\ \A task \in GdmaTasks : GdmaAwaits(task)
    /\ \A c \in GdmaChannels \ gdmaStuck : gdmaChannel[c].inUse => GdmaGoesOn(c)
=============================================================================
