------------------------------ MODULE Aurisys ------------------------------
(***************************************************************************)
(* The chain of audio libraries of drivers/audio/aurisys: what a call of   *)
(* aurisys_process_ul_only or aurisys_process_dl_only brings goes from     *)
(* pool to pool through every library of the manager, each of which works  *)
(* on frames or units of its own size, and as much has to come out of the  *)
(* chain as went in, at once.  Each library has a smoother for that, a     *)
(* ring that gets one unit of silence ahead of the first output.           *)
(*                                                                         *)
(* manager->lock is held through a call.  The data of all channels of one  *)
(* time is a number, the time; a pool holds it once for each channel.      *)
(* Formats and rates are left out: a formatter only changes channels here. *)
(***************************************************************************)
EXTENDS Integers, Sequences

CONSTANTS
    AuSetups,   \* chains: [way, libs, sizes], as in AuAssumption
    AuTimes     \* bound: times that go into the chain

\* A library has channels in and out, a unit in bytes in (its frame if it is based
\* on frames), and may need a reference (echo or IV).  Every call brings whole units
\* or none does: a first one that does sets pad_flag without any silence, and the
\* smoother of a later one that does not is short.  What is not a frame must have
\* enough bytes for a unit out.  An echo reference goes to the first library, and to
\* one based on frames; a call then brings a frame or more.
AuLibTypes == [in: Nat \ {0}, out: Nat \ {0}, unit: Nat \ {0}, frame: BOOLEAN, ref: BOOLEAN]
AuAssumption ==
    \A s \in AuSetups :
        /\ s.way \in {"ul", "dl"} /\ s.sizes \subseteq Nat \ {0}
        /\ s.libs \in Seq(AuLibTypes) /\ s.libs # <<>>
        /\ \A i \in DOMAIN s.libs : LET lib == s.libs[i] IN
              /\ lib.unit % lib.in = 0
              /\ \/ \A n \in s.sizes : (n * lib.in) % lib.unit = 0
                 \/ \A n \in s.sizes : (n * lib.in) % lib.unit # 0
              /\ lib.frame \/ (lib.out <= lib.in /\ lib.unit % lib.out = 0)
              /\ lib.ref => /\ i = 1
                            /\ s.way = "ul" => lib.frame /\ \A n \in s.sizes : n * lib.in >= lib.unit
ASSUME AuAssumption

VARIABLES
    auSetup,   \* the chain
    auLibs,    \* [library -> its rings]: pool (..._pool_in), smooth, ref, and
               \* left (..._left_raw_in_size), padded (pad_flag)
    auTurn,    \* the library whose turn it is in the call; 0: no call
    auSource,  \* what the source pool of the next formatter holds
    auRef,     \* what the pool of references holds
    auGone,    \* times that have gone into the chain
    auOut,     \* all that has come out of it
    auFailed   \* a ring had less than it was asked for, or a reference was not that
               \* of its frame

auVars == <<auSetup, auLibs, auTurn, auSource, auRef, auGone, auOut, auFailed>>
---------------------------------------------------------------------------
(* Pools and formatters *)

\* aud_fmt_conv_process
Converted(data, from, to) ==
    [k \in 1..((Len(data) \div from) * to) |-> data[((k - 1) \div to) * from + 1]]
Silence(n) == [k \in 1..n |-> 0]

\* audio_pool_buf_formatter_process: all that the source holds.
Formatted(i) ==
    LET from == IF i = 1 THEN 1 ELSE auSetup.libs[i - 1].out
    IN  auLibs[i].pool \o Converted(auSource, from, auSetup.libs[i].in)

---------------------------------------------------------------------------
(* One library: aurisys_arsi_process_ul_only, aurisys_arsi_process_dl_only *)

OutSize(lib, n) == (n * lib.out) \div lib.in

\* How many units it processes of a pool: with an echo reference only as many as
\* that lasts for.
Units(lib, pool, ref) ==
    LET have == Len(pool) \div lib.unit  echo == Len(ref) \div lib.unit
    IN  IF auSetup.way = "ul" /\ lib.ref /\ echo < have THEN echo ELSE have

\* Mutant: only as much silence as is missing now.
SilenceMissing(lib, padded, processed, expect) ==
    IF ~padded /\ processed < expect THEN Silence(expect - processed) ELSE <<>>

\* Silence ahead of what is in the smoother, when the first call is short of data.
FirstSilence(lib, padded, processed, expect) ==
    IF ~padded /\ processed < expect
    THEN Silence(IF lib.frame THEN OutSize(lib, lib.unit) ELSE lib.unit) ELSE <<>>

AuProcess ==
    LET i == auTurn  lib == auSetup.libs[i]  old == auLibs[i]
        pool == Formatted(i)
        ref == IF lib.ref THEN old.ref \o Converted(auRef, 1, lib.in) ELSE <<>>
        taken == Units(lib, pool, ref) * lib.unit
        expect == OutSize(lib, Len(pool) - old.left)
        processed == Converted(SubSeq(pool, 1, taken), lib.in, lib.out)
        smooth == FirstSilence(lib, old.padded, Len(processed), expect) \o old.smooth \o processed
        short == \/ Len(smooth) < expect
                 \/ lib.ref /\ (Len(ref) < taken \/ SubSeq(pool, 1, taken) # SubSeq(ref, 1, taken))
    IN  /\ i \in DOMAIN auSetup.libs /\ ~auFailed
        /\ auFailed' = short
        /\ auLibs' = [auLibs EXCEPT ![i] =
              [pool |-> SubSeq(pool, taken + 1, Len(pool)),
               left |-> Len(pool) - taken,
               smooth |-> IF short THEN smooth ELSE SubSeq(smooth, expect + 1, Len(smooth)),
               ref |-> IF short THEN ref ELSE SubSeq(ref, taken + 1, Len(ref)),
               padded |-> TRUE]]
        /\ auSource' = IF short THEN <<>> ELSE SubSeq(smooth, 1, expect)
        /\ auRef' = IF lib.ref THEN <<>> ELSE auRef
        /\ auTurn' = i + 1
        /\ UNCHANGED <<auSetup, auGone, auOut>>
---------------------------------------------------------------------------
(* aurisys_process_ul_only, aurisys_process_dl_only *)

\* The caller has filled the first pool, and that of the references alike.
AuCall(n) ==
    /\ auTurn = 0 /\ auGone + n <= AuTimes
    /\ n \in auSetup.sizes
    /\ auGone' = auGone + n
    /\ auSource' = [k \in 1..n |-> auGone + k]
    /\ auRef' = IF auSetup.libs[1].ref THEN auSource' ELSE <<>>
    /\ auTurn' = 1
    /\ UNCHANGED <<auSetup, auLibs, auOut, auFailed>>

\* The formatter out of the chain; the caller takes all it finds there.
AuOut ==
    /\ auTurn = Len(auSetup.libs) + 1
    /\ auOut' = auOut \o Converted(auSource, auSetup.libs[auTurn - 1].out, 1)
    /\ auSource' = <<>>
    /\ auTurn' = 0
    /\ UNCHANGED <<auSetup, auLibs, auRef, auGone, auFailed>>
---------------------------------------------------------------------------
\* aurisys_create_lib_handler_list_xlink and aurisys_pool_buf_formatter_init: empty
\* pools, in a chain.
AuInit ==
    /\ auSetup \in AuSetups
    /\ auLibs = [i \in DOMAIN auSetup.libs |->
                    [pool |-> <<>>, left |-> 0, smooth |-> <<>>, ref |-> <<>>, padded |-> FALSE]]
    /\ auTurn = 0 /\ auSource = <<>> /\ auRef = <<>>
    /\ auGone = 0 /\ auOut = <<>> /\ auFailed = FALSE

AuNext == (\E n \in 1..AuTimes : AuCall(n)) \/ AuProcess \/ AuOut
AuSpec == AuInit /\ [][AuNext]_auVars
---------------------------------------------------------------------------
(* Correctness *)

\* Every call gets as much out of the chain as it has put in, and what comes out in
\* the course of time is some silence once and then all that went in, in order and
\* without a gap - for calls and units whose sizes do not divide, as far as
\* AuAssumption admits them, and with every frame of an uplink meeting its own echo
\* reference.
AuSteady ==
    /\ ~auFailed
    /\ auTurn = 0 => Len(auOut) = auGone
    /\ \E silent \in 0..Len(auOut) :
          \A k \in DOMAIN auOut : auOut[k] = IF k <= silent THEN 0 ELSE k - silent
=============================================================================
