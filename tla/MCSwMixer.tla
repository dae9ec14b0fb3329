----------------------------- MODULE MCSwMixer -----------------------------
(***************************************************************************)
(* Small instances of SwMixer.                                             *)
(***************************************************************************)
EXTENDS SwMixer, TLC

\* Both write what a mix takes and wait for it; the target stays.
Basic == [size |-> [s \in Sources |-> 1], sync |-> Sources, targetSize |-> 1,
          limit |-> 2, mute |-> FALSE, waitTimeout |-> FALSE,
          idleTimeout |-> FALSE, booted |-> TRUE,
          maxSource |-> [s \in Sources |-> 1],
          maxWrites |-> 2, maxAttach |-> 1, maxDetach |-> 0]

\* Source 1 writes two mixes at once.
Double == [Basic EXCEPT !.size = (1 :> 2) @@ (2 :> 1)]
\* Source 2 writes one mix and a half, so it is never synchronous; sources may
\* be mute; and late, with fewer writes.
Odd == [Basic EXCEPT !.size = (1 :> 2) @@ (2 :> 3), !.targetSize = 2,
                     !.sync = {1}, !.limit = 1, !.mute = TRUE]
OddLate == [Odd EXCEPT !.waitTimeout = TRUE, !.maxWrites = 1]
\* The target goes and comes again.
Detach == [Basic EXCEPT !.limit = 1, !.waitTimeout = TRUE, !.maxWrites = 1,
                        !.maxAttach = 2, !.maxDetach = 1]
SafetySetups == {Double, Odd, OddLate, Detach}

\* Writers wait for as long as it takes; or the target goes and comes again
\* while one source writes, before the thread has run or later.
LiveStay == [Basic EXCEPT !.maxWrites = 1]
LiveSetups == {LiveStay,
               [Basic EXCEPT !.maxSource = (1 :> 1) @@ (2 :> 0),
                             !.waitTimeout = TRUE, !.booted = FALSE,
                             !.maxAttach = 2, !.maxDetach = 2]}

\* The thread has not run when the target is attached.
BootSetups == {[Detach EXCEPT !.booted = FALSE]}
\* A source writes three times while another leaves.
OrderSetups == {[Double EXCEPT !.maxWrites = 3]}
=============================================================================
