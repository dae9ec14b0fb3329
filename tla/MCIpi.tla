------------------------------- MODULE MCIpi -------------------------------
(***************************************************************************)
(* Small instances of Ipi: who makes which calls on which pins.            *)
(***************************************************************************)
EXTENDS Ipi, TLC

CONSTANTS a, b, c   \* tasks
CONSTANTS x, y, z   \* IPI ids

\* a and b send on x and wait for the answer, or send on z; b answers what comes
\* on y.  z has no receive pin to unregister.
UsesSend == (a :> {<<"compl", x>>, <<"send", z>>, <<"unreg", z>>}) @@
            (b :> {<<"compl", x>>, <<"send", z>>, <<"reply", y>>})

\* a listens on x; b and c register and unregister z.
UsesReceive == (a :> {<<"recv", x>>}) @@
               (b :> {<<"reg", z>>, <<"unreg", z>>}) @@
               (c :> {<<"reg", z>>, <<"unreg", z>>})
=============================================================================
