------------------------------ MODULE Mailbox ------------------------------
(***************************************************************************)
(* What the send pins promise: each id is a one-place mailbox.  A message  *)
(* enters an empty place once, stays there unchanged, and is taken once by *)
(* the other processor.                                                    *)
(***************************************************************************)
CONSTANTS
  Ids,      \* one place per id
  Messages, \* what can be posted
  None      \* an empty place, not a message

VARIABLES
  box,      \* the place of each id
  posted,   \* every message that ever entered a place
  taken     \* every message the other processor has

Init ==
  /\ box = [i \in Ids |-> None]
  /\ posted = {}
  /\ taken = {}

Put(i, m) ==
  /\ box[i] = None
  /\ m \notin posted
  /\ box' = [box EXCEPT ![i] = m]
  /\ posted' = posted \union {m}
  /\ taken' = taken

Take(i) ==
  /\ box[i] # None
  /\ box' = [box EXCEPT ![i] = None]
  /\ taken' = taken \union {box[i]}
  /\ posted' = posted

Next == \E i \in Ids : Take(i) \/ \E m \in Messages : Put(i, m)

Spec == Init /\ [][Next]_<<box, posted, taken>>
=============================================================================
