---------------------------- MODULE SessionLife ----------------------------
(***************************************************************************)
(* What a session promises: it begins once, for somebody, belongs to him   *)
(* for as long as it lasts, and when it has ended it is over for good.     *)
(* Nothing is said about how refresh tokens are stored, rotated or lost.   *)
(***************************************************************************)
CONSTANTS Chains, Subjects,
          Nobody,  \* the session has not begun
          Over     \* it has ended; neither is a subject, and they differ

VARIABLE owner  \* whose session it is, Nobody or Over

Init == owner = [c \in Chains |-> Nobody]

Begin(c, s) == owner[c] = Nobody /\ owner' = [owner EXCEPT ![c] = s]

\* Several sessions may time out in the same instant.
End(C) ==
  /\ \A c \in C : owner[c] # Nobody
  /\ owner' = [c \in Chains |-> IF c \in C THEN Over ELSE owner[c]]

Next == \/ \E c \in Chains, s \in Subjects : Begin(c, s)
        \/ \E C \in SUBSET Chains : End(C)

Spec == Init /\ [][Next]_owner
=============================================================================
