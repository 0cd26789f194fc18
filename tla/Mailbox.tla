------------------------------ MODULE Mailbox ------------------------------
(***************************************************************************)
(* What a hand-off queue between producer threads and one consumer thread  *)
(* promises: messages are taken in the order in which they were posted,    *)
(* each once, and none is taken once the mailbox is closed.  Posting stays *)
(* possible after the close.  A closed mailbox may keep a backlog for ever. *)
(***************************************************************************)
EXTENDS Naturals, Sequences

CONSTANT Message

VARIABLES
    posted,     \* every message posted so far, oldest first
    taken,      \* how many of them the consumer has taken
    closed      \* the consumer has been told to stop

vars == <<posted, taken, closed>>

Init ==
    /\ posted = <<>>
    /\ taken = 0
    /\ closed = FALSE

Post(m) ==
    /\ posted' = Append(posted, m)
    /\ UNCHANGED <<taken, closed>>

Take ==
    /\ ~closed
    /\ taken < Len(posted)
    /\ taken' = taken + 1
    /\ UNCHANGED <<posted, closed>>

Close ==
    /\ closed' = TRUE
    /\ UNCHANGED <<posted, taken>>

Next ==
    \/ \E m \in Message : Post(m)
    \/ Take
    \/ Close

Safety == Init /\ [][Next]_vars

\* An open mailbox with a backlog is eventually served.
Spec == Safety /\ WF_vars(Take)
=============================================================================
