--------------------------------- MODULE Outbox --------------------------------
(******************************************************************************)
(* What a session promises its senders, with no goroutine, lock or socket in  *)
(* sight: a bounded first-in first-out outbox.  Messages are written in the   *)
(* order they were accepted; never more than Bound are accepted and not yet   *)
(* written; once it is shut nothing more is accepted, and at most one more    *)
(* message (the one already on its way) is written.                           *)
(******************************************************************************)
EXTENDS Naturals, Sequences

CONSTANTS
    Message,   \* what can be sent
    Bound      \* accepted and not yet written messages at any time

VARIABLES
    accepted,  \* every message accepted so far, in order
    written,   \* every message written so far, in order
    open,      \* whether the outbox still accepts messages
    grace      \* writes still allowed after it was shut

outboxVars == <<accepted, written, open, grace>>

OutboxInit == accepted = <<>> /\ written = <<>> /\ open = TRUE /\ grace = 1

Accept(m) ==
    /\ open
    /\ Len(accepted) - Len(written) < Bound
    /\ accepted' = Append(accepted, m)
    /\ UNCHANGED <<written, open, grace>>

Write ==
    /\ Len(written) < Len(accepted)
    /\ written' = Append(written, accepted[Len(written) + 1])
    /\ \/ open /\ UNCHANGED grace
       \/ ~ open /\ grace > 0 /\ grace' = grace - 1
    /\ UNCHANGED <<accepted, open>>

Shut == open /\ open' = FALSE /\ UNCHANGED <<accepted, written, grace>>

OutboxNext == (\E m \in Message : Accept(m)) \/ Write \/ Shut

OutboxSpec == OutboxInit /\ [][OutboxNext]_outboxVars
================================================================================
