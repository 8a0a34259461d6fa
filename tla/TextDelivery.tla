---------------------------- MODULE TextDelivery ----------------------------
(***************************************************************************)
(* What the sender of a text message is promised: the audience of a message *)
(* is fixed once, a delivery is recorded by the peer for good, and the      *)
(* sender is shown `peer_receipt' only after the whole audience has it.     *)
(* TextOutbox, the outbox of the desktop app, is shown to implement this.   *)
(***************************************************************************)
EXTENDS Naturals

CONSTANTS Messages, Peers

VARIABLES
    queued,     \* messages the sender has written
    audience,   \* per message, the peers it is meant for; empty while unknown
    delivered,  \* per message, the peers that have stored it
    confirmed   \* messages the sender is told were delivered

dvars == <<queued, audience, delivered, confirmed>>

DInit ==
    /\ queued = {}
    /\ audience = [m \in Messages |-> {}]
    /\ delivered = [m \in Messages |-> {}]
    /\ confirmed = {}

Queue(m, ps) ==
    /\ m \notin queued
    /\ queued' = queued \cup {m}
    /\ audience' = [audience EXCEPT ![m] = ps]
    /\ UNCHANGED <<delivered, confirmed>>

\* Messages queued while nobody was reachable get their audience later, and
\* only then.
FixAudience(ms, ps) ==
    /\ ms \subseteq {m \in queued : audience[m] = {}}
    /\ audience' = [m \in Messages |-> IF m \in ms THEN ps ELSE audience[m]]
    /\ UNCHANGED <<queued, delivered, confirmed>>

Deliver(m, p) ==
    /\ m \in queued
    /\ delivered' = [delivered EXCEPT ![m] = @ \cup {p}]
    /\ UNCHANGED <<queued, audience, confirmed>>

Confirm(m) ==
    /\ audience[m] # {}
    /\ audience[m] \subseteq delivered[m]
    /\ confirmed' = confirmed \cup {m}
    /\ UNCHANGED <<queued, audience, delivered>>

DNext ==
    \/ \E m \in Messages, ps \in SUBSET Peers : Queue(m, ps)
    \/ \E ms \in SUBSET Messages, ps \in SUBSET Peers : FixAudience(ms, ps)
    \/ \E m \in Messages, p \in Peers : Deliver(m, p)
    \/ \E m \in Messages : Confirm(m)

DSpec == DInit /\ [][DNext]_dvars
=============================================================================
