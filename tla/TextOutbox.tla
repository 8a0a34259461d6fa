----------------------------- MODULE TextOutbox -----------------------------
(***************************************************************************)
(* How the desktop app gets a text message to its peers and learns that it  *)
(* arrived: the persisted text/control outbox of                            *)
(* apps/desktop/src-tauri/src/lib.rs, the pump that fans a frame out over    *)
(* one direct route per peer, the peers that store the envelope and answer   *)
(* with a signed receipt, and the receipts that settle the outbox.          *)
(*                                                                         *)
(* One conversation, one local sender.  A frame is the message it carries;  *)
(* signatures and ciphertexts verify, so of an envelope only the MLS epoch   *)
(* it was sealed in is left.  A peer is named by its runtime route id, and   *)
(* a receiver loop of its own drains each route (inbound_receiver_owned).   *)
(* Frames in flight may be reordered, and are lost when the route's          *)
(* connection breaks or a process dies.                                     *)
(***************************************************************************)
EXTENDS Naturals, FiniteSets

CONSTANTS
    Messages,
    Peers,
    Kind,        \* "channel": a group channel, "dm": a direct message
    PumpLimit,   \* frames one pump sends over a route (request.limit, clamped)
    MaxEpoch,    \* bound on MLS epochs
    MaxRemoved,  \* bound on members removed from the group
    MaxFaults    \* bound on expired leases, broken links, failed sends and crashes

\* A direct message has one remote peer.
ASSUME KindAssumption   == Kind \in {"channel", "dm"} /\ (Kind = "dm" => \E p \in Peers : Peers = {p})
ASSUME BoundsAssumption == {MaxEpoch, MaxRemoved, MaxFaults} \subseteq Nat
ASSUME LimitAssumption  == PumpLimit \in Nat \ {0}

VARIABLES
    outbox,     \* text_control_outbox, by message id
    mstate,     \* MessageView.state_key, by message id
    sealed,     \* epoch of a message's envelope (text_delivery_envelopes)
    epoch,      \* the sender's MLS epoch
    routes,     \* peers with a current runtime route (unexpired presence lease)
    removed,    \* members revoked from the group
    runtimes,   \* peers with an attached direct runtime
    toPeer,     \* envelopes in flight, per peer
    toSender,   \* receipts in flight, per peer
    stored,     \* per peer, messages it has stored with their receipt
    peerEpoch,  \* per peer, its MLS epoch
    faults      \* auxiliary: number of faults so far

sender == <<outbox, mstate, sealed, epoch>>
network == <<routes, removed, runtimes, toPeer, toSender, faults>>
peers == <<stored, peerEpoch>>
vars == <<sender, network, peers>>

NoRecord == [state |-> "absent", route |-> {}, expected |-> {}, sent |-> {}, receipted |-> {}]

Record ==
    [state: {"absent", "pending", "sent", "receipted", "closed_route"}, route: SUBSET Peers,
     expected: SUBSET Peers, sent: SUBSET Peers, receipted: SUBSET Peers]

Queued == {m \in Messages : outbox[m].state # "absent"}

-----------------------------------------------------------------------------
(* Operations on one outbox record                                          *)

\* enqueue_text_control_frame, for a new message id: send_message makes a new one
\* for every message, so the branch for a known id is not taken from there.
enqueue(route) ==
    [state |-> "pending", route |-> route, expected |-> route, sent |-> {}, receipted |-> {}]

all_receipted(r) == r.expected \subseteq r.receipted

\* Keep the routes that are current; a handoff counts only on a live route.
prune(r, expected, current) ==
    LET route == current \cap expected
    IN  [r EXCEPT !.expected = expected, !.route = route,
                  !.sent = @ \cap route, !.receipted = @ \cap expected]

\* Mutant: the expected set follows the routes.
refresh_follows(r, current) ==
    LET q == prune(r, current, current)
    IN  [q EXCEPT !.state = IF q.expected # {} /\ all_receipted(q) THEN "receipted" ELSE "pending"]

\* refresh_text_control_outbox_routes_for_group / _for_dm.  The expected routes
\* are filled in here if there were none when the message was queued.
refresh(r, current) ==
    LET q == prune(r, IF r.expected = {} THEN current ELSE r.expected, current)
    IN  IF Kind = "channel"
        THEN [q EXCEPT !.state =
                 IF q.expected # {} /\ all_receipted(q) THEN "receipted" ELSE "pending"]
        ELSE IF r.state = "pending" THEN q ELSE r

\* cleanup_text_control_outbox_routes_for_target.
cleanup(r, current) ==
    IF r.route = {} THEN r
    ELSE LET route == r.route \cap current
             q == [r EXCEPT !.route = route, !.sent = @ \cap route, !.receipted = @ \cap r.expected]
         IN  [q EXCEPT !.state = IF route = {} THEN "closed_route"
                                 ELSE IF all_receipted(q) THEN "receipted"
                                 ELSE "pending"]

\* Mutant: without the check that the route is one of the record's.
mark_sent_unrouted(r, ps) ==
    LET q == [r EXCEPT !.sent = @ \cup ps]
    IN  [q EXCEPT !.state = IF q.route \subseteq q.sent THEN "sent" ELSE @]

\* mark_text_control_frame_sent over the routes to ps; a frame without any route
\* is sent once and for all.
mark_sent(r, ps) ==
    LET q == [r EXCEPT !.sent = @ \cup (ps \cap r.route)]
    IN  [q EXCEPT !.state = IF q.route \subseteq q.sent /\ (q.route = {} \/ ~ (q.route \subseteq q.receipted))
                            THEN "sent" ELSE @]

\* Mutant: settled when the routes that are live now have sent receipts.
record_receipt_live(r, p) ==
    LET q == [r EXCEPT !.receipted = @ \cup {p}]
    IN  [q EXCEPT !.state = IF q.route \subseteq q.receipted THEN "receipted" ELSE "pending"]

\* The outbox part of apply_text_delivery_receipt_for_route.
record_receipt(r, p) ==
    LET q == [r EXCEPT !.receipted = @ \cup {p}]
    IN  [q EXCEPT !.state = IF all_receipted(q) THEN "receipted" ELSE "pending"]

\* Frames the pump may send over the route to p, and frames that have no route:
\* a direct message then goes out over whatever direct runtime there is.
eligible(p) ==
    {m \in Queued : /\ outbox[m].state # "receipted"
                    /\ p \in outbox[m].route
                    /\ p \notin outbox[m].receipted}

unscoped == {m \in Queued : Kind = "dm" /\ outbox[m].route = {} /\ outbox[m].state = "pending"}

\* Within its limit the pump sends what was never sent over this route and then
\* at most two retries whose delay has passed.  Which ones of too many, the code
\* decides by kind of frame and position in the outbox; here it is any.
RetryLimit == 2

Least(i, j) == IF i <= j THEN i ELSE j

batches(p) ==
    LET unsent == {m \in eligible(p) : p \notin outbox[m].sent} \cup unscoped
    IN  {b \in SUBSET (eligible(p) \cup unsent) :
            LET first == Cardinality(b \cap unsent)
            IN  /\ first = Least(PumpLimit, Cardinality(unsent))
                /\ Cardinality(b \ unsent) <= Least(RetryLimit, PumpLimit - first)}

\* What one pump may try to send, per peer.
Fanouts ==
    {f \in [Peers -> SUBSET Messages] :
        \A p \in Peers : IF p \in runtimes THEN f[p] \in batches(p) ELSE f[p] = {}}

Nothing == [p \in Peers |-> {}]

-----------------------------------------------------------------------------
Init ==
    /\ outbox = [m \in Messages |-> NoRecord]
    /\ mstate = [m \in Messages |-> "none"]
    /\ sealed = [m \in Messages |-> 0]
    /\ epoch = 0
    /\ routes = {} /\ removed = {} /\ runtimes = {}
    /\ toPeer = [p \in Peers |-> {}]
    /\ toSender = [p \in Peers |-> {}]
    /\ stored = [p \in Peers |-> {}]
    /\ peerEpoch = [p \in Peers |-> 0]
    /\ faults = 0

Fault == faults < MaxFaults /\ faults' = faults + 1

\* send_message: seal the envelope in the current epoch and show the message.
\* "sent_local" stands also for the two states of a message sent with a transport
\* proof, which differ in what the user reads only.
Write(m) ==
    /\ mstate[m] = "none" /\ m \notin Queued
    /\ mstate' = [mstate EXCEPT ![m] = "sent_local"]
    /\ sealed' = [sealed EXCEPT ![m] = epoch]
    /\ UNCHANGED <<epoch, network, peers>>

\* The message is queued for the peers that are reachable now.
SendMessage(m) ==
    /\ Write(m)
    /\ outbox' = [outbox EXCEPT ![m] = enqueue(routes)]

\* Queueing fails, for instance when the local member is not admitted: the
\* message and its envelope are kept all the same, and nothing will send them.
SendUnqueued(m) == Write(m) /\ UNCHANGED outbox

\* A signed presence heartbeat of p: its route is current again and the outbox
\* is refreshed.
Presence(p) ==
    /\ p \notin removed
    /\ routes' = routes \cup {p}
    /\ outbox' = [m \in Messages |->
                    IF m \in Queued THEN refresh(outbox[m], routes') ELSE outbox[m]]
    /\ UNCHANGED <<mstate, sealed, epoch, removed, runtimes, toPeer, toSender, faults, peers>>

\* p's presence lease runs out.  Nothing in the outbox changes yet.
LeaseExpires(p) ==
    /\ p \in routes
    /\ routes' = routes \ {p}
    /\ Fault
    /\ UNCHANGED <<sender, removed, runtimes, toPeer, toSender, peers>>

\* A direct WebRTC runtime to an advertised peer is attached.
Attach(p) ==
    /\ p \in routes \ runtimes
    /\ runtimes' = runtimes \cup {p}
    /\ UNCHANGED <<sender, routes, removed, toPeer, toSender, faults, peers>>

\* The connection to p breaks; what was in flight on it is lost.
LinkBreaks(p) ==
    /\ p \in runtimes
    /\ runtimes' = runtimes \ {p}
    /\ toPeer' = [toPeer EXCEPT ![p] = {}]
    /\ toSender' = [toSender EXCEPT ![p] = {}]
    /\ Fault
    /\ UNCHANGED <<sender, routes, removed, peers>>

\* cleanup_text_control_routes_for_target, when a channel is pumped by name:
\* stale routes leave the outbox and their runtimes are dropped.
CleanUp ==
    /\ Kind = "channel"
    /\ outbox' = [m \in Messages |->
                    IF m \in Queued THEN cleanup(outbox[m], routes) ELSE outbox[m]]
    /\ runtimes' = runtimes \cap routes
    /\ <<outbox, runtimes>>' # <<outbox, runtimes>>
    /\ UNCHANGED <<mstate, sealed, epoch, routes, removed, toPeer, toSender, faults, peers>>

\* Mutant: the message gets the outbox record's word.
handed_over_as_record(m) == "sent"

handed_over(m) == IF mstate[m] = "peer_receipt" THEN "peer_receipt" ELSE "transport_frame_sent"

\* pump_text_control_transport_once: of what it tries to send, ok is handed to
\* the transport; a failed send takes the runtime with it.
Pump(fanout, ok) ==
    LET to(m) == {p \in Peers : m \in ok[p]}
        failed == {p \in Peers : ok[p] # fanout[p]}
    IN  /\ fanout # Nothing
        /\ \A p \in Peers : ok[p] \subseteq fanout[p]
        /\ outbox' = [m \in Messages |-> IF to(m) # {} THEN mark_sent(outbox[m], to(m)) ELSE outbox[m]]
        /\ mstate' = [m \in Messages |-> IF to(m) # {} THEN handed_over(m) ELSE mstate[m]]
        /\ toPeer' = [p \in Peers |-> toPeer[p] \cup ok[p]]
        /\ runtimes' = runtimes \ failed
        /\ IF failed # {} THEN Fault ELSE UNCHANGED faults
        /\ UNCHANGED <<sealed, epoch, routes, removed, toSender, peers>>

\* The app dies: in the pump, after the transport took the frames in ok and
\* before the state is persisted, or (ok empty) at any other time.
Crash(fanout, ok) ==
    /\ runtimes # {}
    /\ \A p \in Peers : ok[p] \subseteq fanout[p]
    /\ toPeer' = [p \in Peers |-> toPeer[p] \cup ok[p]]
    /\ toSender' = Nothing
    /\ runtimes' = {}
    /\ Fault
    /\ UNCHANGED <<sender, routes, removed, peers>>

\* Mutant: a duplicate is dropped without a receipt.
answers_once(p, m) == m \notin stored[p] /\ sealed[m] = peerEpoch[p]

\* receive_text_delivery_envelope succeeds: a stored envelope is answered with
\* its stored receipt, a new one is accepted in its own epoch only.  The group
\* exporter, and with it the epoch check, exists for channels only.
answers(p, m) == m \in stored[p] \/ Kind = "dm" \/ sealed[m] = peerEpoch[p]

\* Mutant: the receipt leaves before the envelope is stored, and is never stored.
HandleEnvelope_unstored(p, m) ==
    /\ m \in toPeer[p]
    /\ toPeer' = [toPeer EXCEPT ![p] = @ \ {m}]
    /\ toSender' = [toSender EXCEPT ![p] = IF p \in runtimes THEN @ \cup {m} ELSE @]
    /\ UNCHANGED <<sender, routes, removed, runtimes, faults, peers>>

\* A peer handles an envelope frame: store envelope, message and receipt,
\* persist, answer with the receipt.  An error gives no answer.
HandleEnvelope(p, m) ==
    /\ m \in toPeer[p]
    /\ toPeer' = [toPeer EXCEPT ![p] = @ \ {m}]
    /\ IF answers(p, m)
       THEN /\ stored' = [stored EXCEPT ![p] = @ \cup {m}]
            /\ toSender' = [toSender EXCEPT ![p] = IF p \in runtimes THEN @ \cup {m} ELSE @]
       ELSE UNCHANGED <<stored, toSender>>
    /\ UNCHANGED <<sender, routes, removed, runtimes, faults, peerEpoch>>

\* apply_text_delivery_receipt_for_route accepts the receipt: from a member,
\* over an expected route on which the frame was handed to the transport.
receipt_accepted(m, p) ==
    /\ p \notin removed
    /\ p \in outbox[m].expected
    /\ p \in outbox[m].sent

\* Mutant: one receipt settles the message.
receipted_state_first(r) == "peer_receipt"

receipted_state(r) ==
    IF r.expected # {} /\ all_receipted(r) THEN "peer_receipt" ELSE "transport_frame_sent"

\* The sender handles a receipt frame that arrived over the route of p.
HandleReceipt(p, m) ==
    /\ m \in toSender[p]
    /\ toSender' = [toSender EXCEPT ![p] = @ \ {m}]
    /\ IF receipt_accepted(m, p)
       THEN LET r == record_receipt(outbox[m], p)
            IN  /\ outbox' = [outbox EXCEPT ![m] = r]
                /\ mstate' = [mstate EXCEPT ![m] = receipted_state(r)]
       ELSE UNCHANGED <<outbox, mstate>>
    /\ UNCHANGED <<sealed, epoch, routes, removed, runtimes, toPeer, faults, peers>>

\* A member is revoked, and with its lease its route goes.
Revoke(p) ==
    /\ Kind = "channel"
    /\ p \notin removed
    /\ Cardinality(removed) < MaxRemoved
    /\ removed' = removed \cup {p}
    /\ routes' = routes \ {p}
    /\ UNCHANGED <<mstate, sealed, runtimes, toPeer, toSender, faults, peers>>

NextEpoch == epoch < MaxEpoch /\ epoch' = epoch + 1

\* A GroupMemberRevoked frame of another member, with the commit that removes p:
\* the commit is applied and the outbox is cleaned up.
RemoveMember(p) ==
    /\ Revoke(p)
    /\ NextEpoch
    /\ outbox' = [m \in Messages |->
                    IF m \in Queued THEN cleanup(outbox[m], routes') ELSE outbox[m]]

\* revoke_group_member_access: the local user revokes p.  The member is revoked
\* also when OpenMLS cannot remove it; the outbox keeps its routes for now.
RevokeMember(p) ==
    /\ Revoke(p)
    /\ NextEpoch \/ UNCHANGED epoch
    /\ UNCHANGED outbox

\* MLS commits take the sender and the peers, one by one, to the next epoch.
SenderEpoch == NextEpoch /\ UNCHANGED <<outbox, mstate, sealed, network, peers>>

PeerEpoch(p) ==
    /\ peerEpoch[p] < MaxEpoch
    /\ peerEpoch' = [peerEpoch EXCEPT ![p] = @ + 1]
    /\ UNCHANGED <<sender, network, stored>>

Next ==
    \/ \E m \in Messages : SendMessage(m)
    \/ \E m \in Messages : SendUnqueued(m)
    \/ \E p \in Peers : Presence(p)
    \/ \E p \in Peers : LeaseExpires(p)
    \/ \E p \in Peers : Attach(p)
    \/ \E p \in Peers : LinkBreaks(p)
    \/ CleanUp
    \/ \E fanout \in Fanouts : \E ok \in [Peers -> SUBSET Messages] : Pump(fanout, ok)
    \/ \E fanout \in Fanouts : \E ok \in [Peers -> SUBSET Messages] : Crash(fanout, ok)
    \/ \E p \in Peers : \E m \in toPeer[p] : HandleEnvelope(p, m)
    \/ \E p \in Peers : \E m \in toSender[p] : HandleReceipt(p, m)
    \/ \E p \in Peers : RemoveMember(p)
    \/ \E p \in Peers : RevokeMember(p)
    \/ SenderEpoch
    \/ \E p \in Peers : PeerEpoch(p)

Spec == Init /\ [][Next]_vars

\* Heartbeats are sent periodically, the attach jobs and the pump run in loops
\* (a retry waits for a bounded delay), and a receiver loop drains each route.
Fairness ==
    \A p \in Peers :
        /\ WF_vars(Presence(p))
        /\ WF_vars(Attach(p))
        /\ \A m \in Messages :
              /\ WF_vars(\E fanout \in Fanouts : m \in fanout[p] /\ Pump(fanout, fanout))
              /\ WF_vars(HandleEnvelope(p, m))
              /\ WF_vars(HandleReceipt(p, m))

FairSpec == Spec /\ Fairness

-----------------------------------------------------------------------------
(* Properties                                                               *)

\* Records, message states, flights and stored sets keep their types.
TypeOK ==
    /\ outbox \in [Messages -> Record]
    /\ mstate \in [Messages -> {"none", "sent_local", "transport_frame_sent", "peer_receipt"}]
    /\ sealed \in [Messages -> Nat] /\ epoch \in Nat
    /\ routes \subseteq Peers /\ removed \subseteq Peers /\ runtimes \subseteq Peers
    /\ toPeer \in [Peers -> SUBSET Messages]
    /\ toSender \in [Peers -> SUBSET Messages]
    /\ stored \in [Peers -> SUBSET Messages]
    /\ peerEpoch \in [Peers -> Nat]
    /\ faults \in Nat

\* What the outbox and the timeline say about a delivery is true: a peer counted
\* as having sent a receipt has stored the message, and a message shown with
\* `peer_receipt' is stored by every expected peer, through lost, repeated and
\* late receipts, expired leases, removed members and crashes in the pump.
ReceiptsAreTrue ==
    \A m \in Messages :
        /\ \A p \in outbox[m].receipted : m \in stored[p]
        /\ mstate[m] = "peer_receipt" =>
             outbox[m].expected # {} /\ \A p \in outbox[m].expected : m \in stored[p]

\* The sets of a record stay nested: a handoff is recorded only on a live route,
\* a route is live only if it was expected, and a record leaves the pump as
\* `receipted' only when every expected peer has sent its receipt, also those
\* whose lease has expired meanwhile.
RecordsConsistent ==
    \A m \in Queued :
        LET r == outbox[m]
        IN  /\ r.sent \subseteq r.route /\ r.route \subseteq r.expected
            /\ r.receipted \subseteq r.expected
            /\ r.state = "receipted" => r.expected # {} /\ r.expected \subseteq r.receipted
            /\ r.state = "closed_route" => r.route = {}

\* A peer the message was queued for is no member any more, or has not stored it
\* and is in another epoch than the one the message was sealed in.
Unreachable(m) ==
    \E p \in outbox[m].expected : p \in removed \/ (m \notin stored[p] /\ sealed[m] # peerEpoch[p])

\* Once faults stop, every message is eventually shown as received by all the
\* peers it was queued for, unless one of them can never accept it: no lost
\* frame, lost receipt, dropped runtime or crash in the pump leaves a message
\* waiting for ever.
EventuallyReceipted ==
    \A m \in Messages :
        [](m \in Queued => <>(mstate[m] = "peer_receipt" \/ []Unreachable(m)))

\* The sender's view implements TextDelivery.
Promise == INSTANCE TextDelivery WITH
    queued    <- Queued,
    audience  <- [m \in Messages |-> outbox[m].expected],
    delivered <- [m \in Messages |-> {p \in Peers : m \in stored[p]}],
    confirmed <- {m \in Messages : mstate[m] = "peer_receipt"}

\* Audiences are fixed once, deliveries are for good, and the sender is told of
\* a delivery only after the whole audience has the message, and never untold.
DeliveryPromise == Promise!DSpec
=============================================================================
