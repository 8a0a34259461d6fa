-------------------------- MODULE TransportSession --------------------------
(***************************************************************************)
(* One transport session under every sequence of calls its public methods  *)
(* allow.  A supervised caller reconnects with schedule_reconnect and a    *)
(* budget; begin_reconnecting starts an attempt without one, so the budget *)
(* promise is stated for callers that do not use it (budgeted).            *)
(***************************************************************************)
EXTENDS TransportSessionOps

CONSTANT MaxAttempts    \* max_attempts of the ReconnectBackoffPolicy, a u32

ASSUME MaxAttemptsAssumption == MaxAttempts \in 1..U32Max

VARIABLES session,
          budgeted        \* whether the caller reconnects by schedule_reconnect only

vars == <<session, budgeted>>

Init == session = new /\ budgeted \in BOOLEAN

Negotiate ==
    \/ session' = begin_signaling(session)
    \/ session' = begin_ice_gathering(session)
    \/ session' = begin_checking(session)

Select == \E route \in TransportRoute : session' = select_route(session, route)

Reconnect ==
    \/ session' = mark_disconnected(session)
    \/ session' = schedule_reconnect(session, MaxAttempts)
    \/ ~budgeted /\ session' = begin_reconnecting(session)

Stop ==
    \/ session' = fail_direct_path_turn_required(session)
    \/ session' = fail(session)
    \/ session' = cancel(session)
    \/ session' = tear_down(session)

Reset == session' = reset(session)

Next == /\ Negotiate \/ Select \/ Reconnect \/ Stop \/ Reset
        /\ UNCHANGED budgeted

Spec == Init /\ [][Next]_vars
-----------------------------------------------------------------------------
\* The session record is a Session.
TypeOK == session \in Session /\ budgeted \in BOOLEAN

\* A connected session holds the route of its state, and no other session holds
\* a route but one that failed because TURN is missing: the snapshot's
\* connected() never claims a route that a disconnect, a new negotiation or a
\* teardown should have released.
RouteFollowsState ==
    /\ is_connected(session.state) => session.route = session.state
    /\ session.route # NoRoute => is_connected(session.state) \/ session.state = "Failed"

\* "Mark the session failed until it is reset": whatever is called on a failed
\* session, the next state it shows is Idle with the whole budget back.
FailedUntilReset ==
    [][session.state = "Failed" => session' = new]_vars

\* A caller that only schedules reconnects starts as many of them between two
\* resets as the policy allows, however often the route came back: never one
\* more, and schedule_reconnect gives none up while the budget lasts.
ReconnectBudget ==
    /\ budgeted => session.reconnect_attempts <= MaxAttempts
    /\ session.state = "Disconnected" /\ session.reconnect_attempts < MaxAttempts
         => schedule_reconnect(session, MaxAttempts).state = "Reconnecting"

\* The attempt counter counts exactly the reconnects since the last reset, up
\* to u32::MAX, where it stays.
AttemptsCounted ==
    [][\/ session' = new
       \/ session'.reconnect_attempts =
            IF /\ session.state = "Disconnected"
               /\ session'.state = "Reconnecting"
               /\ session.reconnect_attempts < U32Max
            THEN session.reconnect_attempts + 1
            ELSE session.reconnect_attempts]_vars
=============================================================================
