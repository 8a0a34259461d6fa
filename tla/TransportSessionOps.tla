------------------------- MODULE TransportSessionOps -------------------------
(***************************************************************************)
(* The transitions of TransportSession (crates/transport/src/session.rs)   *)
(* as functions on a session record.  A call the code rejects with         *)
(* InvalidTransition leaves the session as it was; so does the function.   *)
(* A session keeps its lifecycle state, the kind of its route and the      *)
(* number of reconnects; endpoints, planner reports and the wording of     *)
(* last_error are left out.                                                *)
(***************************************************************************)
EXTENDS Integers

CONSTANT U32Max    \* largest value of the code's u32 counters

ASSUME U32Assumption == U32Max \in Nat \ {0}

TransportSessionState ==
    {"Idle", "Signaling", "IceGathering", "Checking", "Direct", "TurnRelay",
     "Disconnected", "Reconnecting", "Failed", "Cancelled"}

TransportRoute == {"Direct", "TurnRelay"}

NoRoute == "none"

is_connected(st) == st \in TransportRoute

Session == [state : TransportSessionState,
            route : TransportRoute \cup {NoRoute},
            reconnect_attempts : 0..U32Max]

new == [state |-> "Idle", route |-> NoRoute, reconnect_attempts |-> 0]

\* u32::saturating_add(1).
saturating_inc(n) == IF n < U32Max THEN n + 1 ELSE U32Max

\* require_state: the transition happens only from the allowed states.
from(s, allowed, t) == IF s.state \in allowed THEN t ELSE s

begin_signaling_refunding(s) ==
    from(s, {"Idle", "Reconnecting"},
         [s EXCEPT !.state = "Signaling", !.route = NoRoute, !.reconnect_attempts = 0])

begin_signaling(s) ==
    from(s, {"Idle", "Reconnecting"},
         [s EXCEPT !.state = "Signaling", !.route = NoRoute])

begin_ice_gathering(s) ==
    from(s, {"Signaling"}, [s EXCEPT !.state = "IceGathering"])

begin_checking(s) ==
    from(s, {"IceGathering"}, [s EXCEPT !.state = "Checking"])

select_route_unchecked(s, route) == [s EXCEPT !.state = route, !.route = route]

\* select_direct, select_turn_relay and select_connectivity_plan.
select_route(s, route) ==
    from(s, {"Checking"}, [s EXCEPT !.state = route, !.route = route])

\* The route of the failed plan stays in the record, for diagnosis.
fail_direct_path_turn_required(s) ==
    from(s, {"Signaling", "IceGathering", "Checking", "Disconnected", "Reconnecting"},
         [s EXCEPT !.state = "Failed", !.route = "TurnRelay"])

mark_disconnected_keeping_route(s) ==
    from(s, TransportRoute, [s EXCEPT !.state = "Disconnected"])

mark_disconnected(s) ==
    from(s, TransportRoute, [s EXCEPT !.state = "Disconnected", !.route = NoRoute])

begin_reconnecting(s) ==
    from(s, {"Disconnected"},
         [s EXCEPT !.state = "Reconnecting", !.reconnect_attempts = saturating_inc(@)])

schedule_reconnect_off_by_one(s, max_attempts) ==
    from(s, {"Disconnected"},
         IF s.reconnect_attempts > max_attempts
         THEN [s EXCEPT !.state = "Failed", !.route = NoRoute]
         ELSE [s EXCEPT !.state = "Reconnecting", !.reconnect_attempts = saturating_inc(@)])

schedule_reconnect(s, max_attempts) ==
    from(s, {"Disconnected"},
         IF saturating_inc(s.reconnect_attempts) > max_attempts
         THEN [s EXCEPT !.state = "Failed", !.route = NoRoute]
         ELSE [s EXCEPT !.state = "Reconnecting", !.reconnect_attempts = saturating_inc(@)])

cancel(s) ==
    from(s, TransportSessionState \ {"Failed", "Cancelled"},
         [s EXCEPT !.state = "Cancelled", !.route = NoRoute])

tear_down_any(s) == [s EXCEPT !.state = "Cancelled", !.route = NoRoute]

tear_down(s) ==
    from(s, TransportSessionState \ {"Failed"},
         [s EXCEPT !.state = "Cancelled", !.route = NoRoute])

fail(s) ==
    from(s, TransportSessionState \ {"Failed"},
         [s EXCEPT !.state = "Failed", !.route = NoRoute])

reset_taking_one(s) ==
    from(s, {"Disconnected", "Failed", "Cancelled"},
         [new EXCEPT !.reconnect_attempts = s.reconnect_attempts - 1])

reset(s) == from(s, {"Disconnected", "Failed", "Cancelled"}, new)
=============================================================================
