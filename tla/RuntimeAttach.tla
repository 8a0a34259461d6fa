---------------------------- MODULE RuntimeAttach ----------------------------
(***************************************************************************)
(* The text session of the desktop app and its text/control runtimes       *)
(* (apps/desktop/src-tauri/src/lib.rs).  start_text_session, stop_text_    *)
(* session and attach_text_control_transport_runtime run under the app-    *)
(* service lock; an attach starts one background thread per peer, which    *)
(* connects without the lock and comes back under it, possibly after the   *)
(* session was stopped or restarted, or after its pending row was given up *)
(* as stale.                                                               *)
(*                                                                         *)
(* A row of the pending map and a runtime remember the job that made them; *)
(* the code's maps do not.  A pending row is stale once 60 s have passed   *)
(* since it was made.  A runtime is terminal once its DataChannel closed.  *)
(***************************************************************************)
EXTENDS TransportSessionOps, FiniteSets

CONSTANTS Peers,          \* remote runtime peers of the active conversation
          Labels,         \* scope labels of start_text_session
          Jobs,           \* attach threads; none is used twice
          MaxSessions,    \* bound on the sessions created
          MaxFaults,      \* bound on stale rows, dead channels, failures and restarts
          None

Roles == {"Offerer", "Answerer"}
SessionIds == 1..MaxSessions
Keys == SessionIds \X Peers

ASSUME NatAssumption == MaxSessions \in Nat /\ MaxFaults \in Nat

VARIABLES text,       \* the text TransportSessionRecord, or None
          next,       \* next_sequence
          pending,    \* pending_text_control_transport_runtimes
          runtimes,   \* text_control_transport_runtimes, per-peer entries
          lane,       \* sessions with a broker control lane (unscoped entries)
          job,        \* what each attach thread is connecting, None when it is not
          fresh,      \* attach threads not started yet
          faults      \* faults so far

vars == <<text, next, pending, runtimes, lane, job, fresh, faults>>

Row == [role : Roles, by : Jobs, stale : BOOLEAN]
Runtime == [by : Jobs, terminal : BOOLEAN]
Job == [key : Keys, role : Roles]
Text == [id : SessionIds, label : Labels, session : Session]

ASSUME NoneAssumption == None \notin Row \cup Runtime \cup Job \cup Text

Init ==
    /\ text = None
    /\ next = 1
    /\ pending = [k \in Keys |-> None]
    /\ runtimes = [k \in Keys |-> None]
    /\ lane = {}
    /\ job = [j \in Jobs |-> None]
    /\ fresh = Jobs
    /\ faults = 0

Inactive == {"Idle", "Disconnected", "Failed", "Cancelled"}

Drop(m, gone) == [k \in Keys |-> IF k \in gone THEN None ELSE m[k]]

\* What clear_text_control_transport_runtime_if_session_mismatch removes.
Mismatched_none(id) == {}

Mismatched(id) == {k \in Keys : k[1] # id}

KeysOf(id) == {k \in Keys : k[1] = id}

StaleRows(ks) == {k \in ks : pending[k] # None /\ pending[k].stale}
-----------------------------------------------------------------------------
\* mark_text_session_data_channel_route_proof.  The probe shows an incomplete
\* channel, a direct path, a configured TURN path, or neither of them.
Proofs == {"incomplete", "Direct", "TurnRelay", "none"}

progress(s) == begin_checking(begin_ice_gathering(s))

route_proof(s, proof) ==
    CASE proof = "incomplete" -> s
      [] proof = "none" -> fail_direct_path_turn_required(progress(s))
      [] proof \in TransportRoute ->
           IF s.state = proof THEN s ELSE select_route(progress(s), proof)

\* text_control_runtime_attach_already_active for the keys ks: a stale row and,
\* unless the key is still pending, a terminal runtime are removed.
Reclaimed(ks) == Drop(pending, StaleRows(ks))

reclaim_terminal(ks) ==
    Drop(runtimes, {k \in ks : /\ Reclaimed(ks)[k] = None
                               /\ runtimes[k] # None
                               /\ runtimes[k].terminal})

attachable_unless_pending(ks) == {k \in ks : Reclaimed(ks)[k] = None}

attachable(ks) ==
    {k \in ks : Reclaimed(ks)[k] = None /\ reclaim_terminal(ks)[k] = None}

\* prepare_text_control_runtime_attach_job for each key of ks, with the role of
\* its peer: a pending row and a thread for each.  Threads that have not started
\* are all alike, so it does not matter which are picked.
Threads(ks) == {who \in [ks -> fresh] : \A k, l \in ks : who[k] = who[l] => k = l}

Prepare(ks, role, pend) ==
    /\ Threads(ks) # {}
    /\ LET who == CHOOSE w \in Threads(ks) : TRUE
       IN /\ pending' = [k \in Keys |-> IF k \in ks
                                        THEN [role |-> role[k[2]], by |-> who[k], stale |-> FALSE]
                                        ELSE pend[k]]
          /\ job' = [j \in Jobs |-> IF \E k \in ks : who[k] = j
                                    THEN LET k == CHOOSE k \in ks : who[k] = j
                                         IN [key |-> k, role |-> role[k[2]]]
                                    ELSE job[j]]
          /\ fresh' = fresh \ {who[k] : k \in ks}

\* attach_text_control_transport_runtime with the attachments derived from the
\* conversation.  The profile inputs are read after the stale entries were
\* dropped and may be missing.
Attach(peers, role, inputs_ok) ==
    /\ text # None
    /\ LET ks == {<<text.id, p>> : p \in peers}
           start == IF inputs_ok THEN attachable(ks) ELSE {}
       IN /\ runtimes' = reclaim_terminal(ks)
          /\ Prepare(start, role, Reclaimed(ks))
    /\ UNCHANGED <<text, next, lane, faults>>

\* start_transport_session: an active session of the same label is kept, an idle
\* one starts signaling, any other is replaced by a new one.
Kept(label) ==
    /\ text # None
    /\ text.label = label
    /\ text.session.state \notin {"Disconnected", "Failed", "Cancelled"}

started(label) ==
    IF Kept(label) THEN [text EXCEPT !.session = IF @.state = "Idle" THEN begin_signaling(@) ELSE @]
    ELSE [id |-> next, label |-> label, session |-> begin_signaling(new)]

\* start_text_session.  With a data-channel probe that proves a route, and when
\* nothing is attached or pending, the attach threads start at once.
StartTextSession(label, probe, peers, role) ==
    /\ Kept(label) \/ next \in SessionIds
    /\ LET t == started(label)
           s == IF probe \in Proofs THEN route_proof(t.session, probe) ELSE t.session
           old == Mismatched(t.id)
           pend == Drop(pending, old)
           run == Drop(runtimes, old)
           auto == /\ probe # "off"
                   /\ is_connected(s.state)
                   /\ lane \cap {t.id} = {}
                   /\ \A k \in Keys : run[k] = None /\ pend[k] = None
       IN /\ text' = [t EXCEPT !.session = s]
          /\ next' = IF Kept(label) THEN next ELSE next + 1
          /\ runtimes' = run
          /\ lane' = lane \cap {t.id}
          /\ Prepare(IF auto THEN {<<t.id, p>> : p \in peers} ELSE {}, role, pend)
    /\ UNCHANGED faults

\* stop_text_session.  A failed or cancelled session is left as it is, and so
\* are its runtimes.
StopTextSession ==
    /\ text # None
    /\ text.session.state \notin {"Failed", "Cancelled"}
    /\ text' = [text EXCEPT !.session = tear_down(@)]
    /\ pending' = [k \in Keys |-> None]
    /\ runtimes' = [k \in Keys |-> None]
    /\ lane' = {}
    /\ UNCHANGED <<next, job, fresh, faults>>

\* register_broker_control_lane_transport: the rows of the session are dropped.
AttachLane ==
    /\ text # None
    /\ pending' = Drop(pending, KeysOf(text.id))
    /\ lane' = lane \cup {text.id}
    /\ UNCHANGED <<text, next, runtimes, job, fresh, faults>>

\* text_control_runtime_attach_still_current.  The peer ids of the row are part of
\* its key, except the local one: it also has to be the thread's, which may
\* discard one more thread, as if its row had been cleared.
still_current_by_session(jb) ==
    /\ text # None
    /\ text.id = jb.key[1]

still_current(jb) ==
    /\ text # None
    /\ text.id = jb.key[1]
    /\ pending[jb.key] # None
    /\ pending[jb.key].role = jb.role

Fault == faults < MaxFaults /\ faults' = faults + 1

Finish(j) == job' = [job EXCEPT ![j] = None] /\ UNCHANGED <<next, lane, fresh>>

\* The thread comes back connected and is installed.  The evidence of a runtime
\* has no configured TURN path.
JobInstalled(j, proof) ==
    /\ job[j] # None
    /\ still_current(job[j])
    /\ text' = [text EXCEPT !.session = route_proof(@, proof)]
    /\ pending' = [pending EXCEPT ![job[j].key] = None]
    /\ runtimes' = [runtimes EXCEPT ![job[j].key] = [by |-> j, terminal |-> FALSE]]
    /\ UNCHANGED faults
    /\ Finish(j)

\* The thread comes back connected, too late.
JobDiscarded(j) ==
    /\ job[j] # None
    /\ ~still_current(job[j])
    /\ UNCHANGED <<text, pending, runtimes, faults>>
    /\ Finish(j)

\* The thread could not connect: the row of its key goes.
JobFailed_keeping_row(j) ==
    /\ job[j] # None
    /\ Fault
    /\ UNCHANGED <<text, pending, runtimes>>
    /\ Finish(j)

JobFailed(j) ==
    /\ job[j] # None
    /\ Fault
    /\ pending' = [pending EXCEPT ![job[j].key] = None]
    /\ UNCHANGED <<text, runtimes>>
    /\ Finish(j)

\* pump_text_control_transport_once as far as these maps go: with a channel
\* target the entries of peers outside the current routes are closed; stale rows
\* of the peers with frames to send are dropped; of the runtimes they use, those
\* found closed are removed, and the lane when it fails to send.  A send that
\* fails on a live runtime is ChannelDies followed by the pump.
Pump(routes, peers, closed, lane_lost) ==
    /\ text # None
    /\ text.session.state \notin Inactive
    /\ IF lane_lost THEN Fault /\ text.id \in lane /\ lane' = lane \ {text.id}
                    ELSE UNCHANGED <<lane, faults>>
    /\ LET out == {k \in KeysOf(text.id) : k[2] \notin routes}
           ks == {<<text.id, p>> : p \in peers} \ out
           rows == Drop(pending, out \cup StaleRows(ks))
           dead == {k \in ks : /\ k[2] \in closed
                               /\ rows[k] = None
                               /\ runtimes[k] # None
                               /\ runtimes[k].terminal}
       IN /\ pending' = rows
          /\ runtimes' = Drop(runtimes, out \cup dead)
    /\ UNCHANGED <<text, next, job, fresh>>

\* 60 s pass while a thread is connecting.
RowExpires(k) ==
    /\ Fault
    /\ pending[k] # None
    /\ pending' = [pending EXCEPT ![k].stale = TRUE]
    /\ UNCHANGED <<text, next, runtimes, lane, job, fresh>>

\* The DataChannel of a runtime closes.
ChannelDies(k) ==
    /\ Fault
    /\ runtimes[k] # None
    /\ runtimes' = [runtimes EXCEPT ![k].terminal = TRUE]
    /\ UNCHANGED <<text, next, pending, lane, job, fresh>>

\* The app restarts.  The text session is persisted, maps and threads are not.
Restart ==
    /\ Fault
    /\ pending' = [k \in Keys |-> None]
    /\ runtimes' = [k \in Keys |-> None]
    /\ lane' = {}
    /\ job' = [j \in Jobs |-> None]
    /\ UNCHANGED <<text, next, fresh>>

Start == \E label \in Labels, probe \in Proofs \cup {"off", "failed"} :
            \E peers \in SUBSET (IF probe = "off" THEN {} ELSE Peers) :
                \E role \in [peers -> Roles] : StartTextSession(label, probe, peers, role)

Reattach == \E peers \in SUBSET Peers, ok \in BOOLEAN :
                \E role \in [peers -> Roles] : Attach(peers, role, ok)

Completion == \E j \in Jobs : \/ \E proof \in Proofs \ {"TurnRelay"} : JobInstalled(j, proof)
                              \/ JobDiscarded(j)
                              \/ JobFailed(j)

Pumping == \E routes \in SUBSET Peers : \E peers \in SUBSET routes :
                \E closed \in SUBSET peers, lost \in BOOLEAN : Pump(routes, peers, closed, lost)

Environment == \/ \E k \in Keys : RowExpires(k) \/ ChannelDies(k)
               \/ Restart

Next == Start \/ StopTextSession \/ AttachLane \/ Reattach \/ Completion \/ Pumping
        \/ Environment

Spec == Init /\ [][Next]_vars
-----------------------------------------------------------------------------
\* The slot, the maps and the threads keep their types.
TypeOK ==
    /\ text \in Text \cup {None}
    /\ next \in 1..MaxSessions + 1
    /\ pending \in [Keys -> Row \cup {None}]
    /\ runtimes \in [Keys -> Runtime \cup {None}]
    /\ lane \subseteq SessionIds
    /\ job \in [Jobs -> Job \cup {None}]
    /\ fresh \subseteq Jobs
    /\ faults \in 0..MaxFaults

\* "Rapid restart/reconnect cannot let a stale background attach job install a
\* runtime for an old text session": whatever is pending, attached or a lane
\* belongs to the session in the slot.
OnlyCurrentSession ==
    /\ \A k \in Keys : pending[k] # None \/ runtimes[k] # None =>
                            text # None /\ k[1] = text.id
    /\ lane \subseteq (IF text = None THEN {} ELSE {text.id})

\* Once the text session is cancelled or failed it stays so until another
\* session takes the slot: a start of the same label, a reattach by the manager
\* or a thread that was already connecting when the user stopped the session
\* may bring a runtime, but its route proof does not reconnect the session.
StoppedStaysStopped ==
    [][text # None /\ text.session.state \in {"Failed", "Cancelled"} =>
            text'.session = text.session \/ text'.id # text.id]_text

\* A peer is either being attached or attached, never both, so two attaches of
\* a peer cannot end in two DataChannels.
OneAttachPerPeer ==
    \A k \in Keys : pending[k] = None \/ runtimes[k] = None

\* A runtime installed by one thread is never replaced by the runtime of another
\* one: the maps converge to one runtime per peer, and a second needs the first
\* to be taken down before.
NoReplacement ==
    [][\A k \in Keys : runtimes[k] # None /\ runtimes'[k] # None
                            => runtimes'[k].by = runtimes[k].by]_vars

\* A pending row always has its thread: the attach that made the row is still
\* connecting for the same peer and in the same role, so no row blocks later
\* attaches of a peer for ever.
RowsAreWorkedOn ==
    \A k \in Keys : pending[k] # None =>
        job[pending[k].by] = [key |-> k, role |-> pending[k].role]

\* What the plan of the reattach work asks of a late completion: "clear only the
\* matching pending row".  A thread that ends clears no row but its own.
OwnRowOnly ==
    [][\A j \in Jobs :
         /\ job[j] # None /\ job'[j] = None
         /\ \A i \in Jobs \ {j} : job'[i] = job[i]
         => \A k \in Keys : pending[k] # None /\ pending'[k] = None => pending[k].by = j]_vars
=============================================================================
