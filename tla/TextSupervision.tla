--------------------------- MODULE TextSupervision ---------------------------
(***************************************************************************)
(* The text session, its runtimes and the supervisor threads together:     *)
(* RuntimeAttach and ControlLaneManager joined where the code joins them.  *)
(*   - an attach thread that installed a runtime spawns a manager for its  *)
(*     session, after it released the app-service lock;                    *)
(*   - a manager's drive cycle pumps the session in the slot, whichever    *)
(*     session the manager was started for, and when a peer has no usable  *)
(*     runtime it calls attach_text_control_transport_runtime, after it    *)
(*     released the lock, with the session id it saw.                      *)
(* Every peer of the conversation advertises a route, in a fixed role, and *)
(* the connectivity profile is configured.  The process does not restart   *)
(* here (RuntimeAttach has restarts).                                      *)
(***************************************************************************)
EXTENDS Integers

CONSTANTS Peers, Labels, Jobs, MaxSessions, MaxFaults, Managers, Ui, Budget,
          U32Max, MaxCalls, None

VARIABLES text, next, pending, runtimes, lane, job, fresh, faults,
          registry, manager, caller, calls,
          owed,     \* the session an attach thread still has to spawn a manager for
          seen      \* the session id a manager's drive cycle wants reattached

A == INSTANCE RuntimeAttach
M == INSTANCE ControlLaneManager WITH Sessions <- 1..MaxSessions, Attachers <- Jobs

avars == <<text, next, pending, runtimes, lane, job, fresh, faults>>
mvars == <<registry, manager, caller, calls>>
vars == <<avars, mvars, owed, seen>>

Role == [p \in Peers |-> "Offerer"]

Init ==
    /\ A!Init
    /\ M!Init
    /\ owed = [j \in Jobs |-> None]
    /\ seen = [m \in Managers |-> None]

\* A command of the user, under the app-service lock.
UserCommand ==
    /\ M!AppLockFree
    /\ calls < MaxCalls
    /\ calls' = calls + 1
    /\ \/ \E label \in Labels : A!StartTextSession(label, "Direct", Peers, Role)
       \/ A!StopTextSession
       \/ A!Attach(Peers, Role, TRUE)
    /\ UNCHANGED <<registry, manager, caller, owed, seen>>

\* start_ and stop_control_lane_session_manager for the session in the slot.
ManagerCommand ==
    /\ text # None
    /\ M!SpawnHalts(Ui, text.id) \/ M!StopManager(text.id)
    /\ UNCHANGED <<avars, owed, seen>>

\* spawn_text_control_runtime_attach, the part under the lock.
Installed(j) ==
    /\ M!AppLockFree
    /\ A!JobInstalled(j, "Direct")
    /\ owed' = [owed EXCEPT ![j] = text.id]
    /\ UNCHANGED <<mvars, seen>>

NotInstalled(j) ==
    /\ M!AppLockFree
    /\ A!JobDiscarded(j) \/ A!JobFailed(j)
    /\ UNCHANGED <<mvars, owed, seen>>

\* start_text_control_session_manager_after_attach, without the lock.
SpawnAfterAttach(j) ==
    /\ owed[j] # None
    /\ M!SpawnHalts(j, owed[j])
    /\ owed' = [owed EXCEPT ![j] = None]
    /\ UNCHANGED <<avars, seen>>

Spawning(c) == M!Spawning(c) /\ UNCHANGED <<avars, owed, seen>>

Active == IF text = None THEN FALSE ELSE text.session.state \notin A!Inactive

\* active_text_control_runtime_reconnect_session_id, after the pump.
missing_unattached(ps, rs) ==
    /\ text # None
    /\ \E p \in Peers : ps[<<text.id, p>>] = None /\ rs[<<text.id, p>>] = None

missing(ps, rs) ==
    /\ text # None
    /\ \E p \in Peers : LET k == <<text.id, p>>
                        IN ps[k] = None /\ (rs[k] = None \/ rs[k].terminal)

\* drive_once: the pump fails when the session is not active.
Drive(m) ==
    /\ \/ /\ Active
          /\ \E peers \in SUBSET Peers : \E closed \in SUBSET peers : A!Pump(Peers, peers, closed, FALSE)
          /\ \E ok \in BOOLEAN : M!Drive(m, ok, missing(pending', runtimes'))
       \/ /\ ~Active
          /\ UNCHANGED avars
          /\ M!Drive(m, FALSE, missing(pending, runtimes))
    /\ seen' = [seen EXCEPT ![m] = IF text = None THEN None ELSE text.id]
    /\ UNCHANGED owed

\* The call of attach_text_control_transport_runtime refuses a session id that is
\* not the one in the slot by now.
Reattach_unchecked(m) ==
    /\ M!Reattached(m)
    /\ LET ks == {<<seen[m], p>> : p \in Peers}
       IN /\ runtimes' = A!reclaim_terminal(ks)
          /\ A!Prepare(A!attachable(ks), Role, A!Reclaimed(ks))
    /\ UNCHANGED <<text, next, lane, faults, owed, seen>>

Reattach(m) ==
    /\ M!Reattached(m)
    /\ IF text.id = seen[m] THEN A!Attach(Peers, Role, TRUE) ELSE UNCHANGED avars
    /\ UNCHANGED <<owed, seen>>

OtherThreadStep(m) ==
    /\ M!LoopChecks(m) \/ M!Sleeps(m) \/ M!FailsClosed(m)
    /\ UNCHANGED <<avars, owed, seen>>

Environment ==
    /\ \E k \in A!Keys : A!RowExpires(k) \/ A!ChannelDies(k)
    /\ UNCHANGED <<mvars, owed, seen>>

ThreadStep(m) == Drive(m) \/ Reattach(m) \/ OtherThreadStep(m)
JobStep(j) == Installed(j) \/ NotInstalled(j) \/ SpawnAfterAttach(j)

Next ==
    \/ UserCommand \/ ManagerCommand \/ Environment
    \/ \E j \in Jobs : JobStep(j)
    \/ \E c \in {Ui} \cup Jobs : Spawning(c)
    \/ \E m \in Managers : ThreadStep(m)

Spec == Init /\ [][Next]_vars

\* Attach threads, calls and managers run to their next step; the connection an
\* attach thread is waiting for comes up, fails or times out.
Fairness ==
    /\ \A j \in Jobs : WF_vars(JobStep(j))
    /\ \A c \in {Ui} \cup Jobs : WF_vars(Spawning(c))
    /\ \A m \in Managers : WF_vars(ThreadStep(m))

FairSpec == Spec /\ Fairness
-----------------------------------------------------------------------------
Supervised == \E m \in Managers : M!Running(m) /\ ~manager[m].stop

AllAttached ==
    text # None /\ \A p \in Peers : /\ runtimes[<<text.id, p>>] # None
                                    /\ ~runtimes[<<text.id, p>>].terminal

\* While a supervisor thread runs, a session whose runtimes died or whose
\* attaches failed or timed out gets all of them back, without any command.
SupervisionReattaches == [](text # None /\ Supervised => <>(AllAttached \/ ~Supervised))

\* A manager reads the id of the session to reattach under the app-service lock
\* and uses it after it released the lock.  When the user has replaced the
\* session meanwhile, no row and no runtime of the old one comes back.
ReattachesOnlyCurrentSession == A!OnlyCurrentSession

\* What the comment of start_text_control_session_manager_after_attach says of
\* a manager: "Keep supervising bounded retries until it is explicitly stopped".
\* After stop_text_session the session is left alone: its managers end, unless
\* the user starts a session again.
SupervisionEndsWithSession ==
    (text # None /\ text.session.state = "Cancelled")
        ~> (~Supervised \/ text.session.state # "Cancelled")
=============================================================================
