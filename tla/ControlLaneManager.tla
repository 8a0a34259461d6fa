------------------------- MODULE ControlLaneManager -------------------------
(***************************************************************************)
(* The supervisor threads of apps/desktop/src-tauri/src/connection.rs: the *)
(* registry of one manager per session, the drive loop with its backoff,   *)
(* and the callers that replace or halt a manager.                         *)
(*                                                                         *)
(* spawn_control_lane_session_manager takes the registry lock twice, once  *)
(* to remove the old manager and once to insert the new one, and starts    *)
(* the thread in between.  The start and stop commands hold the app-       *)
(* service lock for the whole call (caller Ui); attach threads that have   *)
(* just installed a runtime call it without that lock (callers Attachers). *)
(* A drive cycle needs the app-service lock.                               *)
(*                                                                         *)
(* U32Max stands for u32::MAX, the attempt budget of a manager started     *)
(* after an attach; the attempt counter saturates there.                   *)
(***************************************************************************)
EXTENDS Integers

CONSTANTS Sessions,    \* session ids
          Managers,    \* supervisor threads; none is used twice
          Ui,          \* the start/stop commands, under the app-service lock
          Attachers,   \* attach threads, without it
          Budget,      \* max_attempts of a manager started by command
          U32Max,
          MaxCalls,    \* bound on start and stop commands
          None

ASSUME BudgetAssumption == /\ U32Max \in Nat \ {0}
                           /\ Budget \in 1..U32Max
                           /\ MaxCalls \in Nat
ASSUME CallersAssumption == Ui \notin Attachers /\ None \notin Managers

Callers == {Ui} \cup Attachers

VARIABLES registry,    \* CONTROL_LANE_MANAGERS
          manager,     \* the threads and the flags of their entries, None before the start
          caller,      \* where each caller is in spawn_control_lane_session_manager
          calls        \* start and stop commands so far

mvars == <<registry, manager, caller, calls>>

Places == {"loop", "drive", "reattach", "sleep", "closing", "exited"}
Thread == [session : Sessions, max : 1..U32Max, attempt : 0..U32Max,
           at : Places, then : Places, stop : BOOLEAN]
Call == [at : {"spawn"}, session : Sessions, max : 1..U32Max]
        \cup [at : {"insert"}, session : Sessions, new : Managers]

ASSUME NoneAssumption == None \notin Thread \cup Call

Init ==
    /\ registry = [s \in Sessions |-> None]
    /\ manager = [m \in Managers |-> None]
    /\ caller = [c \in Callers |-> None]
    /\ calls = 0

Running(m) == manager[m] # None /\ manager[m].at # "exited"

AppLockFree == caller[Ui] = None

Go(m, at) == [manager EXCEPT ![m].at = at]
-----------------------------------------------------------------------------
\* halt_control_lane_session_manager: remove the entry, then set its stop flag.
\* Nobody else can reach the entry in between, and the thread only reads the
\* flag, so the two are one step.
halt(s) ==
    manager' = IF registry[s] = None THEN manager
               ELSE [manager EXCEPT ![registry[s]].stop = TRUE]

Halt_keeping_entry(s) == halt(s) /\ UNCHANGED registry

Halt(s) ==
    /\ halt(s)
    /\ registry' = [registry EXCEPT ![s] = None]

Command(c) ==
    calls' = IF c = Ui THEN calls + 1 ELSE calls

\* The first step of a spawn.
SpawnHalts(c, s) ==
    /\ caller[c] = None
    /\ c = Ui => calls < MaxCalls
    /\ Command(c)
    /\ Halt(s)
    /\ caller' = [caller EXCEPT ![c] = [at |-> "spawn", session |-> s,
                                        max |-> IF c = Ui THEN Budget ELSE U32Max]]

\* The backoff tunables are refused, or the thread cannot be started: the old
\* manager is gone all the same.
SpawnRefused(c) ==
    /\ caller[c] # None
    /\ caller[c].at = "spawn"
    /\ caller' = [caller EXCEPT ![c] = None]
    /\ UNCHANGED <<registry, manager, calls>>

\* The thread starts, before it is registered.  Threads that have not started are
\* all alike, so it does not matter which is picked.
Unused == {m \in Managers : manager[m] = None}

SpawnStarts(c) ==
    /\ caller[c] # None
    /\ caller[c].at = "spawn"
    /\ Unused # {}
    /\ LET m == CHOOSE m \in Unused : TRUE
       IN /\ manager' = [manager EXCEPT ![m] =
                            [session |-> caller[c].session, max |-> caller[c].max,
                             attempt |-> 0, at |-> "loop", then |-> "loop",
                             stop |-> FALSE]]
          /\ caller' = [caller EXCEPT ![c] = [at |-> "insert", session |-> caller[c].session,
                                              new |-> m]]
    /\ UNCHANGED <<registry, calls>>

\* insert overwrites whatever another caller has registered meanwhile.
SpawnInserts(c) ==
    /\ caller[c] # None
    /\ caller[c].at = "insert"
    /\ registry' = [registry EXCEPT ![caller[c].session] = caller[c].new]
    /\ caller' = [caller EXCEPT ![c] = None]
    /\ UNCHANGED <<manager, calls>>

\* stop_control_lane_session_manager.
StopManager(s) ==
    /\ AppLockFree
    /\ calls < MaxCalls
    /\ calls' = calls + 1
    /\ Halt(s)
    /\ UNCHANGED caller
-----------------------------------------------------------------------------
\* The loop of the thread: look at the stop flag, drive, reattach, sleep.
LoopChecks_never_stopping(m) ==
    /\ Running(m)
    /\ manager[m].at = "loop"
    /\ manager' = Go(m, "drive")
    /\ UNCHANGED <<registry, caller, calls>>

LoopChecks(m) ==
    /\ Running(m)
    /\ manager[m].at = "loop"
    /\ manager' = Go(m, IF manager[m].stop THEN "exited" ELSE "drive")
    /\ UNCHANGED <<registry, caller, calls>>

\* decision_for_attempt: back off while the attempts last, else fail closed.
after_failure_at_budget(t) ==
    LET n == IF t.attempt = U32Max THEN U32Max ELSE t.attempt + 1
    IN [t EXCEPT !.attempt = n, !.at = IF n >= t.max THEN "closing" ELSE "sleep"]

after_failure_unsaturated(t) ==
    LET n == t.attempt + 1
    IN [t EXCEPT !.attempt = n, !.at = IF n > t.max THEN "closing" ELSE "sleep"]

after_failure(t) ==
    LET n == IF t.attempt = U32Max THEN U32Max ELSE t.attempt + 1
    IN [t EXCEPT !.attempt = n, !.at = IF n > t.max THEN "closing" ELSE "sleep"]

after_cycle(t, ok) ==
    IF ok THEN [t EXCEPT !.attempt = 0, !.at = "sleep"] ELSE after_failure(t)

\* GlobalControlLaneSessionDriver::drive_once: pump and drain under the app-
\* service lock, then, when a runtime is missing, reattach after releasing it.
Drive(m, ok, missing) ==
    /\ AppLockFree
    /\ Running(m)
    /\ manager[m].at = "drive"
    /\ LET t == after_cycle(manager[m], ok)
       IN manager' = [manager EXCEPT ![m] = IF missing THEN [t EXCEPT !.at = "reattach", !.then = t.at]
                                                       ELSE t]
    /\ UNCHANGED <<registry, caller, calls>>

Reattached(m) ==
    /\ AppLockFree
    /\ Running(m)
    /\ manager[m].at = "reattach"
    /\ manager' = [manager EXCEPT ![m].at = manager[m].then]
    /\ UNCHANGED <<registry, caller, calls>>

\* sleep_interruptible ends after the delay or when the stop flag is set.
Sleeps(m) ==
    /\ Running(m)
    /\ manager[m].at = "sleep"
    /\ manager' = Go(m, "loop")
    /\ UNCHANGED <<registry, caller, calls>>

\* on_manager_stopped("backoff_exhausted") and the end of the thread.
FailsClosed(m) ==
    /\ AppLockFree
    /\ Running(m)
    /\ manager[m].at = "closing"
    /\ manager' = Go(m, "exited")
    /\ UNCHANGED <<registry, caller, calls>>

Spawning(c) == SpawnRefused(c) \/ SpawnStarts(c) \/ SpawnInserts(c)

ThreadStep(m) ==
    \/ LoopChecks(m)
    \/ \E ok, missing \in BOOLEAN : Drive(m, ok, missing)
    \/ Reattached(m)
    \/ Sleeps(m)
    \/ FailsClosed(m)

Next ==
    \/ \E c \in Callers : (\E s \in Sessions : SpawnHalts(c, s)) \/ Spawning(c)
    \/ \E s \in Sessions : StopManager(s)
    \/ \E m \in Managers : ThreadStep(m)

Spec == Init /\ [][Next]_mvars

\* The operating system runs every thread and every call to its next step.
Fairness == /\ \A m \in Managers : WF_mvars(ThreadStep(m))
            /\ \A c \in Callers : WF_mvars(Spawning(c))

FairSpec == Spec /\ Fairness
-----------------------------------------------------------------------------
\* The registry, the supervisor threads and the calls of spawn keep their types;
\* the attempt counter, which saturates, stays a u32.
TypeOK ==
    /\ registry \in [Sessions -> Managers \cup {None}]
    /\ manager \in [Managers -> Thread \cup {None}]
    /\ caller \in [Callers -> Call \cup {None}]
    /\ calls \in 0..MaxCalls

\* A registered manager is a manager of that session that nobody has told to
\* stop, so a halt reaches a thread that does not know of it yet.  The thread may
\* have ended all the same: one that failed closed stays registered.
RegistryIsTrue ==
    \A s \in Sessions : registry[s] # None =>
        /\ manager[registry[s]] # None
        /\ manager[registry[s]].session = s
        /\ ~manager[registry[s]].stop

\* A thread ends because it was told to stop or because it failed more often in
\* a row than its budget allows; the managers started after an attach, whose
\* budget is u32::MAX, end only when they are told to, because the counter
\* saturates and never exceeds that budget.
ExitsAreAccounted ==
    \A m \in Managers : manager[m] # None /\ manager[m].at = "exited" =>
        \/ manager[m].stop
        \/ manager[m].attempt > manager[m].max /\ manager[m].max < U32Max

\* "Replaces any existing manager for the same session": no session has two
\* threads that nobody has told to stop, whichever two callers, a start command
\* or attach threads, are in spawn_control_lane_session_manager at once.
OneManagerPerSession ==
    \A m, n \in Managers :
        /\ Running(m) /\ ~manager[m].stop
        /\ Running(n) /\ ~manager[n].stop
        /\ manager[m].session = manager[n].session
        => m = n

\* A thread that is told to stop stops, also when it waits for the app-service
\* lock, backs off or is reattaching.
HaltedThreadsStop ==
    \A m \in Managers : (manager[m] # None /\ manager[m].stop) ~> (manager[m] # None /\ manager[m].at = "exited")
=============================================================================
