----------------------- MODULE ControlLaneManagerProofs -----------------------
(***************************************************************************)
(* Proofs about ControlLaneManager, for any number of sessions, threads,   *)
(* callers and commands.                                                   *)
(***************************************************************************)
EXTENDS ControlLaneManager, TLAPS

\* A thread that is about to be registered belongs to the session it will be
\* registered for, nobody can have told it to stop, and no other caller is about
\* to register it.
Inserting(c) == caller[c] # None /\ caller[c].at = "insert"

NewIsFree ==
    /\ \A c \in Callers : Inserting(c) =>
         LET n == caller[c].new
         IN  /\ manager[n] # None
             /\ manager[n].session = caller[c].session
             /\ ~manager[n].stop
             /\ \A s \in Sessions : registry[s] # n
    /\ \A c, d \in Callers :
         Inserting(c) /\ Inserting(d) /\ caller[c].new = caller[d].new => c = d

RegInv == TypeOK /\ RegistryIsTrue /\ NewIsFree

\* A thread on its way to fail closed has used up its budget.
OutOfBudget(t) ==
    /\ t.at = "closing" => t.attempt > t.max
    /\ t.at = "reattach" => t.then # "exited" /\ (t.then = "closing" => t.attempt > t.max)
    /\ t.at = "exited" => t.stop \/ t.attempt > t.max

ExitInv == TypeOK /\ \A m \in Managers : manager[m] # None => OutOfBudget(manager[m])

\* The steps of a thread change its place and its attempts, not its session nor
\* its stop flag, keep its type and stay within the budget.
LEMMA CycleFacts ==
  ASSUME NEW t \in Thread, NEW ok \in BOOLEAN
  PROVE  LET u == after_cycle(t, ok)
         IN  /\ u \in Thread
             /\ u.session = t.session /\ u.stop = t.stop
             /\ u.at \in {"sleep", "closing"}
             /\ u.at = "closing" => u.attempt > u.max
<1>1. CASE ok
  <2>1. after_cycle(t, ok) = [t EXCEPT !.attempt = 0, !.at = "sleep"]
    BY <1>1 DEF after_cycle
  <2>2. 0 \in 0..U32Max
    BY BudgetAssumption
  <2> QED BY <2>1, <2>2 DEF Thread, Places
<1>2. CASE ~ok
  <2> DEFINE n == IF t.attempt = U32Max THEN U32Max ELSE t.attempt + 1
  <2>1. n \in 0..U32Max
    BY BudgetAssumption DEF Thread
  <2> HIDE DEF n
  <2>2. CASE n > t.max
    <3>1. after_cycle(t, ok) = [t EXCEPT !.attempt = n, !.at = "closing"]
      BY <1>2, <2>2 DEF after_cycle, after_failure, n
    <3> QED BY <3>1, <2>1, <2>2 DEF Thread, Places
  <2>3. CASE ~(n > t.max)
    <3>1. after_cycle(t, ok) = [t EXCEPT !.attempt = n, !.at = "sleep"]
      BY <1>2, <2>3 DEF after_cycle, after_failure, n
    <3> QED BY <3>1, <2>1 DEF Thread, Places
  <2> QED BY <2>2, <2>3
<1> QED BY <1>1, <1>2

\* What a step of one thread does to the table of threads.
LEMMA ThreadFacts ==
  ASSUME TypeOK, NEW m \in Managers, ThreadStep(m)
  PROVE  /\ manager[m] # None
         /\ \E t \in Thread : /\ manager' = [manager EXCEPT ![m] = t]
                              /\ t.session = manager[m].session
                              /\ t.stop = manager[m].stop
                              /\ OutOfBudget(manager[m]) => OutOfBudget(t)
         /\ UNCHANGED <<registry, caller, calls>>
<1> USE DEF TypeOK
<1>1. manager[m] # None /\ manager[m] \in Thread /\ UNCHANGED <<registry, caller, calls>>
  BY DEF ThreadStep, LoopChecks, Drive, Reattached, Sleeps, FailsClosed, Running
<1>2. ASSUME NEW at \in Places, manager' = Go(m, at),
             \/ at \in {"drive", "loop"}
             \/ at = "exited" /\ manager[m].stop
             \/ at = "exited" /\ manager[m].at = "closing"
      PROVE  \E t \in Thread : /\ manager' = [manager EXCEPT ![m] = t]
                               /\ t.session = manager[m].session
                               /\ t.stop = manager[m].stop
                               /\ OutOfBudget(manager[m]) => OutOfBudget(t)
  <2> DEFINE t == [manager[m] EXCEPT !.at = at]
  <2>1. t \in Thread /\ t.session = manager[m].session /\ t.stop = manager[m].stop
    BY <1>1, <1>2 DEF Thread
  <2>2. manager' = [manager EXCEPT ![m] = t]
    BY <1>2 DEF Go
  <2>3. OutOfBudget(manager[m]) => OutOfBudget(t)
    BY <1>1, <1>2 DEF OutOfBudget, Thread
  <2> QED BY <2>1, <2>2, <2>3
<1>3. CASE LoopChecks(m)
  BY <1>1, <1>2, <1>3 DEF LoopChecks, Places
<1>4. CASE Sleeps(m)
  BY <1>1, <1>2, <1>4 DEF Sleeps, Places
<1>5. CASE FailsClosed(m)
  BY <1>1, <1>2, <1>5 DEF FailsClosed, Places
<1>6. CASE Reattached(m)
  <2> DEFINE t == [manager[m] EXCEPT !.at = manager[m].then]
  <2>1. t \in Thread /\ t.session = manager[m].session /\ t.stop = manager[m].stop
    BY <1>1 DEF Thread
  <2>2. manager' = [manager EXCEPT ![m] = t]
    BY <1>6 DEF Reattached
  <2>3. OutOfBudget(manager[m]) => OutOfBudget(t)
    <3>1. SUFFICES ASSUME OutOfBudget(manager[m]) PROVE OutOfBudget(t)
      OBVIOUS
    <3>2. manager[m].then # "exited" /\ (manager[m].then = "closing" => manager[m].attempt > manager[m].max)
      BY <3>1, <1>6 DEF OutOfBudget, Reattached
    <3>3. CASE manager[m].then = "reattach"
      BY <3>3, <3>2, <1>1 DEF OutOfBudget, Thread
    <3>4. CASE manager[m].then # "reattach"
      BY <3>4, <3>2, <1>1 DEF OutOfBudget, Thread
    <3> QED BY <3>3, <3>4
  <2> QED BY <1>1, <2>1, <2>2, <2>3
<1>7. ASSUME NEW ok \in BOOLEAN, NEW missing \in BOOLEAN, Drive(m, ok, missing)
      PROVE  \E t \in Thread : /\ manager' = [manager EXCEPT ![m] = t]
                               /\ t.session = manager[m].session
                               /\ t.stop = manager[m].stop
                               /\ OutOfBudget(manager[m]) => OutOfBudget(t)
  <2> DEFINE u == after_cycle(manager[m], ok)
             t == IF missing THEN [u EXCEPT !.at = "reattach", !.then = u.at] ELSE u
  <2>1. /\ u \in Thread /\ u.session = manager[m].session /\ u.stop = manager[m].stop
        /\ u.at \in {"sleep", "closing"} /\ (u.at = "closing" => u.attempt > u.max)
    BY <1>1, CycleFacts
  <2>2. manager' = [manager EXCEPT ![m] = t]
    BY <1>7 DEF Drive
  <2> HIDE DEF u
  <2>3. CASE missing
    <3>1. t \in Thread /\ t.session = manager[m].session /\ t.stop = manager[m].stop
      BY <2>1, <2>3 DEF Thread, Places
    <3>2. OutOfBudget(t)
      BY <2>1, <2>3 DEF OutOfBudget, Thread
    <3> QED BY <3>1, <3>2, <2>2
  <2>4. CASE ~missing
    <3>1. OutOfBudget(u)
      BY <2>1 DEF OutOfBudget
    <3> QED BY <3>1, <2>1, <2>2, <2>4
  <2> QED BY <2>3, <2>4
<1> QED BY <1>1, <1>3, <1>4, <1>5, <1>6, <1>7 DEF ThreadStep

\* What the first step of a spawn, or a stop, does: the entry is gone, and the
\* thread it named, if any, is told to stop.
LEMMA HaltFacts ==
  ASSUME TypeOK, NEW s \in Sessions, Halt(s), RegistryIsTrue
  PROVE  /\ registry' = [registry EXCEPT ![s] = None]
         /\ manager' \in [Managers -> Thread \cup {None}]
         /\ \A m \in Managers : manager[m] = None => manager'[m] = None
         /\ \A m \in Managers : manager[m] # None =>
               /\ manager'[m] # None
               /\ manager'[m].session = manager[m].session
               /\ m # registry[s] => manager'[m] = manager[m]
               /\ OutOfBudget(manager[m]) => OutOfBudget(manager'[m])
<1> USE DEF TypeOK
<1>1. CASE registry[s] = None
  BY <1>1 DEF Halt, halt
<1>2. CASE registry[s] # None
  <2> DEFINE r == registry[s]
  <2>1. r \in Managers /\ manager[r] # None /\ manager[r] \in Thread
    BY <1>2 DEF RegistryIsTrue
  <2> DEFINE t == [manager[r] EXCEPT !.stop = TRUE]
  <2>2. manager' = [manager EXCEPT ![r] = t]
    BY <1>2 DEF Halt, halt
  <2>3. t \in Thread /\ t.session = manager[r].session
    BY <2>1 DEF Thread
  <2>4. OutOfBudget(manager[r]) => OutOfBudget(t)
    BY <2>1 DEF OutOfBudget, Thread
  <2>5. t # None
    BY <2>3, NoneAssumption
  <2>6. registry' = [registry EXCEPT ![s] = None]
    BY DEF Halt
  <2> HIDE DEF t, r
  <2> QED BY <2>1, <2>2, <2>3, <2>4, <2>5, <2>6 DEF r
<1> QED BY <1>1, <1>2

LEMMA InitInv == Init => RegInv /\ ExitInv
<1>1. SUFFICES ASSUME Init PROVE RegInv /\ ExitInv
  OBVIOUS
<1>2. TypeOK
  BY <1>1, BudgetAssumption DEF Init, TypeOK
<1>3. RegistryIsTrue /\ NewIsFree
  BY <1>1 DEF Init, RegistryIsTrue, NewIsFree, Inserting
<1>4. \A m \in Managers : manager[m] = None
  BY <1>1 DEF Init
<1> QED BY <1>2, <1>3, <1>4 DEF RegInv, ExitInv

\* A halt, followed by the caller's move, keeps both invariants.
LEMMA HaltInv ==
  ASSUME RegInv, ExitInv, NEW s \in Sessions, Halt(s),
         caller' \in [Callers -> Call \cup {None}], calls' \in 0..MaxCalls,
         \A c \in Callers : Inserting(c)' => Inserting(c) /\ caller'[c] = caller[c]
  PROVE  RegInv' /\ ExitInv'
<1> USE DEF RegInv, ExitInv
<1>1. /\ registry' = [registry EXCEPT ![s] = None]
      /\ manager' \in [Managers -> Thread \cup {None}]
      /\ \A m \in Managers : manager[m] = None => manager'[m] = None
      /\ \A m \in Managers : manager[m] # None =>
               /\ manager'[m] # None
               /\ manager'[m].session = manager[m].session
               /\ m # registry[s] => manager'[m] = manager[m]
               /\ OutOfBudget(manager[m]) => OutOfBudget(manager'[m])
  BY HaltFacts
<1>2. TypeOK'
  BY <1>1 DEF TypeOK
<1>3. RegistryIsTrue'
  <2>1. SUFFICES ASSUME NEW x \in Sessions, registry'[x] # None
                 PROVE  /\ manager'[registry'[x]] # None
                        /\ manager'[registry'[x]].session = x
                        /\ ~manager'[registry'[x]].stop
    BY DEF RegistryIsTrue
  <2>2. x # s /\ registry'[x] = registry[x] /\ registry[x] \in Managers
    BY <1>1, <2>1 DEF TypeOK
  <2>3. registry[x] # registry[s]
    BY <2>1, <2>2 DEF RegistryIsTrue
  <2> QED BY <1>1, <2>1, <2>2, <2>3 DEF RegistryIsTrue
<1>4. NewIsFree'
  <2>1. ASSUME NEW c \in Callers, Inserting(c)'
        PROVE  LET n == caller'[c].new
               IN  /\ manager'[n] # None
                   /\ manager'[n].session = caller'[c].session
                   /\ ~manager'[n].stop
                   /\ \A x \in Sessions : registry'[x] # n
    <3>1. Inserting(c) /\ caller'[c] = caller[c]
      BY <2>1
    <3>2. caller[c] \in Call /\ caller[c].new \in Managers
      BY <3>1 DEF Inserting, TypeOK, Call
    <3>3. caller[c].new # registry[s] /\ caller[c].new # None
      BY <3>1, <3>2, CallersAssumption DEF NewIsFree
    <3> QED BY <1>1, <3>1, <3>2, <3>3 DEF NewIsFree, TypeOK
  <2>2. ASSUME NEW c \in Callers, NEW d \in Callers, Inserting(c)', Inserting(d)',
               caller'[c].new = caller'[d].new
        PROVE  c = d
    BY <2>2 DEF NewIsFree
  <2> QED BY <2>1, <2>2 DEF NewIsFree, Inserting
<1>5. \A m \in Managers : manager'[m] # None => OutOfBudget(manager'[m])
  BY <1>1
<1> QED BY <1>2, <1>3, <1>4, <1>5

LEMMA NextInv == RegInv /\ ExitInv /\ [Next]_mvars => RegInv' /\ ExitInv'
<1>1. SUFFICES ASSUME RegInv, ExitInv, [Next]_mvars PROVE RegInv' /\ ExitInv'
  OBVIOUS
<1> USE <1>1 DEF RegInv, ExitInv
<1>2. ASSUME NEW c \in Callers, NEW s \in Sessions, SpawnHalts(c, s)
      PROVE  RegInv' /\ ExitInv'
  <2> DEFINE call == [at |-> "spawn", session |-> s, max |-> IF c = Ui THEN Budget ELSE U32Max]
  <2>1. call \in Call
    BY BudgetAssumption DEF Call
  <2>2. caller' = [caller EXCEPT ![c] = call] /\ Halt(s)
    BY <1>2 DEF SpawnHalts
  <2>3. calls' \in 0..MaxCalls
    BY <1>2, BudgetAssumption DEF SpawnHalts, Command, TypeOK
  <2>4. call.at = "spawn"
    OBVIOUS
  <2> HIDE DEF call
  <2>5. caller' \in [Callers -> Call \cup {None}]
    BY <2>1, <2>2 DEF TypeOK
  <2>6. ASSUME NEW d \in Callers, Inserting(d)' PROVE Inserting(d) /\ caller'[d] = caller[d]
    BY <2>2, <2>4, <2>6 DEF Inserting, TypeOK
  <2> QED BY <2>2, <2>3, <2>5, <2>6, HaltInv
<1>3. ASSUME NEW s \in Sessions, StopManager(s) PROVE RegInv' /\ ExitInv'
  <2>1. Halt(s) /\ caller' = caller
    BY <1>3 DEF StopManager
  <2>2. calls' \in 0..MaxCalls
    BY <1>3, BudgetAssumption DEF StopManager, TypeOK
  <2>3. caller' \in [Callers -> Call \cup {None}]
    BY <2>1 DEF TypeOK
  <2>4. \A c \in Callers : Inserting(c)' => Inserting(c) /\ caller'[c] = caller[c]
    BY <2>1 DEF Inserting
  <2> QED BY <2>1, <2>2, <2>3, <2>4, HaltInv
<1>4. ASSUME NEW c \in Callers, SpawnRefused(c) PROVE RegInv' /\ ExitInv'
  <2>1. /\ caller' = [caller EXCEPT ![c] = None]
        /\ UNCHANGED <<registry, manager, calls>>
    BY <1>4 DEF SpawnRefused
  <2>2. TypeOK'
    BY <2>1 DEF TypeOK
  <2>3. \A d \in Callers : Inserting(d)' => Inserting(d) /\ caller'[d] = caller[d]
    BY <2>1 DEF Inserting, TypeOK
  <2>4. RegistryIsTrue'
    BY <2>1 DEF RegistryIsTrue
  <2>5. NewIsFree'
    BY <2>1, <2>3 DEF NewIsFree, Inserting
  <2> QED BY <2>1, <2>2, <2>4, <2>5
<1>5. ASSUME NEW c \in Callers, SpawnStarts(c) PROVE RegInv' /\ ExitInv'
  <2>1. caller[c] \in Call /\ caller[c].at = "spawn" /\ UNCHANGED <<registry, calls>>
    BY <1>5 DEF SpawnStarts, TypeOK
  <2>2. caller[c].session \in Sessions /\ caller[c].max \in 1..U32Max
    BY <2>1 DEF Call
  <2> DEFINE m == CHOOSE m \in Unused : TRUE
             t == [session |-> caller[c].session, max |-> caller[c].max, attempt |-> 0,
                   at |-> "loop", then |-> "loop", stop |-> FALSE]
             call == [at |-> "insert", session |-> caller[c].session, new |-> m]
  <2>3. manager' = [manager EXCEPT ![m] = t] /\ caller' = [caller EXCEPT ![c] = call]
    BY <1>5 DEF SpawnStarts
  <2>4. m \in Managers /\ manager[m] = None
    <3>1. \E x : x \in Unused
      BY <1>5 DEF SpawnStarts
    <3>2. m \in Unused
      BY <3>1
    <3> QED BY <3>2 DEF Unused
  <2> HIDE DEF m
  <2>5. t \in Thread /\ OutOfBudget(t) /\ t.session = caller[c].session /\ ~t.stop
    BY <2>2, BudgetAssumption DEF Thread, Places, OutOfBudget
  <2>6. call \in Call /\ call.new = m /\ call.session = caller[c].session
    BY <2>2, <2>4 DEF Call
  <2>7. t # None
    BY <2>5, NoneAssumption
  <2> HIDE DEF t, call
  <2>8. TypeOK'
    BY <2>1, <2>3, <2>4, <2>5, <2>6 DEF TypeOK
  <2>9. RegistryIsTrue'
    BY <2>1, <2>3, <2>4 DEF RegistryIsTrue, TypeOK
  <2>10. \A s \in Sessions : registry[s] # m
    BY <2>4, CallersAssumption DEF RegistryIsTrue
  <2>11. ASSUME NEW d \in Callers, d # c, Inserting(d)'
         PROVE  Inserting(d) /\ caller'[d] = caller[d] /\ caller[d].new # m /\ caller[d].new \in Managers
    <3>1. caller'[d] = caller[d]
      BY <2>3, <2>11 DEF TypeOK
    <3>2. Inserting(d) /\ caller[d] \in Call
      BY <3>1, <2>11 DEF Inserting, TypeOK
    <3>3. caller[d].new \in Managers
      BY <3>2 DEF Inserting, Call
    <3> QED BY <3>1, <3>2, <3>3, <2>4 DEF NewIsFree
  <2>12. NewIsFree'
    <3>1. caller'[c] = call /\ manager'[m] = t
      BY <2>3, <2>4 DEF TypeOK
    <3>2. ASSUME NEW d \in Callers, Inserting(d)'
          PROVE  LET n == caller'[d].new
                 IN  /\ manager'[n] # None
                     /\ manager'[n].session = caller'[d].session
                     /\ ~manager'[n].stop
                     /\ \A s \in Sessions : registry'[s] # n
      <4>1. CASE d = c
        BY <4>1, <3>1, <2>1, <2>5, <2>6, <2>7, <2>10
      <4>2. CASE d # c
        BY <4>2, <3>2, <2>1, <2>3, <2>11 DEF NewIsFree, TypeOK
      <4> QED BY <4>1, <4>2
    <3>3. ASSUME NEW d \in Callers, NEW e \in Callers, Inserting(d)', Inserting(e)',
                 caller'[d].new = caller'[e].new
          PROVE  d = e
      BY <3>1, <3>3, <2>6, <2>11 DEF NewIsFree
    <3> QED BY <3>2, <3>3 DEF NewIsFree, Inserting
  <2>13. \A x \in Managers : manager'[x] # None => OutOfBudget(manager'[x])
    BY <2>3, <2>5 DEF TypeOK
  <2> QED BY <2>8, <2>9, <2>12, <2>13
<1>6. ASSUME NEW c \in Callers, SpawnInserts(c) PROVE RegInv' /\ ExitInv'
  <2>1. Inserting(c) /\ caller[c] \in Call /\ UNCHANGED <<manager, calls>>
    BY <1>6 DEF SpawnInserts, Inserting, TypeOK
  <2>2. caller[c].session \in Sessions /\ caller[c].new \in Managers
    BY <2>1 DEF Inserting, Call
  <2>3. /\ registry' = [registry EXCEPT ![caller[c].session] = caller[c].new]
        /\ caller' = [caller EXCEPT ![c] = None]
    BY <1>6 DEF SpawnInserts
  <2>4. TypeOK'
    BY <2>1, <2>2, <2>3 DEF TypeOK
  <2>5. RegistryIsTrue'
    BY <2>1, <2>2, <2>3 DEF RegistryIsTrue, NewIsFree, TypeOK
  <2>6. ASSUME NEW d \in Callers, Inserting(d)'
        PROVE  d # c /\ Inserting(d) /\ caller'[d] = caller[d]
    BY <2>3, <2>6 DEF Inserting, TypeOK
  <2>7. NewIsFree'
    <3>1. ASSUME NEW d \in Callers, Inserting(d)', NEW s \in Sessions
          PROVE  registry'[s] # caller'[d].new
      BY <3>1, <2>1, <2>2, <2>3, <2>6 DEF NewIsFree, TypeOK
    <3> QED BY <3>1, <2>1, <2>6 DEF NewIsFree, Inserting
  <2> QED BY <2>1, <2>4, <2>5, <2>7
<1>7. ASSUME NEW m \in Managers, ThreadStep(m) PROVE RegInv' /\ ExitInv'
  <2>1. manager[m] # None /\ UNCHANGED <<registry, caller, calls>>
    BY <1>7, ThreadFacts
  <2>2. PICK t \in Thread : /\ manager' = [manager EXCEPT ![m] = t]
                            /\ t.session = manager[m].session
                            /\ t.stop = manager[m].stop
                            /\ OutOfBudget(manager[m]) => OutOfBudget(t)
    BY <1>7, ThreadFacts
  <2>3. t # None
    BY NoneAssumption
  <2>4. TypeOK'
    BY <2>1, <2>2 DEF TypeOK
  <2>5. RegistryIsTrue'
    BY <2>1, <2>2, <2>3 DEF RegistryIsTrue, TypeOK
  <2>6. NewIsFree'
    BY <2>1, <2>2, <2>3 DEF NewIsFree, Inserting, TypeOK
  <2>7. \A x \in Managers : manager'[x] # None => OutOfBudget(manager'[x])
    BY <2>1, <2>2 DEF TypeOK
  <2> QED BY <2>4, <2>5, <2>6, <2>7
<1>8. CASE UNCHANGED mvars
  BY <1>8 DEF mvars, TypeOK, RegistryIsTrue, NewIsFree, Inserting
<1> QED BY <1>2, <1>3, <1>4, <1>5, <1>6, <1>7, <1>8 DEF Next, Spawning

LEMMA SpecInv == Spec => [](RegInv /\ ExitInv)
BY InitInv, NextInv, PTL DEF Spec

\* The registry, the threads and the calls of the spawn function keep their types;
\* the attempt counter saturates.
THEOREM TypeCorrect == Spec => []TypeOK
<1>1. RegInv => TypeOK
  BY DEF RegInv
<1> QED BY <1>1, SpecInv, PTL

\* However commands and attach threads interleave in spawn and halt, the registry
\* names only managers of its session that nobody has told to stop.
THEOREM RegistryStaysTrue == Spec => []RegistryIsTrue
<1>1. RegInv => RegistryIsTrue
  BY DEF RegInv
<1> QED BY <1>1, SpecInv, PTL

\* A supervisor thread ends only when told to or when its budget is used up, and
\* one whose budget is u32::MAX only when told to.
THEOREM ExitsHaveReasons == Spec => []ExitsAreAccounted
<1>1. ExitInv => ExitsAreAccounted
  <2>1. SUFFICES ASSUME ExitInv, NEW m \in Managers, manager[m] # None,
                        manager[m].at = "exited"
                 PROVE  \/ manager[m].stop
                        \/ manager[m].attempt > manager[m].max /\ manager[m].max < U32Max
    BY DEF ExitsAreAccounted
  <2>2. manager[m] \in Thread
    BY <2>1 DEF ExitInv, TypeOK
  <2>3. manager[m].stop \/ manager[m].attempt > manager[m].max
    BY <2>1 DEF ExitInv, OutOfBudget
  <2>4. manager[m].attempt > manager[m].max => manager[m].max < U32Max
    BY <2>2, BudgetAssumption DEF Thread
  <2> QED BY <2>3, <2>4
<1> QED BY <1>1, SpecInv, PTL
===============================================================================
