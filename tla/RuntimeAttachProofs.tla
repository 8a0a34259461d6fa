------------------------- MODULE RuntimeAttachProofs -------------------------
(***************************************************************************)
(* Proofs about RuntimeAttach, for every set of peers, labels and attach   *)
(* threads and every number of sessions and faults.                        *)
(*                                                                         *)
(* None of the properties is inductive alone.  That a pending row has its  *)
(* thread needs that a thread not yet started is working on nothing; that  *)
(* a runtime is never replaced needs that a peer is not pending and        *)
(* attached at once.  Inv joins them.  That a stopped session stays so     *)
(* needs that session ids are not given out twice (IdsAreSpent).           *)
(***************************************************************************)
EXTENDS RuntimeAttach, TLAPS

FreshIsIdle == \A j \in fresh : job[j] = None

Inv == TypeOK /\ OnlyCurrentSession /\ RowsAreWorkedOn /\ OneAttachPerPeer /\ FreshIsIdle

\* A map that holds a part of the rows or runtimes of another.
Part(m, n) == \A k \in Keys : m[k] = None \/ m[k] = n[k]
-----------------------------------------------------------------------------
\* Each transition of a session gives a session: route_proof, which negotiates
\* and selects, and tear_down stay in the type.
LEMMA SessionOps ==
    ASSUME NEW s \in Session
    PROVE  /\ begin_signaling(s) \in Session
           /\ \A proof \in Proofs : route_proof(s, proof) \in Session
           /\ tear_down(s) \in Session
           /\ new \in Session
<1>1. begin_signaling(s) \in Session
  BY DEF begin_signaling, from, Session, TransportSessionState, NoRoute
<1>2. progress(s) \in Session
  BY DEF progress, begin_checking, begin_ice_gathering, from, Session, TransportSessionState
<1>3. ASSUME NEW proof \in Proofs PROVE route_proof(s, proof) \in Session
  <2>1. CASE proof = "incomplete"
    <3>1. route_proof(s, proof) = s
      BY <2>1 DEF route_proof, TransportRoute
    <3> QED BY <3>1
  <2>2. CASE proof = "none"
    BY <2>2, <1>2 DEF route_proof, fail_direct_path_turn_required, from, Session,
       TransportSessionState, TransportRoute
  <2>3. CASE proof \in {"Direct", "TurnRelay"}
    <3>1. route_proof(s, proof) = IF s.state = proof THEN s ELSE select_route(progress(s), proof)
      BY <2>3 DEF route_proof, TransportRoute
    <3>2. select_route(progress(s), proof) \in Session
      BY <2>3, <1>2 DEF select_route, from, Session, TransportSessionState, TransportRoute
    <3> QED BY <3>1, <3>2
  <2> QED BY <2>1, <2>2, <2>3 DEF Proofs
<1>4. tear_down(s) \in Session
  BY DEF tear_down, from, Session, TransportSessionState, NoRoute
<1>5. new \in Session
  BY U32Assumption DEF new, Session, TransportSessionState, NoRoute
<1> QED BY <1>1, <1>3, <1>4, <1>5

\* Drop removes entries and changes none (BTreeMap::retain).
LEMMA DropPart ==
    ASSUME NEW m, NEW gone
    PROVE  /\ Part(Drop(m, gone), m)
           /\ \A k \in Keys \cap gone : Drop(m, gone)[k] = None
           /\ \A T : m \in [Keys -> T \cup {None}] => Drop(m, gone) \in [Keys -> T \cup {None}]
BY DEF Drop, Part

\* What an attach that starts threads for the keys ks leaves behind: a row and
\* a working thread for each, and no other thread touched.
LEMMA PrepareFacts ==
    ASSUME TypeOK, FreshIsIdle,
           NEW ks \in SUBSET Keys, NEW peers \in SUBSET Peers,
           NEW role \in [peers -> Roles], \A k \in ks : k[2] \in peers,
           NEW pend \in [Keys -> Row \cup {None}],
           Prepare(ks, role, pend)
    PROVE  /\ pending' \in [Keys -> Row \cup {None}]
           /\ job' \in [Jobs -> Job \cup {None}]
           /\ fresh' \subseteq Jobs
           /\ FreshIsIdle'
           /\ \A k \in Keys \ ks : pending'[k] = pend[k]
           /\ \A k \in ks : /\ pending'[k] # None
                            /\ job'[pending'[k].by] = [key |-> k, role |-> pending'[k].role]
           /\ \A j \in Jobs : job[j] # None => job'[j] = job[j]
<1> DEFINE who == CHOOSE w \in Threads(ks) : TRUE
<1>1. who \in Threads(ks)
  <2>1. \E w : w \in Threads(ks)
    BY DEF Prepare
  <2> QED BY <2>1
<1>2. /\ who \in [ks -> fresh]
      /\ \A k, l \in ks : who[k] = who[l] => k = l
  BY <1>1 DEF Threads
<1>3. /\ pending' = [k \in Keys |-> IF k \in ks
                                    THEN [role |-> role[k[2]], by |-> who[k], stale |-> FALSE]
                                    ELSE pend[k]]
      /\ job' = [j \in Jobs |-> IF \E k \in ks : who[k] = j
                                THEN LET k == CHOOSE k \in ks : who[k] = j
                                     IN [key |-> k, role |-> role[k[2]]]
                                ELSE job[j]]
      /\ fresh' = fresh \ {who[k] : k \in ks}
  BY DEF Prepare
<1> HIDE DEF who
<1>4. fresh \subseteq Jobs /\ job \in [Jobs -> Job \cup {None}]
  BY DEF TypeOK
<1>5. ASSUME NEW k \in ks PROVE role[k[2]] \in Roles
  OBVIOUS
<1>6. ASSUME NEW k \in ks PROVE job'[who[k]] = [key |-> k, role |-> role[k[2]]]
  <2>1. who[k] \in Jobs
    BY <1>2, <1>4
  <2>2. (CHOOSE l \in ks : who[l] = who[k]) = k
    <3> DEFINE c == CHOOSE l \in ks : who[l] = who[k]
    <3>1. c \in ks /\ who[c] = who[k]
      OBVIOUS
    <3> QED BY <3>1, <1>2
  <2> QED BY <1>3, <2>1, <2>2
<1>7. ASSUME NEW j \in Jobs, \A k \in ks : who[k] # j PROVE job'[j] = job[j]
  BY <1>3, <1>7
<1>8. pending' \in [Keys -> Row \cup {None}]
  BY <1>2, <1>3, <1>4, <1>5 DEF Row
<1>9. job' \in [Jobs -> Job \cup {None}]
  <2>1. ASSUME NEW j \in Jobs PROVE job'[j] \in Job \cup {None}
    <3>1. CASE \E k \in ks : who[k] = j
      <4>1. PICK k \in ks : who[k] = j
        BY <3>1
      <4>2. job'[j] = [key |-> k, role |-> role[k[2]]]
        BY <4>1, <1>6
      <4> QED BY <4>2, <1>5 DEF Job
    <3>2. CASE \A k \in ks : who[k] # j
      BY <3>2, <1>4, <1>7
    <3> QED BY <3>1, <3>2
  <2>2. job' = [j \in Jobs |-> job'[j]]
    BY <1>3
  <2> QED BY <2>1, <2>2
<1>10. fresh' \subseteq Jobs
  BY <1>3, <1>4
<1>11. FreshIsIdle'
  BY <1>3, <1>4, <1>7 DEF FreshIsIdle
<1>12. \A k \in Keys \ ks : pending'[k] = pend[k]
  BY <1>3
<1>13. ASSUME NEW k \in ks
       PROVE /\ pending'[k] # None
             /\ job'[pending'[k].by] = [key |-> k, role |-> pending'[k].role]
  <2>1. pending'[k] = [role |-> role[k[2]], by |-> who[k], stale |-> FALSE]
    BY <1>3
  <2>2. pending'[k] \in Row
    BY <2>1, <1>2, <1>4, <1>5 DEF Row
  <2>3. pending'[k] # None
    BY <2>2, NoneAssumption
  <2>4. pending'[k].by = who[k] /\ pending'[k].role = role[k[2]]
    BY <2>1
  <2> QED BY <2>3, <2>4, <1>6
<1>14. ASSUME NEW j \in Jobs, job[j] # None PROVE job'[j] = job[j]
  <2>1. j \notin fresh
    BY <1>14 DEF FreshIsIdle
  <2> QED BY <2>1, <1>2, <1>7
<1> QED BY <1>8, <1>9, <1>10, <1>11, <1>12, <1>13, <1>14

\* Rows keep their threads, and a peer stays pending or attached but not both,
\* when entries only go away and the threads of the rows that stay are not
\* touched.
LEMMA Shrink ==
    ASSUME Inv, Part(pending', pending), Part(runtimes', runtimes),
           \A k \in Keys : pending'[k] # None => job'[pending[k].by] = job[pending[k].by]
    PROVE  RowsAreWorkedOn' /\ OneAttachPerPeer'
<1>1. RowsAreWorkedOn'
  <2> SUFFICES ASSUME NEW k \in Keys, pending'[k] # None
               PROVE  job'[pending'[k].by] = [key |-> k, role |-> pending'[k].role]
    BY DEF RowsAreWorkedOn
  <2>1. pending'[k] = pending[k]
    BY DEF Part
  <2> QED BY <2>1 DEF Inv, RowsAreWorkedOn
<1>2. OneAttachPerPeer'
  BY DEF Inv, OneAttachPerPeer, Part
<1> QED BY <1>1, <1>2

\* The same when threads are started for the keys ks, none of them attached.
LEMMA Grow ==
    ASSUME Inv,
           NEW ks \in SUBSET Keys, NEW peers \in SUBSET Peers,
           NEW role \in [peers -> Roles], \A k \in ks : k[2] \in peers,
           NEW pend \in [Keys -> Row \cup {None}],
           Prepare(ks, role, pend), Part(pend, pending), Part(runtimes', runtimes),
           \A k \in ks : runtimes'[k] = None
    PROVE  RowsAreWorkedOn' /\ OneAttachPerPeer'
<1> USE DEF Inv
<1>1. /\ \A k \in Keys \ ks : pending'[k] = pend[k]
      /\ \A k \in ks : /\ pending'[k] # None
                       /\ job'[pending'[k].by] = [key |-> k, role |-> pending'[k].role]
      /\ \A j \in Jobs : job[j] # None => job'[j] = job[j]
  BY PrepareFacts
<1>2. RowsAreWorkedOn'
  <2> SUFFICES ASSUME NEW k \in Keys, pending'[k] # None
               PROVE  job'[pending'[k].by] = [key |-> k, role |-> pending'[k].role]
    BY DEF RowsAreWorkedOn
  <2>1. CASE k \in ks
    BY <2>1, <1>1
  <2>2. CASE k \notin ks
    <3>1. pending'[k] = pending[k]
      BY <2>2, <1>1 DEF Part
    <3>2. /\ pending[k] \in Row
          /\ job[pending[k].by] = [key |-> k, role |-> pending[k].role]
      BY <3>1 DEF TypeOK, RowsAreWorkedOn
    <3>3. pending[k].by \in Jobs /\ pending[k].role \in Roles
      BY <3>2 DEF Row
    <3>4. [key |-> k, role |-> pending[k].role] \in Job
      BY <3>3 DEF Job
    <3>5. job[pending[k].by] # None
      BY <3>2, <3>4, NoneAssumption
    <3> QED BY <1>1, <3>1, <3>2, <3>3, <3>5
  <2> QED BY <2>1, <2>2
<1>3. OneAttachPerPeer'
  <2> SUFFICES ASSUME NEW k \in Keys, pending'[k] # None PROVE runtimes'[k] = None
    BY DEF OneAttachPerPeer
  <2>1. CASE k \in ks
    BY <2>1
  <2>2. CASE k \notin ks
    <3>1. pending[k] # None
      BY <2>2, <1>1 DEF Part
    <3> QED BY <3>1 DEF Part, OneAttachPerPeer
  <2> QED BY <2>1, <2>2
<1> QED BY <1>2, <1>3
-----------------------------------------------------------------------------
\* attach_text_control_transport_runtime keeps the invariant.
LEMMA AttachInv ==
    ASSUME Inv, NEW peers \in SUBSET Peers, NEW role \in [peers -> Roles], NEW ok \in BOOLEAN,
           Attach(peers, role, ok)
    PROVE  Inv'
<1> USE DEF Inv
<1> DEFINE ks == {<<text.id, p>> : p \in peers}
           start == IF ok THEN attachable(ks) ELSE {}
<1>1. /\ text # None /\ text \in Text /\ text.id \in SessionIds
      /\ runtimes' = reclaim_terminal(ks)
      /\ Prepare(start, role, Reclaimed(ks))
      /\ text' = text /\ next' = next /\ lane' = lane /\ faults' = faults
  BY DEF Attach, TypeOK, Text
<1>2. /\ ks \in SUBSET Keys
      /\ \A k \in ks : k[1] = text.id /\ k[2] \in peers
  BY <1>1 DEF Keys
<1> HIDE DEF ks
<1>3. /\ start \subseteq ks
      /\ \A k \in start : reclaim_terminal(ks)[k] = None
  BY DEF attachable
<1>4. /\ Reclaimed(ks) \in [Keys -> Row \cup {None}]
      /\ Part(Reclaimed(ks), pending)
  BY DropPart DEF Reclaimed, TypeOK
<1>5. /\ reclaim_terminal(ks) \in [Keys -> Runtime \cup {None}]
      /\ Part(reclaim_terminal(ks), runtimes)
  BY DropPart DEF reclaim_terminal, TypeOK
<1> HIDE DEF start
<1>6. RowsAreWorkedOn' /\ OneAttachPerPeer'
  <2>1. start \in SUBSET Keys /\ \A k \in start : k[2] \in peers /\ runtimes'[k] = None
    BY <1>1, <1>2, <1>3
  <2>2. Part(runtimes', runtimes)
    BY <1>1, <1>5
  <2> QED BY Grow, <1>1, <1>4, <2>1, <2>2
<1>7. /\ pending' \in [Keys -> Row \cup {None}]
      /\ job' \in [Jobs -> Job \cup {None}]
      /\ fresh' \subseteq Jobs
      /\ FreshIsIdle'
      /\ \A k \in Keys \ start : pending'[k] = Reclaimed(ks)[k]
  <2>1. start \in SUBSET Keys /\ \A k \in start : k[2] \in peers
    BY <1>2, <1>3
  <2> QED BY PrepareFacts, <1>1, <1>4, <2>1
<1>8. TypeOK'
  BY <1>1, <1>5, <1>7 DEF TypeOK
<1>9. OnlyCurrentSession'
  <2>1. ASSUME NEW k \in Keys, pending'[k] # None \/ runtimes'[k] # None PROVE k[1] = text.id
    <3>1. CASE k \in start
      BY <3>1, <1>2, <1>3
    <3>2. CASE k \notin start
      <4>1. pending[k] # None \/ runtimes[k] # None
        BY <3>2, <2>1, <1>1, <1>4, <1>5, <1>7 DEF Part
      <4> QED BY <4>1 DEF OnlyCurrentSession
    <3> QED BY <3>1, <3>2
  <2> QED BY <2>1, <1>1 DEF OnlyCurrentSession
<1> QED BY <1>6, <1>7, <1>8, <1>9

\* start_text_session keeps the invariant, with a kept and with a new session.
LEMMA StartInv ==
    ASSUME Inv, NEW label \in Labels, NEW probe \in Proofs \cup {"off", "failed"},
           NEW peers \in SUBSET Peers, NEW role \in [peers -> Roles],
           StartTextSession(label, probe, peers, role)
    PROVE  Inv'
<1> USE DEF Inv
<1> DEFINE t == started(label)
           s == IF probe \in Proofs THEN route_proof(t.session, probe) ELSE t.session
           old == Mismatched(t.id)
           pend == Drop(pending, old)
           auto == /\ probe # "off"
                   /\ is_connected(s.state)
                   /\ lane \cap {t.id} = {}
                   /\ \A k \in Keys : Drop(runtimes, old)[k] = None /\ pend[k] = None
           ks == IF auto THEN {<<t.id, p>> : p \in peers} ELSE {}
<1>1. /\ Kept(label) \/ next \in SessionIds
      /\ text' = [t EXCEPT !.session = s]
      /\ next' = IF Kept(label) THEN next ELSE next + 1
      /\ runtimes' = Drop(runtimes, old)
      /\ lane' = lane \cap {t.id}
      /\ Prepare(ks, role, pend)
      /\ faults' = faults
  BY DEF StartTextSession
<1>2. t \in Text
  <2>1. CASE Kept(label)
    <3>1. text \in Text /\ text.session \in Session
      BY <2>1 DEF Kept, TypeOK, Text
    <3>2. begin_signaling(text.session) \in Session
      BY <3>1, SessionOps
    <3>3. t = [text EXCEPT !.session = IF text.session.state = "Idle"
                                       THEN begin_signaling(text.session) ELSE text.session]
      BY <2>1 DEF started
    <3> QED BY <3>1, <3>2, <3>3 DEF Text
  <2>2. CASE ~Kept(label)
    <3>1. t = [id |-> next, label |-> label, session |-> begin_signaling(new)]
      BY <2>2 DEF started
    <3>2. new \in Session
      BY U32Assumption DEF new, Session, TransportSessionState, NoRoute
    <3>3. begin_signaling(new) \in Session
      BY <3>2, SessionOps
    <3> QED BY <3>1, <3>3, <2>2, <1>1 DEF Text
  <2> QED BY <2>1, <2>2
<1>3. s \in Session
  BY <1>2, SessionOps DEF Text
<1> HIDE DEF t, s
<1>4. text' \in Text /\ text'.id = t.id /\ t.id \in SessionIds
  BY <1>1, <1>2, <1>3 DEF Text
<1>5. next' \in 1..MaxSessions + 1
  BY <1>1, NatAssumption DEF TypeOK, SessionIds
<1>6. /\ pend \in [Keys -> Row \cup {None}] /\ Part(pend, pending)
      /\ \A k \in Keys \cap old : pend[k] = None
  BY DropPart DEF TypeOK
<1>7. /\ runtimes' \in [Keys -> Runtime \cup {None}] /\ Part(runtimes', runtimes)
      /\ \A k \in Keys \cap old : runtimes'[k] = None
  BY <1>1, DropPart DEF TypeOK
<1>8. /\ ks \in SUBSET Keys
      /\ \A k \in ks : k[1] = t.id /\ k[2] \in peers
      /\ \A k \in ks : runtimes'[k] = None
  BY <1>1, <1>4 DEF Keys
<1> HIDE DEF ks, pend
<1>9. /\ pending' \in [Keys -> Row \cup {None}]
      /\ job' \in [Jobs -> Job \cup {None}]
      /\ fresh' \subseteq Jobs
      /\ FreshIsIdle'
      /\ \A k \in Keys \ ks : pending'[k] = pend[k]
  BY PrepareFacts, <1>1, <1>6, <1>8
<1>10. RowsAreWorkedOn' /\ OneAttachPerPeer'
  BY Grow, <1>1, <1>6, <1>7, <1>8
<1>11. lane' \subseteq SessionIds
  BY <1>1 DEF TypeOK
<1>12. TypeOK'
  BY <1>1, <1>4, <1>5, <1>7, <1>9, <1>11 DEF TypeOK
<1>13. OnlyCurrentSession'
  <2>1. text' # None
    BY <1>4, NoneAssumption
  <2>2. ASSUME NEW k \in Keys, pending'[k] # None \/ runtimes'[k] # None PROVE k[1] = text'.id
    <3>1. CASE k \in ks
      BY <3>1, <1>4, <1>8
    <3>2. CASE k \notin ks
      <4>1. k \notin old
        BY <3>2, <2>2, <1>6, <1>7, <1>9
      <4> QED BY <4>1, <1>4 DEF Mismatched
    <3> QED BY <3>1, <3>2
  <2>3. lane' \subseteq {text'.id}
    BY <1>1, <1>4
  <2> QED BY <2>1, <2>2, <2>3 DEF OnlyCurrentSession
<1> QED BY <1>9, <1>10, <1>12, <1>13

\* stop_text_session, a restart of the app, the control lane and the pump only
\* take entries away.
LEMMA RemovalInv ==
    ASSUME Inv,
           \/ StopTextSession
           \/ AttachLane
           \/ Restart
           \/ \E routes, peers, closed \in SUBSET Peers, lost \in BOOLEAN :
                 Pump(routes, peers, closed, lost)
    PROVE  Inv'
<1> USE DEF Inv
<1>1. CASE StopTextSession
  <2>1. /\ text \in Text /\ text # None /\ text.session \in Session
        /\ text' = [text EXCEPT !.session = tear_down(text.session)]
        /\ pending' = [k \in Keys |-> None] /\ runtimes' = [k \in Keys |-> None] /\ lane' = {}
        /\ next' = next /\ job' = job /\ fresh' = fresh /\ faults' = faults
    BY <1>1 DEF StopTextSession, TypeOK, Text
  <2>2. text' \in Text
    BY <2>1, SessionOps DEF Text
  <2>3. TypeOK'
    BY <2>1, <2>2 DEF TypeOK
  <2>4. RowsAreWorkedOn' /\ OneAttachPerPeer' /\ OnlyCurrentSession' /\ FreshIsIdle'
    BY <2>1 DEF RowsAreWorkedOn, OneAttachPerPeer, OnlyCurrentSession, FreshIsIdle
  <2> QED BY <2>3, <2>4
<1>2. CASE AttachLane
  <2>1. /\ text \in Text /\ text # None /\ text.id \in SessionIds
        /\ pending' = Drop(pending, KeysOf(text.id)) /\ lane' = lane \cup {text.id}
        /\ text' = text /\ next' = next /\ runtimes' = runtimes /\ job' = job
        /\ fresh' = fresh /\ faults' = faults
    BY <1>2 DEF AttachLane, TypeOK, Text
  <2>2. pending' \in [Keys -> Row \cup {None}] /\ Part(pending', pending)
    BY <2>1, DropPart DEF TypeOK
  <2>3. RowsAreWorkedOn' /\ OneAttachPerPeer'
    <3>1. Part(runtimes', runtimes)
      BY <2>1 DEF Part
    <3> QED BY <2>1, <2>2, <3>1, Shrink
  <2>4. TypeOK'
    BY <2>1, <2>2 DEF TypeOK
  <2>5. OnlyCurrentSession' /\ FreshIsIdle'
    BY <2>1, <2>2 DEF OnlyCurrentSession, FreshIsIdle, Part
  <2> QED BY <2>3, <2>4, <2>5
<1>3. CASE Restart
  <2>1. /\ pending' = [k \in Keys |-> None] /\ runtimes' = [k \in Keys |-> None] /\ lane' = {}
        /\ job' = [j \in Jobs |-> None]
        /\ text' = text /\ next' = next /\ fresh' = fresh /\ faults' \in 0..MaxFaults
    BY <1>3, NatAssumption DEF Restart, Fault, TypeOK
  <2>2. TypeOK'
    BY <2>1 DEF TypeOK
  <2>3. RowsAreWorkedOn' /\ OneAttachPerPeer' /\ OnlyCurrentSession'
    BY <2>1 DEF RowsAreWorkedOn, OneAttachPerPeer, OnlyCurrentSession
  <2>4. FreshIsIdle'
    BY <2>1, <2>2 DEF FreshIsIdle, TypeOK
  <2> QED BY <2>2, <2>3, <2>4
<1>4. ASSUME NEW routes \in SUBSET Peers, NEW peers \in SUBSET Peers, NEW closed \in SUBSET Peers,
             NEW lost \in BOOLEAN, Pump(routes, peers, closed, lost)
      PROVE  Inv'
  <2> DEFINE out == {k \in KeysOf(text.id) : k[2] \notin routes}
             ks == {<<text.id, p>> : p \in peers} \ out
             rows == Drop(pending, out \cup StaleRows(ks))
             dead == {k \in ks : /\ k[2] \in closed
                                 /\ rows[k] = None
                                 /\ runtimes[k] # None
                                 /\ runtimes[k].terminal}
  <2>1. /\ text # None
        /\ pending' = rows
        /\ runtimes' = Drop(runtimes, out \cup dead)
        /\ text' = text /\ next' = next /\ job' = job /\ fresh' = fresh
    BY <1>4 DEF Pump
  <2>2. lane' \subseteq lane /\ faults' \in 0..MaxFaults
    <3>1. IF lost THEN Fault /\ text.id \in lane /\ lane' = lane \ {text.id}
                  ELSE lane' = lane /\ faults' = faults
      BY <1>4 DEF Pump
    <3>2. CASE lost
      BY <3>1, <3>2, NatAssumption DEF Fault, TypeOK
    <3>3. CASE ~lost
      BY <3>1, <3>3 DEF TypeOK
    <3> QED BY <3>2, <3>3
  <2> HIDE DEF out, ks, dead
  <2>3. pending' \in [Keys -> Row \cup {None}] /\ Part(pending', pending)
    BY <2>1, DropPart DEF TypeOK
  <2>4. runtimes' \in [Keys -> Runtime \cup {None}] /\ Part(runtimes', runtimes)
    BY <2>1, DropPart DEF TypeOK
  <2>5. RowsAreWorkedOn' /\ OneAttachPerPeer'
    BY <2>1, <2>3, <2>4, Shrink
  <2>6. TypeOK'
    BY <2>1, <2>2, <2>3, <2>4 DEF TypeOK
  <2>7. OnlyCurrentSession' /\ FreshIsIdle'
    BY <2>1, <2>2, <2>3, <2>4 DEF OnlyCurrentSession, FreshIsIdle, Part
  <2> QED BY <2>5, <2>6, <2>7
<1> QED BY <1>1, <1>2, <1>3, <1>4

\* A thread that ends, and the passing of time, keep the invariant.
LEMMA CompletionInv ==
    ASSUME Inv, NEW j \in Jobs,
           (\E proof \in Proofs : JobInstalled(j, proof)) \/ JobDiscarded(j) \/ JobFailed(j)
    PROVE  Inv'
<1> USE DEF Inv
<1>1. /\ job[j] # None /\ job[j] \in Job /\ job[j].key \in Keys
      /\ job' = [job EXCEPT ![j] = None]
      /\ next' = next /\ lane' = lane /\ fresh' = fresh
  BY DEF JobInstalled, JobDiscarded, JobFailed, Finish, TypeOK, Job
<1>2. job' \in [Jobs -> Job \cup {None}] /\ FreshIsIdle'
  BY <1>1 DEF TypeOK, FreshIsIdle
<1>3. ASSUME NEW k \in Keys, pending[k] # None, k # job[j].key
      PROVE  job'[pending[k].by] = job[pending[k].by]
  <2>1. job[pending[k].by] = [key |-> k, role |-> pending[k].role]
    BY <1>3 DEF RowsAreWorkedOn
  <2>2. pending[k].by # j
    BY <2>1, <1>3
  <2>3. pending[k].by \in Jobs
    BY <1>3 DEF TypeOK, Row
  <2> QED BY <1>1, <2>2, <2>3 DEF TypeOK
<1>4. ASSUME NEW proof \in Proofs, JobInstalled(j, proof)
      PROVE  Inv'
  <2> DEFINE kk == job[j].key
  <2>1. /\ text # None /\ text.id = kk[1] /\ pending[kk] # None
        /\ text' = [text EXCEPT !.session = route_proof(text.session, proof)]
        /\ pending' = [pending EXCEPT ![kk] = None]
        /\ runtimes' = [runtimes EXCEPT ![kk] = [by |-> j, terminal |-> FALSE]]
        /\ faults' = faults
    BY <1>4 DEF JobInstalled, still_current
  <2>2. text' \in Text /\ text'.id = text.id
    BY <2>1, SessionOps DEF TypeOK, Text
  <2>3. /\ pending' \in [Keys -> Row \cup {None}]
        /\ runtimes' \in [Keys -> Runtime \cup {None}]
    BY <2>1, <1>1 DEF TypeOK, Runtime
  <2>4. TypeOK'
    BY <2>1, <2>2, <2>3, <1>1, <1>2 DEF TypeOK
  <2>5. text' # None
    BY <2>2, NoneAssumption
  <2>6. ASSUME NEW k \in Keys, k # kk
        PROVE pending'[k] = pending[k] /\ runtimes'[k] = runtimes[k]
    BY <2>1, <2>6 DEF TypeOK
  <2>7. pending'[kk] = None
    BY <2>1, <1>1 DEF TypeOK
  <2>8. OnlyCurrentSession'
    <3>1. ASSUME NEW k \in Keys, pending'[k] # None \/ runtimes'[k] # None PROVE k[1] = text'.id
      BY <3>1, <2>1, <2>2, <2>6 DEF OnlyCurrentSession
    <3> QED BY <3>1, <2>1, <2>2, <2>5, <1>1 DEF OnlyCurrentSession
  <2>9. RowsAreWorkedOn'
    BY <2>6, <2>7, <1>3 DEF RowsAreWorkedOn
  <2>10. OneAttachPerPeer'
    BY <2>6, <2>7 DEF OneAttachPerPeer
  <2> QED BY <2>4, <2>8, <2>9, <2>10, <1>2
<1>5. CASE JobDiscarded(j)
  <2>1. text' = text /\ pending' = pending /\ runtimes' = runtimes /\ faults' = faults
    BY <1>5 DEF JobDiscarded
  <2>2. ~still_current(job[j])
    BY <1>5 DEF JobDiscarded
  <2>3. pending[job[j].key] = None \/ pending[job[j].key].by # j
    <3>1. SUFFICES ASSUME pending[job[j].key] # None, pending[job[j].key].by = j PROVE FALSE
      OBVIOUS
    <3>2. text # None /\ job[j].key[1] = text.id
      BY <3>1, <1>1 DEF OnlyCurrentSession
    <3>3. job[j] = [key |-> job[j].key, role |-> pending[job[j].key].role]
      BY <3>1, <1>1 DEF RowsAreWorkedOn
    <3>4. job[j].role = pending[job[j].key].role
      BY <3>3
    <3> QED BY <3>1, <3>2, <3>4, <2>2 DEF still_current
  <2>4. RowsAreWorkedOn'
    <3> SUFFICES ASSUME NEW k \in Keys, pending[k] # None
                 PROVE  job'[pending[k].by] = [key |-> k, role |-> pending[k].role]
      BY <2>1 DEF RowsAreWorkedOn
    <3>1. pending[k].by # j
      <4>1. job[pending[k].by] = [key |-> k, role |-> pending[k].role]
        BY DEF RowsAreWorkedOn
      <4> QED BY <4>1, <2>3
    <3>2. pending[k].by \in Jobs
      BY DEF TypeOK, Row
    <3> QED BY <3>1, <3>2, <1>1 DEF RowsAreWorkedOn, TypeOK
  <2>5. TypeOK'
    BY <2>1, <1>1, <1>2 DEF TypeOK
  <2>6. OnlyCurrentSession' /\ OneAttachPerPeer'
    BY <2>1, <1>1 DEF OnlyCurrentSession, OneAttachPerPeer
  <2> QED BY <2>4, <2>5, <2>6, <1>2
<1>6. CASE JobFailed(j)
  <2>1. /\ pending' = [pending EXCEPT ![job[j].key] = None]
        /\ text' = text /\ runtimes' = runtimes
    BY <1>6 DEF JobFailed
  <2>2. faults' \in 0..MaxFaults
    BY <1>6, NatAssumption DEF JobFailed, Fault, TypeOK
  <2>3. pending' \in [Keys -> Row \cup {None}] /\ Part(pending', pending)
    BY <2>1 DEF TypeOK, Part
  <2>4. Part(runtimes', runtimes)
    BY <2>1 DEF Part
  <2>5. ASSUME NEW k \in Keys, pending'[k] # None
        PROVE job'[pending[k].by] = job[pending[k].by]
    <3>1. k # job[j].key /\ pending[k] # None
      BY <2>1, <2>5, <1>1 DEF TypeOK
    <3> QED BY <3>1, <1>3
  <2>6. RowsAreWorkedOn' /\ OneAttachPerPeer'
    BY <2>3, <2>4, <2>5, Shrink
  <2>7. TypeOK'
    BY <2>1, <2>2, <2>3, <1>1, <1>2 DEF TypeOK
  <2>8. OnlyCurrentSession'
    BY <2>1, <2>3, <1>1 DEF OnlyCurrentSession, Part
  <2> QED BY <2>6, <2>7, <2>8, <1>2
<1> QED BY <1>4, <1>5, <1>6

\* A row that expires or a channel that closes changes a flag only.
LEMMA FlagInv ==
    ASSUME Inv, NEW k \in Keys, RowExpires(k) \/ ChannelDies(k)
    PROVE  Inv'
<1> USE DEF Inv
<1>1. CASE RowExpires(k)
  <2>1. /\ pending[k] # None /\ pending' = [pending EXCEPT ![k].stale = TRUE]
        /\ text' = text /\ next' = next /\ runtimes' = runtimes /\ lane' = lane
        /\ job' = job /\ fresh' = fresh
    BY <1>1 DEF RowExpires
  <2>2. faults' \in 0..MaxFaults
    BY <1>1, NatAssumption DEF RowExpires, Fault, TypeOK
  <2>3. pending[k] \in Row
    BY <2>1 DEF TypeOK
  <2>4. /\ pending'[k] \in Row
        /\ pending'[k].by = pending[k].by /\ pending'[k].role = pending[k].role
    BY <2>1, <2>3 DEF TypeOK, Row
  <2>5. ASSUME NEW l \in Keys, l # k PROVE pending'[l] = pending[l]
    BY <2>1, <2>5 DEF TypeOK
  <2>6. pending' \in [Keys -> Row \cup {None}]
    BY <2>1, <2>4, <2>5 DEF TypeOK
  <2>7. TypeOK'
    BY <2>1, <2>2, <2>6 DEF TypeOK
  <2>8. OnlyCurrentSession' /\ OneAttachPerPeer' /\ FreshIsIdle'
    BY <2>1, <2>5 DEF OnlyCurrentSession, OneAttachPerPeer, FreshIsIdle
  <2>9. RowsAreWorkedOn'
    BY <2>1, <2>4, <2>5 DEF RowsAreWorkedOn
  <2> QED BY <2>7, <2>8, <2>9
<1>2. CASE ChannelDies(k)
  <2>1. /\ runtimes[k] # None /\ runtimes' = [runtimes EXCEPT ![k].terminal = TRUE]
        /\ text' = text /\ next' = next /\ pending' = pending /\ lane' = lane
        /\ job' = job /\ fresh' = fresh
    BY <1>2 DEF ChannelDies
  <2>2. faults' \in 0..MaxFaults
    BY <1>2, NatAssumption DEF ChannelDies, Fault, TypeOK
  <2>3. runtimes[k] \in Runtime
    BY <2>1 DEF TypeOK
  <2>4. runtimes'[k] \in Runtime
    BY <2>1, <2>3 DEF TypeOK, Runtime
  <2>5. ASSUME NEW l \in Keys, l # k PROVE runtimes'[l] = runtimes[l]
    BY <2>1, <2>5 DEF TypeOK
  <2>6. runtimes' \in [Keys -> Runtime \cup {None}]
    BY <2>1, <2>4, <2>5 DEF TypeOK
  <2>7. TypeOK'
    BY <2>1, <2>2, <2>6 DEF TypeOK
  <2>8. OnlyCurrentSession' /\ OneAttachPerPeer' /\ FreshIsIdle'
    BY <2>1, <2>5 DEF OnlyCurrentSession, OneAttachPerPeer, FreshIsIdle
  <2>9. RowsAreWorkedOn'
    BY <2>1 DEF RowsAreWorkedOn
  <2> QED BY <2>7, <2>8, <2>9
<1> QED BY <1>1, <1>2
-----------------------------------------------------------------------------
\* The invariant holds from the start of the app and is kept by every step.
THEOREM Invariance == Spec => []Inv
<1>1. Init => Inv
  <2> SUFFICES ASSUME Init PROVE Inv
    OBVIOUS
  <2>1. TypeOK
    BY NatAssumption DEF Init, TypeOK
  <2>2. OnlyCurrentSession /\ RowsAreWorkedOn /\ OneAttachPerPeer /\ FreshIsIdle
    BY DEF Init, OnlyCurrentSession, RowsAreWorkedOn, OneAttachPerPeer, FreshIsIdle
  <2> QED BY <2>1, <2>2 DEF Inv
<1>2. Inv /\ [Next]_vars => Inv'
  <2> SUFFICES ASSUME Inv, [Next]_vars PROVE Inv'
    OBVIOUS
  <2>1. CASE Start
    BY <2>1, StartInv DEF Start
  <2>2. CASE StopTextSession \/ AttachLane \/ Restart
    BY <2>2, RemovalInv
  <2>3. CASE Reattach
    BY <2>3, AttachInv DEF Reattach
  <2>4. CASE Completion
    BY <2>4, CompletionInv DEF Completion
  <2>5. CASE Pumping
    <3>1. PICK routes \in SUBSET Peers : \E peers \in SUBSET routes :
             \E closed \in SUBSET peers, lost \in BOOLEAN : Pump(routes, peers, closed, lost)
      BY <2>5 DEF Pumping
    <3>2. PICK peers \in SUBSET routes :
             \E closed \in SUBSET peers, lost \in BOOLEAN : Pump(routes, peers, closed, lost)
      BY <3>1
    <3>3. PICK closed \in SUBSET peers, lost \in BOOLEAN : Pump(routes, peers, closed, lost)
      BY <3>2
    <3>4. peers \in SUBSET Peers /\ closed \in SUBSET Peers
      OBVIOUS
    <3> QED BY <3>3, <3>4, RemovalInv
  <2>6. CASE \E k \in Keys : RowExpires(k) \/ ChannelDies(k)
    BY <2>6, FlagInv
  <2>7. CASE UNCHANGED vars
    BY <2>7 DEF vars, Inv, TypeOK, OnlyCurrentSession, RowsAreWorkedOn, OneAttachPerPeer, FreshIsIdle
  <2> QED BY <2>1, <2>2, <2>3, <2>4, <2>5, <2>6, <2>7 DEF Next, Environment
<1> QED BY <1>1, <1>2, PTL DEF Spec

\* Every variable keeps its type.
THEOREM TypeCorrect == Spec => []TypeOK
BY Invariance, PTL DEF Inv

\* Rows, runtimes and control lanes belong to the session in the slot, whatever
\* late attach threads, restarts and session changes do.
THEOREM CurrentSessionOnly == Spec => []OnlyCurrentSession
BY Invariance, PTL DEF Inv

\* A pending row is being worked on by the thread that made it.
THEOREM RowsHaveThreads == Spec => []RowsAreWorkedOn
BY Invariance, PTL DEF Inv

\* A peer is never pending and attached at once.
THEOREM OneAttach == Spec => []OneAttachPerPeer
BY Invariance, PTL DEF Inv

\* A runtime is never replaced by the runtime of another attach thread.
THEOREM RuntimesAreNotReplaced == Spec => NoReplacement
<1> DEFINE Keeps == \A k \in Keys : runtimes[k] # None /\ runtimes'[k] # None
                                       => runtimes'[k].by = runtimes[k].by
<1>1. Inv /\ [Next]_vars => [Keeps]_vars
  <2> SUFFICES ASSUME Inv, [Next]_vars, NEW k \in Keys, runtimes[k] # None, runtimes'[k] # None
               PROVE  runtimes'[k].by = runtimes[k].by
    OBVIOUS
  <2> USE DEF Inv
  <2>0. SUFFICES \/ runtimes'[k] = runtimes[k]
                 \/ runtimes'[k].by = runtimes[k].by
    OBVIOUS
  <2>1. CASE Start
    <3>1. \E gone : runtimes' = Drop(runtimes, gone)
      BY <2>1 DEF Start, StartTextSession
    <3> QED BY <3>1, DropPart DEF Part
  <2>2. CASE StopTextSession \/ AttachLane \/ Restart
    BY <2>2 DEF StopTextSession, AttachLane, Restart
  <2>3. CASE Reattach
    <3>1. \E gone : runtimes' = Drop(runtimes, gone)
      BY <2>3 DEF Reattach, Attach, reclaim_terminal
    <3> QED BY <3>1, DropPart DEF Part
  <2>4. CASE Completion
    <3>1. PICK j \in Jobs : \/ \E proof \in Proofs : JobInstalled(j, proof)
                            \/ JobDiscarded(j)
                            \/ JobFailed(j)
      BY <2>4 DEF Completion
    <3>2. CASE JobDiscarded(j) \/ JobFailed(j)
      BY <3>2 DEF JobDiscarded, JobFailed
    <3>3. ASSUME NEW proof \in Proofs, JobInstalled(j, proof)
          PROVE  runtimes'[k] = runtimes[k]
      <4>1. pending[job[j].key] # None /\ job[j].key \in Keys
        BY <3>3 DEF JobInstalled, still_current, TypeOK, Job
      <4>2. k # job[j].key
        BY <4>1 DEF OneAttachPerPeer
      <4> QED BY <3>3, <4>2 DEF JobInstalled, TypeOK
    <3> QED BY <3>1, <3>2, <3>3
  <2>5. CASE Pumping
    <3>1. \E gone : runtimes' = Drop(runtimes, gone)
      BY <2>5 DEF Pumping, Pump
    <3> QED BY <3>1, DropPart DEF Part
  <2>6. CASE \E l \in Keys : RowExpires(l) \/ ChannelDies(l)
    <3>1. PICK l \in Keys : RowExpires(l) \/ ChannelDies(l)
      BY <2>6
    <3>2. CASE RowExpires(l)
      BY <3>2 DEF RowExpires
    <3>3. CASE ChannelDies(l)
      <4>1. runtimes[l] \in Runtime
        BY <3>3 DEF ChannelDies, TypeOK
      <4> QED BY <3>3, <4>1 DEF ChannelDies, TypeOK, Runtime
    <3> QED BY <3>1, <3>2, <3>3
  <2>7. CASE UNCHANGED vars
    BY <2>7 DEF vars
  <2> QED BY <2>1, <2>2, <2>3, <2>4, <2>5, <2>6, <2>7 DEF Next, Environment
<1> QED BY <1>1, Invariance, PTL DEF Spec, NoReplacement

\* The ids handed out are behind next_sequence, so a session that takes the slot
\* of a stopped one has another id.
IdsAreSpent == text # None => text.id < next

\* start_transport_session keeps the session it finds or takes the next id.
LEMMA OnlyStartsTakeTheSlot ==
    ASSUME TypeOK, NEW label, NEW probe, NEW peers, NEW role,
           StartTextSession(label, probe, peers, role)
    PROVE  \/ /\ Kept(label) /\ text # None
              /\ text'.id = text.id /\ next' = next
           \/ ~Kept(label) /\ text'.id = next /\ next' = next + 1
<1>1. CASE Kept(label)
  <2>1. text \in Text /\ text # None
    BY <1>1 DEF Kept, TypeOK
  <2>2. started(label).id = text.id
    BY <1>1, <2>1 DEF started, Text
  <2>3. started(label) \in [id : SessionIds, label : Labels, session : {started(label).session}]
    BY <1>1, <2>1 DEF started, Text
  <2>4. text'.id = started(label).id /\ next' = next
    BY <1>1, <2>3 DEF StartTextSession
  <2> QED BY <1>1, <2>1, <2>2, <2>4
<1>2. CASE ~Kept(label)
  <2>1. started(label) = [id |-> next, label |-> label, session |-> begin_signaling(new)]
    BY <1>2 DEF started
  <2>2. text'.id = next /\ next' = next + 1
    BY <1>2, <2>1 DEF StartTextSession
  <2> QED BY <1>2, <2>2
<1> QED BY <1>1, <1>2

\* Nothing but a start gives out an id.
LEMMA SpentIds == Spec => []IdsAreSpent
<1>1. Init => IdsAreSpent
  BY DEF Init, IdsAreSpent
<1>2. Inv /\ IdsAreSpent /\ [Next]_vars => IdsAreSpent'
  <2> SUFFICES ASSUME Inv, IdsAreSpent, [Next]_vars PROVE IdsAreSpent'
    OBVIOUS
  <2>0. TypeOK /\ next \in Nat /\ (text # None => text.id \in Nat)
    BY NatAssumption DEF Inv, TypeOK, Text, SessionIds
  <2>1. CASE Start
    <3>1. PICK label, probe, peers, role : StartTextSession(label, probe, peers, role)
      BY <2>1 DEF Start
    <3>2. \/ text # None /\ text'.id = text.id /\ next' = next
          \/ text'.id = next /\ next' = next + 1
      BY <2>0, <3>1, OnlyStartsTakeTheSlot
    <3> QED BY <2>0, <3>2 DEF IdsAreSpent
  <2>2. CASE StopTextSession
    <3>1. text \in Text /\ next' = next /\ text' = [text EXCEPT !.session = tear_down(@)]
      BY <2>0, <2>2 DEF StopTextSession, TypeOK
    <3>2. text'.id = text.id
      BY <3>1 DEF Text
    <3>3. text # None
      BY <3>1, NoneAssumption
    <3> QED BY <3>1, <3>2, <3>3 DEF IdsAreSpent
  <2>3. CASE Completion
    <3>1. PICK j \in Jobs : \/ \E proof \in Proofs : JobInstalled(j, proof)
                            \/ JobDiscarded(j)
                            \/ JobFailed(j)
      BY <2>3 DEF Completion
    <3>2. CASE JobDiscarded(j) \/ JobFailed(j)
      BY <3>2 DEF JobDiscarded, JobFailed, Finish, IdsAreSpent
    <3>3. ASSUME NEW proof \in Proofs, JobInstalled(j, proof) PROVE IdsAreSpent'
      <4>1. /\ text \in Text /\ next' = next /\ text # None
            /\ text' = [text EXCEPT !.session = route_proof(@, proof)]
        BY <2>0, <3>3 DEF JobInstalled, still_current, Finish, TypeOK
      <4>2. text'.id = text.id
        BY <4>1 DEF Text
      <4> QED BY <4>1, <4>2 DEF IdsAreSpent
    <3> QED BY <3>1, <3>2, <3>3
  <2>4. CASE AttachLane \/ Reattach \/ Pumping \/ Environment \/ UNCHANGED vars
    <3>1. text' = text /\ next' = next
      BY <2>4 DEF AttachLane, Reattach, Attach, Pumping, Pump, Environment, RowExpires,
         ChannelDies, Restart, vars
    <3> QED BY <3>1 DEF IdsAreSpent
  <2> QED BY <2>1, <2>2, <2>3, <2>4 DEF Next
<1> QED BY <1>1, <1>2, Invariance, PTL DEF Spec

\* No transition that a route proof asks for leaves a failed or cancelled session:
\* the selects, begin_ice_gathering and begin_checking are refused there.
LEMMA ProofKeepsStopped ==
    ASSUME NEW s \in Session, s.state \in {"Failed", "Cancelled"}, NEW proof \in Proofs
    PROVE  route_proof(s, proof) = s
<1>1. progress(s) = s
  BY DEF progress, begin_checking, begin_ice_gathering, from
<1>2. CASE proof \in {"incomplete", "none"}
  BY <1>1, <1>2 DEF route_proof, fail_direct_path_turn_required, from, TransportRoute
<1>3. CASE proof \in TransportRoute
  <2>1. route_proof(s, proof) = IF s.state = proof THEN s ELSE select_route(progress(s), proof)
    BY <1>3 DEF route_proof, TransportRoute
  <2> QED BY <1>1, <2>1 DEF select_route, from
<1> QED BY <1>2, <1>3 DEF Proofs, TransportRoute

\* A stopped or failed session is never revived: not by a thread that was
\* connecting when it was stopped, not by a reattach, not by a start.
THEOREM StoppedSessionsStayStopped == Spec => StoppedStaysStopped
<1> DEFINE Stays == text # None /\ text.session.state \in {"Failed", "Cancelled"} =>
                        text'.session = text.session \/ text'.id # text.id
<1>1. Inv /\ IdsAreSpent /\ [Next]_vars => [Stays]_text
  <2> SUFFICES ASSUME Inv, IdsAreSpent, [Next]_vars, text # None,
                      text.session.state \in {"Failed", "Cancelled"}
               PROVE  text'.session = text.session \/ text'.id # text.id
    OBVIOUS
  <2>0. TypeOK /\ text \in Text /\ text.session \in Session /\ text.id < next
        /\ text.id \in Nat /\ next \in Nat
    BY NatAssumption DEF Inv, TypeOK, Text, SessionIds, IdsAreSpent
  <2>1. CASE Start
    <3>1. PICK label, probe, peers, role : StartTextSession(label, probe, peers, role)
      BY <2>1 DEF Start
    <3>2. ~Kept(label)
      BY DEF Kept
    <3>3. text'.id = next
      BY <2>0, <3>1, <3>2, OnlyStartsTakeTheSlot
    <3> QED BY <2>0, <3>3
  <2>2. CASE StopTextSession
    BY <2>2 DEF StopTextSession
  <2>3. CASE Completion
    <3>1. PICK j \in Jobs : \/ \E proof \in Proofs : JobInstalled(j, proof)
                            \/ JobDiscarded(j)
                            \/ JobFailed(j)
      BY <2>3 DEF Completion
    <3>2. CASE JobDiscarded(j) \/ JobFailed(j)
      BY <3>2 DEF JobDiscarded, JobFailed
    <3>3. ASSUME NEW proof \in Proofs, JobInstalled(j, proof)
          PROVE  text'.session = text.session
      <4>1. text' = [text EXCEPT !.session = route_proof(text.session, proof)]
        BY <3>3 DEF JobInstalled
      <4>2. route_proof(text.session, proof) = text.session
        BY <2>0, ProofKeepsStopped
      <4> QED BY <2>0, <4>1, <4>2 DEF Text
    <3> QED BY <3>1, <3>2, <3>3
  <2>4. CASE AttachLane \/ Reattach \/ Pumping \/ Environment \/ UNCHANGED vars
    BY <2>4 DEF AttachLane, Reattach, Attach, Pumping, Pump, Environment, RowExpires,
       ChannelDies, Restart, vars
  <2> QED BY <2>1, <2>2, <2>3, <2>4 DEF Next
<1> QED BY <1>1, Invariance, SpentIds, PTL DEF Spec, StoppedStaysStopped
=============================================================================
