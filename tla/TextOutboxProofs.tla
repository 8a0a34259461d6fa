-------------------------- MODULE TextOutboxProofs --------------------------
(***************************************************************************)
(* Proofs about TextOutbox, for any number of messages, peers, epochs and   *)
(* faults: what the sender is shown about a delivery is true, and the       *)
(* outbox implements TextDelivery.                                          *)
(***************************************************************************)
EXTENDS TextOutbox, TLAPS

\* Nothing is in flight, or stored, that was not queued; a receipt in flight was
\* issued by a peer that has stored the message.
FlightsAreTrue ==
    \A p \in Peers :
        /\ toPeer[p] \subseteq Queued
        /\ stored[p] \subseteq Queued
        /\ toSender[p] \subseteq stored[p]

\* A receipt that was counted is never dropped again from a settled message.
Settled ==
    \A m \in Messages :
        /\ \A p \in outbox[m].receipted : m \in stored[p]
        /\ mstate[m] = "peer_receipt" =>
              outbox[m].expected # {} /\ outbox[m].expected \subseteq outbox[m].receipted

IInv == TypeOK /\ FlightsAreTrue /\ Settled

LEMMA InitIInv == Init => IInv
<1>1. SUFFICES ASSUME Init PROVE IInv
  OBVIOUS
<1>2. TypeOK
  BY <1>1, BoundsAssumption DEF Init, TypeOK, NoRecord, Record
<1>3. FlightsAreTrue
  BY <1>1 DEF Init, FlightsAreTrue
<1>4. Settled
  BY <1>1 DEF Init, Settled, NoRecord
<1> QED
  BY <1>2, <1>3, <1>4 DEF IInv

\* What the operations on a record do to it: they keep its type, its presence,
\* and (but for refresh of an empty set) its expected peers.
LEMMA RefreshFacts ==
  ASSUME NEW r \in Record, NEW current \in SUBSET Peers, r.state # "absent"
  PROVE  LET q == refresh(r, current)
         IN  /\ q \in Record
             /\ q.state # "absent"
             /\ r.expected # {} => q.expected = r.expected
             /\ q.expected \in {r.expected, current}
             /\ q.receipted \subseteq r.receipted
             /\ r.expected \subseteq r.receipted /\ r.expected # {} => q.expected \subseteq q.receipted
  BY KindAssumption, ZenonT(60) DEF refresh, prune, all_receipted, Record

LEMMA RefreshExpected ==
  ASSUME NEW r \in Record, NEW current \in SUBSET Peers
  PROVE  refresh(r, current).expected =
            IF r.expected = {} /\ (Kind = "channel" \/ r.state = "pending") THEN current ELSE r.expected
<1>1. \A e : prune(r, e, current).expected = e
  BY DEF prune, Record
<1>2. CASE Kind = "channel"
  BY <1>1, <1>2 DEF refresh, prune, Record
<1>3. CASE Kind = "dm"
  BY <1>1, <1>3 DEF refresh
<1> QED
  BY <1>2, <1>3, KindAssumption

LEMMA CleanupFacts ==
  ASSUME NEW r \in Record, NEW current \in SUBSET Peers, r.state # "absent"
  PROVE  LET q == cleanup(r, current)
         IN  /\ q \in Record
             /\ q.state # "absent"
             /\ q.expected = r.expected
             /\ q.receipted \subseteq r.receipted
             /\ r.expected \subseteq r.receipted => q.expected \subseteq q.receipted
  BY ZenonT(60) DEF cleanup, all_receipted, Record

LEMMA MarkSentFacts ==
  ASSUME NEW r \in Record, NEW ps \in SUBSET Peers, r.state # "absent"
  PROVE  LET q == mark_sent(r, ps)
         IN  /\ q \in Record
             /\ q.state # "absent"
             /\ q.expected = r.expected
             /\ q.receipted = r.receipted
  BY ZenonT(60) DEF mark_sent, Record

LEMMA RecordReceiptFacts ==
  ASSUME NEW r \in Record, NEW p \in Peers
  PROVE  LET q == record_receipt(r, p)
         IN  /\ q \in Record
             /\ q.state # "absent"
             /\ q.expected = r.expected
             /\ q.receipted = r.receipted \cup {p}
  BY ZenonT(60) DEF record_receipt, all_receipted, Record

LEMMA FanoutFacts ==
  ASSUME TypeOK, NEW fanout \in Fanouts, NEW p \in Peers
  PROVE  fanout[p] \subseteq Queued
<1>1. \A batch \in batches(p) : batch \subseteq Queued
  BY DEF batches, eligible, unscoped
<1> QED
  BY <1>1 DEF Fanouts

\* Every step keeps the inductive invariant.
LEMMA NextIInv == IInv /\ [Next]_vars => IInv'
<1> SUFFICES ASSUME IInv, [Next]_vars PROVE IInv'
  OBVIOUS
<1> USE DEF IInv
<1>1. ASSUME NEW m \in Messages, SendMessage(m) PROVE IInv'
  <2>1. enqueue(routes) \in Record /\ enqueue(routes).state = "pending"
        /\ enqueue(routes).receipted = {}
    BY DEF TypeOK, Record, enqueue
  <2>2. TypeOK'
    BY <1>1, <2>1 DEF SendMessage, Write, TypeOK, network, peers
  <2>3. FlightsAreTrue'
    BY <1>1, <2>1 DEF SendMessage, Write, TypeOK, FlightsAreTrue, Queued, network, peers
  <2>4. Settled'
    BY <1>1, <2>1 DEF SendMessage, Write, TypeOK, Settled, network, peers
  <2> QED
    BY <2>2, <2>3, <2>4
<1>2. ASSUME NEW p \in Peers, Presence(p) PROVE IInv'
  <2>1. routes' \in SUBSET Peers
    BY <1>2 DEF Presence, TypeOK
  <2>2. \A m \in Messages :
           /\ outbox'[m] \in Record
           /\ outbox'[m].state = "absent" <=> outbox[m].state = "absent"
           /\ outbox[m].expected # {} => outbox'[m].expected = outbox[m].expected
           /\ outbox'[m].receipted \subseteq outbox[m].receipted
           /\ outbox[m].expected \subseteq outbox[m].receipted /\ outbox[m].expected # {}
                 => outbox'[m].expected \subseteq outbox'[m].receipted
    BY <1>2, <2>1, RefreshFacts DEF Presence, TypeOK, Queued
  <2>3. TypeOK'
    BY <1>2, <2>1, <2>2, ZenonT(60) DEF Presence, TypeOK, peers
  <2>4. FlightsAreTrue'
    BY <1>2, <2>2, ZenonT(60) DEF Presence, FlightsAreTrue, Queued, peers
  <2>5. Settled'
    BY <1>2, <2>2, ZenonT(60) DEF Presence, Settled, peers, TypeOK
  <2> QED
    BY <2>3, <2>4, <2>5
<1>3. ASSUME NEW p \in Peers, LeaseExpires(p) PROVE IInv'
  BY <1>3 DEF LeaseExpires, Fault, TypeOK, FlightsAreTrue, Settled, Queued, sender, peers
<1>4. ASSUME NEW p \in Peers, Attach(p) PROVE IInv'
  BY <1>4 DEF Attach, TypeOK, FlightsAreTrue, Settled, Queued, sender, peers
<1>5. ASSUME NEW p \in Peers, LinkBreaks(p) PROVE IInv'
  BY <1>5 DEF LinkBreaks, Fault, TypeOK, FlightsAreTrue, Settled, Queued, sender, peers
<1>6. ASSUME NEW current \in SUBSET Peers,
             outbox' = [m \in Messages |->
                          IF m \in Queued THEN cleanup(outbox[m], current) ELSE outbox[m]]
      PROVE  \A m \in Messages :
           /\ outbox'[m] \in Record
           /\ outbox'[m].state = "absent" <=> outbox[m].state = "absent"
           /\ outbox'[m].expected = outbox[m].expected
           /\ outbox'[m].receipted \subseteq outbox[m].receipted
           /\ outbox[m].expected \subseteq outbox[m].receipted
                 => outbox'[m].expected \subseteq outbox'[m].receipted
  BY <1>6, CleanupFacts DEF TypeOK, Queued
<1>7. ASSUME CleanUp PROVE IInv'
  <2>1. routes \in SUBSET Peers /\ outbox' = [m \in Messages |->
                          IF m \in Queued THEN cleanup(outbox[m], routes) ELSE outbox[m]]
    BY <1>7 DEF CleanUp, TypeOK
  <2>2. TypeOK'
    BY <1>6, <1>7, <2>1, ZenonT(60) DEF CleanUp, TypeOK, peers
  <2>3. FlightsAreTrue'
    BY <1>6, <1>7, <2>1 DEF CleanUp, FlightsAreTrue, Queued, peers
  <2>4. Settled'
    BY <1>6, <1>7, <2>1, ZenonT(60) DEF CleanUp, Settled, TypeOK, peers
  <2> QED
    BY <2>2, <2>3, <2>4
<1>8. ASSUME NEW fanout \in Fanouts, NEW ok \in [Peers -> SUBSET Messages], Pump(fanout, ok)
      PROVE  IInv'
  <2> DEFINE to(m) == {p \in Peers : m \in ok[p]}
  <2>1. \A p \in Peers : ok[p] \subseteq Queued
    BY <1>8, FanoutFacts DEF Pump
  <2>2. \A m \in Messages :
           /\ outbox'[m] \in Record
           /\ outbox'[m].state = "absent" <=> outbox[m].state = "absent"
           /\ outbox'[m].expected = outbox[m].expected
           /\ outbox'[m].receipted = outbox[m].receipted
    <3> SUFFICES ASSUME NEW m \in Messages
                 PROVE  /\ outbox'[m] \in Record
                        /\ outbox'[m].state = "absent" <=> outbox[m].state = "absent"
                        /\ outbox'[m].expected = outbox[m].expected
                        /\ outbox'[m].receipted = outbox[m].receipted
      OBVIOUS
    <3>1. CASE to(m) = {}
      BY <1>8, <3>1 DEF Pump, TypeOK
    <3>2. CASE to(m) # {}
      <4>1. outbox'[m] = mark_sent(outbox[m], to(m))
        BY <1>8, <3>2 DEF Pump
      <4>2. outbox[m] \in Record /\ outbox[m].state # "absent" /\ to(m) \in SUBSET Peers
        BY <2>1, <3>2 DEF TypeOK, Queued
      <4> HIDE DEF to
      <4> QED
        BY <4>1, <4>2, MarkSentFacts
    <3> QED
      BY <3>1, <3>2
  <2>3. \A m \in Messages :
           /\ mstate'[m] \in {"none", "sent_local", "transport_frame_sent", "peer_receipt"}
           /\ mstate'[m] = "peer_receipt" <=> mstate[m] = "peer_receipt"
    BY <1>8 DEF Pump, handed_over, TypeOK
  <2>4. toPeer' = [p \in Peers |-> toPeer[p] \cup ok[p]]
        /\ UNCHANGED <<sealed, epoch, routes, removed, toSender, peers>>
        /\ runtimes' \subseteq Peers
        /\ faults' \in Nat
    BY <1>8 DEF Pump, Fault, TypeOK
  <2>5. mstate' = [m \in Messages |-> mstate'[m]] /\ outbox' = [m \in Messages |-> outbox'[m]]
    BY <1>8 DEF Pump
  <2>6. TypeOK'
    BY <2>2, <2>3, <2>4, <2>5 DEF TypeOK, peers
  <2>7. FlightsAreTrue'
    BY <2>1, <2>2, <2>4 DEF FlightsAreTrue, Queued, peers
  <2>8. Settled'
    BY <2>2, <2>3, <2>4 DEF Settled, peers
  <2> QED
    BY <2>6, <2>7, <2>8
<1>9. ASSUME NEW fanout \in Fanouts, NEW ok \in [Peers -> SUBSET Messages], Crash(fanout, ok)
      PROVE  IInv'
  <2>1. \A p \in Peers : ok[p] \subseteq Queued
    BY <1>9, FanoutFacts DEF Crash
  <2>2. TypeOK'
    BY <1>9 DEF Crash, Fault, Nothing, TypeOK, sender, peers
  <2>3. FlightsAreTrue'
    BY <1>9, <2>1 DEF Crash, Nothing, FlightsAreTrue, Queued, sender, peers
  <2>4. Settled'
    BY <1>9 DEF Crash, Settled, sender, peers
  <2> QED
    BY <2>2, <2>3, <2>4
<1>10. ASSUME NEW p \in Peers, NEW m \in toPeer[p], HandleEnvelope(p, m) PROVE IInv'
  <2>1. TypeOK'
    BY <1>10 DEF HandleEnvelope, TypeOK, sender
  <2>2. FlightsAreTrue'
    BY <1>10 DEF HandleEnvelope, TypeOK, FlightsAreTrue, Queued, sender
  <2>3. Settled'
    <3>1. UNCHANGED <<outbox, mstate>> /\ \A q \in Peers : stored[q] \subseteq stored'[q]
      BY <1>10 DEF HandleEnvelope, TypeOK, sender
    <3>2. \A n \in Messages : outbox[n].receipted \subseteq Peers
      BY DEF TypeOK, Record
    <3> QED
      BY <3>1, <3>2 DEF Settled
  <2> QED
    BY <2>1, <2>2, <2>3
<1>11. ASSUME NEW p \in Peers, NEW m \in toSender[p], HandleReceipt(p, m) PROVE IInv'
  <2>1. CASE receipt_accepted(m, p)
    <3> DEFINE r == record_receipt(outbox[m], p)
    <3>1. m \in Messages /\ m \in stored[p] /\ m \in Queued /\ outbox[m] \in Record
      BY <1>11 DEF TypeOK, FlightsAreTrue
    <3>2. /\ r \in Record /\ r.state # "absent" /\ r.expected = outbox[m].expected
          /\ r.receipted = outbox[m].receipted \cup {p}
      BY <3>1, RecordReceiptFacts
    <3>3. /\ receipted_state(r) \in {"transport_frame_sent", "peer_receipt"}
          /\ receipted_state(r) = "peer_receipt" => r.expected # {} /\ r.expected \subseteq r.receipted
      BY DEF receipted_state, all_receipted
    <3>4. /\ outbox' = [outbox EXCEPT ![m] = r]
          /\ mstate' = [mstate EXCEPT ![m] = receipted_state(r)]
          /\ toSender' = [toSender EXCEPT ![p] = @ \ {m}]
          /\ UNCHANGED <<sealed, epoch, routes, removed, runtimes, toPeer, faults, peers>>
      BY <1>11, <2>1 DEF HandleReceipt
    <3> HIDE DEF r
    <3>5. TypeOK'
      BY <3>1, <3>2, <3>3, <3>4 DEF TypeOK, peers
    <3>6. FlightsAreTrue'
      BY <3>1, <3>2, <3>4 DEF FlightsAreTrue, Queued, TypeOK, peers
    <3>7. Settled'
      BY <3>1, <3>2, <3>3, <3>4 DEF Settled, TypeOK, peers
    <3> QED
      BY <3>5, <3>6, <3>7
  <2>2. CASE ~ receipt_accepted(m, p)
    BY <1>11, <2>2 DEF HandleReceipt, TypeOK, FlightsAreTrue, Settled, Queued, peers
  <2> QED
    BY <2>1, <2>2
<1>12. ASSUME NEW p \in Peers, RemoveMember(p) PROVE IInv'
  <2>1. routes' \in SUBSET Peers /\ outbox' = [m \in Messages |->
                          IF m \in Queued THEN cleanup(outbox[m], routes') ELSE outbox[m]]
    BY <1>12 DEF RemoveMember, Revoke, TypeOK
  <2>2. TypeOK'
    <3>1. epoch' \in Nat /\ removed' \subseteq Peers
      BY <1>12 DEF RemoveMember, Revoke, NextEpoch, TypeOK
    <3> QED
      BY <1>6, <1>12, <2>1, <3>1, ZenonT(60) DEF RemoveMember, Revoke, TypeOK, peers
  <2>3. FlightsAreTrue'
    BY <1>6, <1>12, <2>1, ZenonT(60) DEF RemoveMember, Revoke, FlightsAreTrue, Queued, peers
  <2>4. Settled'
    BY <1>6, <1>12, <2>1, ZenonT(60) DEF RemoveMember, Revoke, Settled, TypeOK, peers
  <2> QED
    BY <2>2, <2>3, <2>4
<1>13. ASSUME SenderEpoch \/ \E p \in Peers : PeerEpoch(p) PROVE IInv'
  BY <1>13 DEF SenderEpoch, NextEpoch, PeerEpoch, TypeOK, FlightsAreTrue, Settled, Queued, sender, network, peers
<1>14. ASSUME NEW m \in Messages, SendUnqueued(m) PROVE IInv'
  BY <1>14 DEF SendUnqueued, Write, TypeOK, FlightsAreTrue, Settled, Queued, network, peers
<1>15. ASSUME NEW p \in Peers, RevokeMember(p) PROVE IInv'
  BY <1>15 DEF RevokeMember, Revoke, NextEpoch, TypeOK, FlightsAreTrue, Settled, Queued, peers
<1>16. CASE UNCHANGED vars
  BY <1>16 DEF vars, TypeOK, FlightsAreTrue, Settled, Queued, sender, network, peers
<1> QED
  BY <1>1, <1>2, <1>3, <1>4, <1>5, <1>7, <1>8, <1>9, <1>10, <1>11, <1>12, <1>13, <1>14,
     <1>15, <1>16 DEF Next

LEMMA SpecIInv == Spec => []IInv
  BY InitIInv, NextIInv, PTL DEF Spec

\* Every variable of the outbox and of its peers keeps its type.
THEOREM TypeCorrect == Spec => []TypeOK
  BY SpecIInv, PTL DEF IInv

\* What the outbox and the timeline say of a delivery is true: a peer counted as
\* having sent a receipt has stored the message, and a message shown with
\* `peer_receipt' (apply_text_delivery_receipt_for_route) is stored by all
\* expected peers.
THEOREM ReceiptsTrue == Spec => []ReceiptsAreTrue
<1>1. IInv => ReceiptsAreTrue
  BY DEF IInv, Settled, ReceiptsAreTrue
<1> QED
  BY <1>1, SpecIInv, PTL

-----------------------------------------------------------------------------
(* The records stay consistent                                              *)

Consistent(r) ==
    /\ r.sent \subseteq r.route /\ r.route \subseteq r.expected
    /\ r.receipted \subseteq r.expected
    /\ r.state = "receipted" => r.expected # {} /\ r.expected \subseteq r.receipted
    /\ r.state = "closed_route" => r.route = {}

LEMMA OperationsConsistent ==
  ASSUME NEW r \in Record, NEW current \in SUBSET Peers, Consistent(r)
  PROVE  /\ Consistent(refresh(r, current))
         /\ Consistent(cleanup(r, current))
         /\ Consistent(mark_sent(r, current))
         /\ \A p \in r.expected : Consistent(record_receipt(r, p))
<1>1. Consistent(refresh(r, current))
  BY KindAssumption DEF Consistent, refresh, prune, all_receipted, Record
<1>2. Consistent(cleanup(r, current))
  BY DEF Consistent, cleanup, all_receipted, Record
<1>3. Consistent(mark_sent(r, current))
  BY DEF Consistent, mark_sent, Record
<1>4. \A p \in r.expected : Consistent(record_receipt(r, p))
  BY DEF Consistent, record_receipt, all_receipted, Record
<1> QED
  BY <1>1, <1>2, <1>3, <1>4

\* A handoff is recorded only on a live route, a route is live only if it was
\* expected, and a record leaves the pump only when every expected peer has sent
\* its receipt.
THEOREM RecordsStayConsistent == Spec => []RecordsConsistent
<1> DEFINE AllConsistent == \A m \in Messages : Consistent(outbox[m])
<1>1. Init => AllConsistent
  BY DEF Init, NoRecord, Consistent
<1>2. IInv /\ AllConsistent /\ [Next]_vars => AllConsistent'
  <2> SUFFICES ASSUME IInv, AllConsistent, [Next]_vars, NEW m \in Messages
               PROVE  Consistent(outbox'[m])
    OBVIOUS
  <2>1. outbox[m] \in Record /\ Consistent(outbox[m]) /\ routes \in SUBSET Peers
    BY DEF IInv, TypeOK
  <2>2. ASSUME NEW n \in Messages, SendMessage(n) PROVE Consistent(outbox'[m])
    <3>1. Consistent(enqueue(routes))
      BY DEF Consistent, enqueue
    <3> QED
      BY <2>1, <2>2, <3>1 DEF SendMessage, IInv, TypeOK
  <2>3. ASSUME NEW p \in Peers, Presence(p) PROVE Consistent(outbox'[m])
    <3>1. routes' \in SUBSET Peers
      BY <2>1, <2>3 DEF Presence
    <3> QED
      BY <2>1, <2>3, <3>1, OperationsConsistent DEF Presence
  <2>4. ASSUME CleanUp \/ \E p \in Peers : RemoveMember(p) PROVE Consistent(outbox'[m])
    <3>1. PICK current \in SUBSET Peers : outbox' = [n \in Messages |->
             IF n \in Queued THEN cleanup(outbox[n], current) ELSE outbox[n]]
      BY <2>1, <2>4 DEF CleanUp, RemoveMember, Revoke
    <3> QED
      BY <2>1, <3>1, OperationsConsistent
  <2>5. ASSUME NEW fanout \in Fanouts, NEW ok \in [Peers -> SUBSET Messages], Pump(fanout, ok)
        PROVE  Consistent(outbox'[m])
    <3> DEFINE to == {p \in Peers : m \in ok[p]}
    <3>1. CASE to = {}
      BY <2>1, <2>5, <3>1 DEF Pump
    <3>2. CASE to # {}
      <4>1. outbox'[m] = mark_sent(outbox[m], to)
        BY <2>5, <3>2 DEF Pump
      <4>2. to \in SUBSET Peers
        BY <3>2
      <4> HIDE DEF to
      <4> QED
        BY <2>1, <4>1, <4>2, OperationsConsistent
    <3> QED
      BY <3>1, <3>2
  <2>6. ASSUME NEW p \in Peers, NEW n \in toSender[p], HandleReceipt(p, n)
        PROVE  Consistent(outbox'[m])
    <3>1. CASE receipt_accepted(n, p) /\ n = m
      <4>1. outbox'[m] = record_receipt(outbox[m], p) /\ p \in outbox[m].expected
        BY <2>1, <2>6, <3>1 DEF HandleReceipt, receipt_accepted, IInv, TypeOK
      <4> QED
        BY <2>1, <4>1, OperationsConsistent
    <3>2. CASE ~ (receipt_accepted(n, p) /\ n = m)
      BY <2>1, <2>6, <3>2 DEF HandleReceipt, IInv, TypeOK
    <3> QED
      BY <3>1, <3>2
  <2>7. CASE UNCHANGED outbox
    BY <2>1, <2>7
  <2> QED
    BY <2>2, <2>3, <2>4, <2>5, <2>6, <2>7
    DEF Next, SendUnqueued, LeaseExpires, Attach, LinkBreaks, Crash, HandleEnvelope, RevokeMember,
        SenderEpoch, PeerEpoch, vars, sender
<1>3. AllConsistent => RecordsConsistent
  BY DEF RecordsConsistent, Consistent, Queued
<1> QED
  BY <1>1, <1>2, <1>3, SpecIInv, PTL DEF Spec

-----------------------------------------------------------------------------
(* The outbox implements TextDelivery                                       *)

audience_ == [m \in Messages |-> outbox[m].expected]
delivered_ == [m \in Messages |-> {p \in Peers : m \in stored[p]}]
confirmed_ == {m \in Messages : mstate[m] = "peer_receipt"}

LEMMA InitPromise == Init => Promise!DInit
  BY DEF Init, NoRecord, Promise!DInit, Queued

\* A step that leaves records present, expected sets, stored messages and
\* receipts shown as they are is a stuttering step of TextDelivery.
LEMMA StutterPromise ==
  ASSUME \A m \in Messages : /\ outbox'[m].state = "absent" <=> outbox[m].state = "absent"
                             /\ outbox'[m].expected = outbox[m].expected
                             /\ mstate'[m] = "peer_receipt" <=> mstate[m] = "peer_receipt",
         UNCHANGED stored
  PROVE  UNCHANGED Promise!dvars
<1>1. Queued' = Queued
  BY DEF Queued
<1>2. UNCHANGED <<audience_, delivered_, confirmed_>>
  BY DEF audience_, delivered_, confirmed_
<1> QED
  BY <1>1, <1>2 DEF Promise!dvars, audience_, delivered_, confirmed_

LEMMA StepPromise == IInv /\ [Next]_vars => [Promise!DNext]_(Promise!dvars)
<1> SUFFICES ASSUME IInv, [Next]_vars PROVE [Promise!DNext]_(Promise!dvars)
  OBVIOUS
<1>1. ASSUME NEW m \in Messages, SendMessage(m) PROVE Promise!DNext
  <2>1. routes \in SUBSET Peers /\ enqueue(routes).expected = routes /\ enqueue(routes).state = "pending"
    BY DEF IInv, TypeOK, enqueue
  <2>2. Queued' = Queued \cup {m} /\ m \notin Queued
    BY <1>1, <2>1 DEF SendMessage, Write, Queued, IInv, TypeOK
  <2>3. audience_' = [audience_ EXCEPT ![m] = routes]
    BY <1>1, <2>1, ZenonT(60) DEF SendMessage, audience_, IInv, TypeOK
  <2>4. delivered_' = delivered_
    BY <1>1 DEF SendMessage, Write, delivered_, peers
  <2>5. confirmed_' = confirmed_
    <3>1. mstate[m] # "peer_receipt"
      BY <1>1 DEF SendMessage, Write
    <3> QED
      BY <1>1, <3>1 DEF SendMessage, Write, confirmed_, IInv, TypeOK
  <2>6. PICK ps \in SUBSET Peers : ps = routes
    BY <2>1
  <2>7. Promise!Queue(m, ps)
    BY <2>2, <2>3, <2>4, <2>5, <2>6 DEF Promise!Queue, audience_, delivered_, confirmed_
  <2> QED
    BY <2>7 DEF Promise!DNext
<1>2. ASSUME NEW p \in Peers, Presence(p) PROVE Promise!DNext
  <2> DEFINE ms == {m \in Queued : outbox[m].expected = {} /\ (Kind = "channel" \/ outbox[m].state = "pending")}
  <2>1. routes' \in SUBSET Peers
    BY <1>2 DEF Presence, IInv, TypeOK
  <2>2. \A m \in Messages :
           /\ outbox'[m].state = "absent" <=> outbox[m].state = "absent"
           /\ outbox'[m].expected = IF m \in ms THEN routes' ELSE outbox[m].expected
    <3> SUFFICES ASSUME NEW m \in Messages
                 PROVE  /\ outbox'[m].state = "absent" <=> outbox[m].state = "absent"
                        /\ outbox'[m].expected = IF m \in ms THEN routes' ELSE outbox[m].expected
      OBVIOUS
    <3>1. outbox[m] \in Record
      BY DEF IInv, TypeOK
    <3>2. CASE m \in Queued
      <4>1. outbox'[m] = refresh(outbox[m], routes')
        BY <1>2, <3>2 DEF Presence
      <4> QED
        BY <2>1, <3>1, <3>2, <4>1, RefreshFacts, RefreshExpected DEF Queued
    <3>3. CASE m \notin Queued
      BY <1>2, <3>3 DEF Presence
    <3> QED
      BY <3>2, <3>3
  <2>3. Queued' = Queued
    BY <2>2 DEF Queued
  <2>4. audience_' = [m \in Messages |-> IF m \in ms THEN routes' ELSE audience_[m]]
    BY <2>2 DEF audience_
  <2>5. UNCHANGED <<delivered_, confirmed_>>
    BY <1>2 DEF Presence, delivered_, confirmed_, peers
  <2>6. ms \in SUBSET Messages /\ ms \subseteq {m \in Queued : audience_[m] = {}}
    BY DEF Queued, audience_
  <2>7. PICK ns \in SUBSET Messages, ps \in SUBSET Peers : ns = ms /\ ps = routes'
    BY <2>1, <2>6, ZenonT(60)
  <2>8. Promise!FixAudience(ns, ps)
    BY <2>3, <2>4, <2>5, <2>6, <2>7 DEF Promise!FixAudience, audience_, delivered_, confirmed_
  <2> QED
    BY <2>8 DEF Promise!DNext
<1>3. ASSUME CleanUp \/ \E p \in Peers : RemoveMember(p) PROVE UNCHANGED Promise!dvars
  <2>1. PICK current \in SUBSET Peers : outbox' = [n \in Messages |->
           IF n \in Queued THEN cleanup(outbox[n], current) ELSE outbox[n]]
    BY <1>3 DEF CleanUp, RemoveMember, Revoke, IInv, TypeOK
  <2>2. \A m \in Messages : /\ outbox'[m].state = "absent" <=> outbox[m].state = "absent"
                            /\ outbox'[m].expected = outbox[m].expected
    BY <2>1, CleanupFacts DEF IInv, TypeOK, Queued
  <2>3. UNCHANGED <<mstate, stored>>
    BY <1>3 DEF CleanUp, RemoveMember, Revoke, peers
  <2> QED
    BY <2>2, <2>3, StutterPromise
<1>4. ASSUME NEW fanout \in Fanouts, NEW ok \in [Peers -> SUBSET Messages], Pump(fanout, ok)
      PROVE  UNCHANGED Promise!dvars
  <2> DEFINE to(m) == {p \in Peers : m \in ok[p]}
  <2>1. \A p \in Peers : ok[p] \subseteq Queued
    BY <1>4, FanoutFacts DEF Pump, IInv
  <2>2. ASSUME NEW m \in Messages
        PROVE  /\ outbox'[m].state = "absent" <=> outbox[m].state = "absent"
               /\ outbox'[m].expected = outbox[m].expected
    <3>1. CASE to(m) = {}
      BY <1>4, <3>1 DEF Pump
    <3>2. CASE to(m) # {}
      <4>1. outbox'[m] = mark_sent(outbox[m], to(m))
        BY <1>4, <3>2 DEF Pump
      <4>2. outbox[m] \in Record /\ outbox[m].state # "absent" /\ to(m) \in SUBSET Peers
        BY <2>1, <3>2 DEF IInv, TypeOK, Queued
      <4> HIDE DEF to
      <4> QED
        BY <4>1, <4>2, MarkSentFacts
    <3> QED
      BY <3>1, <3>2
  <2>3. \A m \in Messages : mstate'[m] = "peer_receipt" <=> mstate[m] = "peer_receipt"
    BY <1>4 DEF Pump, handed_over
  <2>4. UNCHANGED stored
    BY <1>4 DEF Pump, peers
  <2> QED
    BY <2>2, <2>3, <2>4, StutterPromise
<1>5. ASSUME NEW p \in Peers, NEW m \in toPeer[p], HandleEnvelope(p, m)
      PROVE  [Promise!DNext]_(Promise!dvars)
  <2>1. m \in Queued /\ m \in Messages /\ UNCHANGED <<outbox, mstate>>
    BY <1>5 DEF HandleEnvelope, sender, IInv, FlightsAreTrue, Queued
  <2>2. CASE ~ answers(p, m)
    BY <1>5, <2>1, <2>2, StutterPromise DEF HandleEnvelope
  <2>3. CASE answers(p, m)
    <3>0. \A n \in Messages : {q \in Peers : n \in stored'[q]}
                = IF n = m THEN {q \in Peers : n \in stored[q]} \cup {p} ELSE {q \in Peers : n \in stored[q]}
      BY <1>5, <2>3 DEF HandleEnvelope, IInv, TypeOK
    <3>1. delivered_' = [delivered_ EXCEPT ![m] = @ \cup {p}]
      BY <2>1, <3>0, ZenonT(60) DEF delivered_
    <3>2. UNCHANGED <<Queued, audience_, confirmed_>>
      BY <2>1 DEF Queued, audience_, confirmed_
    <3>3. Promise!Deliver(m, p)
      BY <2>1, <3>1, <3>2 DEF Promise!Deliver, audience_, delivered_, confirmed_
    <3> QED
      BY <2>1, <3>3 DEF Promise!DNext
  <2> QED
    BY <2>2, <2>3
<1>6. ASSUME NEW p \in Peers, NEW m \in toSender[p], HandleReceipt(p, m)
      PROVE  [Promise!DNext]_(Promise!dvars)
  <2>0. UNCHANGED stored
    BY <1>6 DEF HandleReceipt, peers
  <2>1. CASE ~ receipt_accepted(m, p)
    BY <1>6, <2>0, <2>1, StutterPromise DEF HandleReceipt
  <2>2. CASE receipt_accepted(m, p)
    <3> DEFINE r == record_receipt(outbox[m], p)
    <3>1. m \in Messages /\ m \in stored[p] /\ m \in Queued /\ outbox[m] \in Record
      BY <1>6 DEF IInv, TypeOK, FlightsAreTrue
    <3>2. /\ r.state # "absent" /\ r.expected = outbox[m].expected
          /\ r.receipted = outbox[m].receipted \cup {p}
      BY <3>1, RecordReceiptFacts
    <3>3. /\ outbox' = [outbox EXCEPT ![m] = r]
          /\ mstate' = [mstate EXCEPT ![m] = receipted_state(r)]
      BY <1>6, <2>2 DEF HandleReceipt
    <3>4. receipted_state(r) = "peer_receipt" <=> r.expected # {} /\ r.expected \subseteq r.receipted
      BY DEF receipted_state, all_receipted
    <3> HIDE DEF r
    <3>5. \A n \in Messages : /\ outbox'[n].state = "absent" <=> outbox[n].state = "absent"
                              /\ outbox'[n].expected = outbox[n].expected
      BY <3>1, <3>2, <3>3 DEF IInv, TypeOK, Queued
    <3>6. CASE receipted_state(r) = "peer_receipt"
      <4>1. UNCHANGED <<Queued, audience_, delivered_>>
        BY <2>0, <3>5 DEF Queued, audience_, delivered_
      <4>2. confirmed_' = confirmed_ \cup {m}
        BY <3>1, <3>3, <3>6 DEF confirmed_, IInv, TypeOK
      <4>3. audience_[m] # {} /\ audience_[m] \subseteq delivered_[m]
        BY <3>1, <3>2, <3>4, <3>6 DEF audience_, delivered_, IInv, Settled, TypeOK, Record
      <4>4. Promise!Confirm(m)
        BY <4>1, <4>2, <4>3, ZenonT(60) DEF Promise!Confirm, audience_, delivered_, confirmed_
      <4> QED
        BY <3>1, <4>4 DEF Promise!DNext
    <3>7. CASE receipted_state(r) # "peer_receipt"
      <4>1. mstate[m] # "peer_receipt"
        BY <3>1, <3>2, <3>4, <3>7 DEF IInv, Settled
      <4>2. \A n \in Messages : mstate'[n] = "peer_receipt" <=> mstate[n] = "peer_receipt"
        BY <3>1, <3>3, <3>7, <4>1 DEF IInv, TypeOK
      <4> QED
        BY <2>0, <3>5, <4>2, StutterPromise
    <3> QED
      BY <3>6, <3>7
  <2> QED
    BY <2>1, <2>2
<1>7. ASSUME NEW m \in Messages, SendUnqueued(m) PROVE UNCHANGED Promise!dvars
  <2>1. \A n \in Messages : mstate'[n] = "peer_receipt" <=> mstate[n] = "peer_receipt"
    BY <1>7 DEF SendUnqueued, Write, IInv, TypeOK
  <2> QED
    BY <1>7, <2>1, StutterPromise DEF SendUnqueued, Write, peers
<1>8. CASE UNCHANGED <<outbox, mstate, stored>>
  BY <1>8, StutterPromise
<1> QED
  BY <1>1, <1>2, <1>3, <1>4, <1>5, <1>6, <1>7, <1>8
  DEF Next, LeaseExpires, Attach, LinkBreaks, Crash, RevokeMember, Revoke, SenderEpoch, PeerEpoch,
      vars, sender, network, peers

\* The outbox keeps the promise of TextDelivery: the audience of a message is
\* fixed once, stored messages stay stored, and a delivery is confirmed to the
\* sender only when the whole audience has the message, and never taken back.
THEOREM OutboxImplementsDelivery == Spec => DeliveryPromise
  BY InitPromise, StepPromise, SpecIInv, PTL DEF Spec, DeliveryPromise, Promise!DSpec
=============================================================================
