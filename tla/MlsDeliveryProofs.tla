------------------------- MODULE MlsDeliveryProofs -------------------------
(***************************************************************************)
(* Proofs about MlsDelivery for every group, every number of epochs and    *)
(* every supply of hashes, payloads and plans.                             *)
(***************************************************************************)
EXTENDS MlsDelivery, SequenceTheorems, TLAPS

\* What travels (plans) and what is stored (Welcomes) describes a branch as
\* truthfully as a member's own state: this makes GaplessHistory inductive.
PlansAreBranches ==
    \A m \in Members : \A plan \in inbox[m] : Branch(plan.winner, plan.history)

WelcomesAreBranches == \A w \in welcomes : Branch(w.summary, w.history)

IInv == TypeOK /\ GaplessHistory /\ PlansAreBranches /\ WelcomesAreBranches

-----------------------------------------------------------------------------
(* Types                                                                    *)

\* A repair plan built by plan_repair is a repair plan, whoever wins.
LEMMA PlanType ==
    ASSUME TypeOK, NEW m \in Members, NEW n \in Members,
           NEW valid \in SUBSET ApplicationEvent
    PROVE  /\ plan_repair(m, n, valid) \in RepairPlan
           /\ \E w \in {m, n} : /\ plan_repair(m, n, valid).winner = summary[w]
                                /\ plan_repair(m, n, valid).history = history[w]
<1> DEFINE w == IF remote_wins(summary[m], summary[n], history[m], history[n]) THEN n ELSE m
<1>1. w \in {m, n} /\ w \in Members
  OBVIOUS
<1>2. summary[w] \in EpochSummary /\ history[w] \in Seq(CommitEnvelope)
  BY <1>1 DEF TypeOK
<1>3. {e \in valid : e.epoch = summary[w].epoch} \in SUBSET ApplicationEvent
  OBVIOUS
<1>4. plan_repair(m, n, valid) =
        [action |-> "RejoinAndReproposal", winner |-> summary[w],
         reproposed |-> {e \in valid : e.epoch = summary[w].epoch}, history |-> history[w]]
  BY DEF plan_repair
<1> HIDE DEF w
<1>5. plan_repair(m, n, valid) \in RepairPlan
  BY <1>2, <1>3, <1>4 DEF RepairPlan
<1>6. /\ plan_repair(m, n, valid).winner = summary[w]
      /\ plan_repair(m, n, valid).history = history[w]
  BY <1>4
<1> QED BY <1>1, <1>5, <1>6

LEMMA InitType == Init => TypeOK
BY MembersAssumption, EmptySeq
DEF Init, TypeOK, Genesis, EpochSummary

\* Every step keeps the variables in their types.
LEMMA NextType == TypeOK /\ [Next]_vars => TypeOK'
<1> SUFFICES ASSUME TypeOK, [Next]_vars PROVE TypeOK'
  OBVIOUS
<1>1. ASSUME NEW m \in Members, NEW tree \in Hashes,
             NEW events \in SUBSET [epoch: {summary[m].epoch, summary[m].epoch + 1},
                                    leaf: {m}, payload: Payloads],
             Commit(m, tree, events)
      PROVE  TypeOK'
  <2> DEFINE c == [summary |-> [epoch |-> summary[m].epoch + 1, tree |-> tree], leaf |-> m,
                   events |-> events, parent |-> summary[m]]
  <2>1. summary[m] \in EpochSummary /\ summary[m].epoch \in Nat
    BY DEF TypeOK, EpochSummary
  <2>2. [epoch |-> summary[m].epoch + 1, tree |-> tree] \in EpochSummary
    BY <2>1, HashesAssumption DEF EpochSummary
  <2>3. events \in SUBSET ApplicationEvent
    BY <2>1 DEF ApplicationEvent
  <2>4. c \in CommitEnvelope
    BY <2>1, <2>2, <2>3 DEF CommitEnvelope
  <2>5. commits' = commits \cup {c}
    BY <1>1 DEF Commit
  <2> HIDE DEF c
  <2> QED BY <2>4, <2>5, <1>1 DEF Commit, TypeOK
<1>2. ASSUME NEW m \in Members, NEW c \in commits, DeliverCommit(m, c)
      PROVE  TypeOK'
  <2>1. c \in CommitEnvelope
    BY DEF TypeOK
  <2>2. c.summary \in EpochSummary /\ c.events \in SUBSET ApplicationEvent
    BY <2>1 DEF CommitEnvelope
  <2>3. Append(history[m], c) \in Seq(CommitEnvelope)
    BY <2>1, AppendProperties DEF TypeOK
  <2> QED BY <2>2, <2>3, <1>2 DEF DeliverCommit, TypeOK
<1>3. ASSUME NEW m \in Members, NEW n \in Members,
             NEW valid \in SUBSET (accepted[m] \cup accepted[n]), PlanRepair(m, n, valid)
      PROVE  TypeOK'
  <2>1. valid \in SUBSET ApplicationEvent
    BY DEF TypeOK
  <2>2. plan_repair(m, n, valid) \in RepairPlan
    BY <2>1, PlanType
  <2> QED BY <2>2, <1>3 DEF PlanRepair, TypeOK
<1>4. ASSUME NEW m \in Members, NEW plan \in inbox[m], ApplyRepairPlan(m, plan)
      PROVE  TypeOK'
  <2>1. plan \in RepairPlan
    BY DEF TypeOK
  <2>2. /\ plan.winner \in EpochSummary
        /\ plan.reproposed \in SUBSET ApplicationEvent
        /\ plan.history \in Seq(CommitEnvelope)
    BY <2>1 DEF RepairPlan
  <2>3. inbox' \in [Members -> SUBSET RepairPlan]
    BY <1>4 DEF ApplyRepairPlan, TypeOK
  <2>4. CASE repair_accepted(summary[m], plan)
    <3>1. accepted' \in [Members -> SUBSET ApplicationEvent]
      <4>1. accepted[m] \cup plan.reproposed \in SUBSET ApplicationEvent
        BY <2>2 DEF TypeOK
      <4>2. accepted' = [accepted EXCEPT ![m] = accepted[m] \cup plan.reproposed]
        BY <2>4, <1>4 DEF ApplyRepairPlan
      <4> QED BY <4>1, <4>2 DEF TypeOK
    <3>2. /\ summary' \in [Members -> EpochSummary]
          /\ history' \in [Members -> Seq(CommitEnvelope)]
      BY <2>2, <2>4, <1>4 DEF ApplyRepairPlan, TypeOK
    <3> QED BY <2>3, <3>1, <3>2, <1>4 DEF ApplyRepairPlan, TypeOK
  <2>5. CASE ~ repair_accepted(summary[m], plan)
    BY <2>3, <2>5, <1>4 DEF ApplyRepairPlan, TypeOK
  <2> QED BY <2>4, <2>5
<1>5. ASSUME NEW m \in Members, NEW plan \in inbox[m], LosePlan(m, plan)
      PROVE  TypeOK'
  BY <1>5 DEF LosePlan, TypeOK
<1>6. ASSUME NEW m \in Members, NEW n \in Members, IssueWelcome(m, n)
      PROVE  TypeOK'
  <2>1. now + WelcomeTtl \in Nat
    BY BoundsAssumption DEF TypeOK
  <2> QED BY <2>1, <1>6 DEF IssueWelcome, TypeOK
<1>7. ASSUME NEW n \in Members, NEW w \in welcomes, Join(n, w)
      PROVE  TypeOK'
  <2>1. w.summary \in EpochSummary /\ w.history \in Seq(CommitEnvelope)
    BY DEF TypeOK
  <2> QED BY <2>1, <1>7 DEF Join, TypeOK
<1>8. CASE Tick
  BY <1>8 DEF Tick, TypeOK
<1>9. CASE UNCHANGED vars
  BY <1>9 DEF vars, TypeOK
<1> QED BY <1>1, <1>2, <1>3, <1>4, <1>5, <1>6, <1>7, <1>8, <1>9 DEF Next

\* The variables always have their types.
THEOREM TypeCorrect == Spec => []TypeOK
<1>1. QED BY InitType, NextType, PTL DEF Spec

-----------------------------------------------------------------------------
(* The branch a member is on                                                *)

\* A branch stays one when commits are added to the network.
LEMMA BranchGrows ==
    ASSUME NEW s, NEW h, Branch(s, h), commits \subseteq commits'
    PROVE  Branch(s, h)'
BY DEF Branch

\* Accepting the commit of the next epoch extends the branch by it.
LEMMA BranchExtends ==
    ASSUME NEW s \in EpochSummary, NEW h \in Seq(CommitEnvelope), NEW c \in commits,
           c \in CommitEnvelope, Branch(s, h), c.summary.epoch = s.epoch + 1
    PROVE  Branch(c.summary, Append(h, c))
<1>1. Len(h) \in Nat /\ Len(h) = s.epoch
  BY LenProperties DEF Branch
<1>2. /\ Len(Append(h, c)) = Len(h) + 1
      /\ \A i \in 1 .. Len(h) : Append(h, c)[i] = h[i]
      /\ Append(h, c)[Len(h) + 1] = c
  BY AppendProperties
<1>3. ASSUME NEW i \in 1 .. (Len(h) + 1)
      PROVE  Append(h, c)[i] \in commits /\ Append(h, c)[i].summary.epoch = i
  <2>1. CASE i = Len(h) + 1
    BY <2>1, <1>1, <1>2
  <2>2. CASE i # Len(h) + 1
    <3>1. i \in 1 .. Len(h)
      BY <2>2, <1>1
    <3> QED BY <3>1, <1>2 DEF Branch
  <2> QED BY <2>1, <2>2
<1> QED BY <1>1, <1>2, <1>3 DEF Branch

LEMMA InitIInv == Init => IInv
<1> SUFFICES ASSUME Init PROVE IInv
  OBVIOUS
<1>1. TypeOK
  BY InitType
<1>2. Branch(Genesis, <<>>)
  BY DEF Branch, Genesis
<1>3. GaplessHistory
  BY <1>2, MembersAssumption DEF Init, GaplessHistory
<1>4. PlansAreBranches /\ WelcomesAreBranches
  BY DEF Init, PlansAreBranches, WelcomesAreBranches
<1> QED BY <1>1, <1>3, <1>4 DEF IInv

\* Every step keeps members, plans and Welcomes on gapless branches.
LEMMA NextIInv == IInv /\ [Next]_vars => IInv'
<1> SUFFICES ASSUME IInv, [Next]_vars PROVE IInv'
  OBVIOUS
<1>0. TypeOK /\ TypeOK'
  BY NextType DEF IInv
<1>c. commits \subseteq commits'
  BY DEF Next, vars, Commit, DeliverCommit, PlanRepair, ApplyRepairPlan, LosePlan,
         IssueWelcome, Join, Tick
<1>g. ASSUME NEW s, NEW h, Branch(s, h) PROVE Branch(s, h)'
  BY <1>c, <1>g, BranchGrows
<1>1. ASSUME UNCHANGED <<joined, summary, history, inbox, welcomes>>
      PROVE  IInv'
  BY <1>0, <1>1, <1>g DEF IInv, GaplessHistory, PlansAreBranches, WelcomesAreBranches
<1>2. ASSUME NEW m \in Members, NEW c \in commits, DeliverCommit(m, c)
      PROVE  IInv'
  <2>1. /\ summary[m] \in EpochSummary /\ history[m] \in Seq(CommitEnvelope)
        /\ c \in CommitEnvelope
    BY <1>0 DEF TypeOK
  <2>2. Branch(summary[m], history[m]) /\ c.summary.epoch = summary[m].epoch + 1
    BY <1>2 DEF DeliverCommit, commit_accepted, IInv, GaplessHistory
  <2>3. Branch(c.summary, Append(history[m], c))
    BY <2>1, <2>2, BranchExtends
  <2>4. /\ summary'[m] = c.summary /\ history'[m] = Append(history[m], c)
        /\ \A k \in Members \ {m} : summary'[k] = summary[k] /\ history'[k] = history[k]
    BY <1>0, <1>2 DEF DeliverCommit, TypeOK
  <2>5. GaplessHistory'
    BY <2>3, <2>4, <1>0, <1>2, <1>g DEF DeliverCommit, GaplessHistory, IInv, TypeOK
  <2> QED BY <2>5, <1>0, <1>2, <1>g
          DEF DeliverCommit, IInv, PlansAreBranches, WelcomesAreBranches
<1>3. ASSUME NEW m \in Members, NEW n \in Members,
             NEW valid \in SUBSET (accepted[m] \cup accepted[n]), PlanRepair(m, n, valid)
      PROVE  IInv'
  <2> DEFINE plan == plan_repair(m, n, valid)
  <2>1. valid \in SUBSET ApplicationEvent
    BY <1>0 DEF TypeOK
  <2>2. PICK w \in {m, n} : plan.winner = summary[w] /\ plan.history = history[w]
    BY <2>1, <1>0, PlanType
  <2>3. Branch(plan.winner, plan.history)
    BY <2>2, <1>3 DEF PlanRepair, IInv, GaplessHistory
  <2>4. \A k \in Members : inbox'[k] \subseteq inbox[k] \cup {plan}
    BY <1>3 DEF PlanRepair
  <2> HIDE DEF plan
  <2>5. PlansAreBranches'
    BY <2>3, <2>4, <1>g DEF IInv, PlansAreBranches
  <2> QED BY <2>5, <1>0, <1>3, <1>g
          DEF PlanRepair, IInv, GaplessHistory, WelcomesAreBranches
<1>4. ASSUME NEW m \in Members, NEW plan \in inbox[m], ApplyRepairPlan(m, plan)
      PROVE  IInv'
  <2>1. \A k \in Members : inbox'[k] \subseteq inbox[k]
    BY <1>0, <1>4 DEF ApplyRepairPlan, TypeOK
  <2>2. PlansAreBranches'
    BY <2>1, <1>g DEF IInv, PlansAreBranches
  <2>3. GaplessHistory'
    <3>1. Branch(plan.winner, plan.history)
      BY DEF IInv, PlansAreBranches
    <3>2. CASE repair_accepted(summary[m], plan)
      <4>1. /\ summary'[m] = plan.winner /\ history'[m] = plan.history
            /\ \A k \in Members \ {m} : summary'[k] = summary[k] /\ history'[k] = history[k]
        BY <1>0, <1>4, <3>2 DEF ApplyRepairPlan, TypeOK
      <4> QED BY <3>1, <4>1, <1>0, <1>4, <1>g
              DEF ApplyRepairPlan, GaplessHistory, IInv, TypeOK
    <3>3. CASE ~ repair_accepted(summary[m], plan)
      BY <3>3, <1>4, <1>g DEF ApplyRepairPlan, GaplessHistory, IInv
    <3> QED BY <3>2, <3>3
  <2> QED BY <2>2, <2>3, <1>0, <1>4, <1>g DEF ApplyRepairPlan, IInv, WelcomesAreBranches
<1>5. ASSUME NEW m \in Members, NEW plan \in inbox[m], LosePlan(m, plan)
      PROVE  IInv'
  <2>1. \A k \in Members : inbox'[k] \subseteq inbox[k]
    BY <1>0, <1>5 DEF LosePlan, TypeOK
  <2> QED BY <2>1, <1>0, <1>5, <1>g
          DEF LosePlan, IInv, GaplessHistory, PlansAreBranches, WelcomesAreBranches
<1>6. ASSUME NEW m \in Members, NEW n \in Members, IssueWelcome(m, n)
      PROVE  IInv'
  <2>1. Branch(summary[m], history[m])
    BY <1>6 DEF IssueWelcome, IInv, GaplessHistory
  <2>2. WelcomesAreBranches'
    BY <2>1, <1>6, <1>g DEF IssueWelcome, IInv, WelcomesAreBranches
  <2> QED BY <2>2, <1>0, <1>6, <1>g DEF IssueWelcome, IInv, GaplessHistory, PlansAreBranches
<1>7. ASSUME NEW n \in Members, NEW w \in welcomes, Join(n, w)
      PROVE  IInv'
  <2>1. Branch(w.summary, w.history)
    BY DEF IInv, WelcomesAreBranches
  <2>2. /\ summary'[n] = w.summary /\ history'[n] = w.history
        /\ \A k \in Members \ {n} : summary'[k] = summary[k] /\ history'[k] = history[k]
    BY <1>0, <1>7 DEF Join, TypeOK
  <2>3. GaplessHistory'
    BY <2>1, <2>2, <1>0, <1>7, <1>g DEF Join, GaplessHistory, IInv, TypeOK
  <2> QED BY <2>3, <1>0, <1>7, <1>g DEF Join, IInv, PlansAreBranches, WelcomesAreBranches
<1>8. ASSUME NEW m \in Members, NEW tree, NEW events, Commit(m, tree, events)
      PROVE  IInv'
  BY <1>1, <1>8 DEF Commit
<1>9. CASE Tick
  BY <1>1, <1>9 DEF Tick
<1>10. CASE UNCHANGED vars
  BY <1>1, <1>10 DEF vars
<1> QED BY <1>2, <1>3, <1>4, <1>5, <1>6, <1>7, <1>8, <1>9, <1>10 DEF Next

\* Whatever the network does with commits, plans and Welcomes, a member's
\* branch has one commit per epoch, in order, and ends in the member's state.
THEOREM HistoryIsGapless == Spec => []GaplessHistory
<1>1. IInv => GaplessHistory
  BY DEF IInv
<1> QED BY <1>1, InitIInv, NextIInv, PTL DEF Spec

-----------------------------------------------------------------------------
(* What one call may do                                                     *)

\* No call of apply_commit or apply_repair_plan moves a member to an earlier
\* epoch.
THEOREM EpochsOnlyGrow == Spec => EpochNeverDecreases
<1>1. TypeOK /\ [Next]_vars =>
        [\A m \in joined : summary'[m].epoch >= summary[m].epoch]_vars
  <2> SUFFICES ASSUME TypeOK, Next, NEW k \in joined
               PROVE  summary'[k].epoch >= summary[k].epoch
    BY DEF vars
  <2>0. k \in Members /\ summary[k] \in EpochSummary /\ summary[k].epoch \in Nat
    BY DEF TypeOK, EpochSummary
  <2>1. ASSUME NEW m \in Members, NEW c \in commits, DeliverCommit(m, c)
        PROVE  summary'[k].epoch >= summary[k].epoch
    BY <2>0, <2>1 DEF DeliverCommit, commit_accepted, TypeOK
  <2>2. ASSUME NEW m \in Members, NEW plan \in inbox[m], ApplyRepairPlan(m, plan)
        PROVE  summary'[k].epoch >= summary[k].epoch
    <3>1. CASE repair_accepted(summary[m], plan)
      <4>1. summary' = [summary EXCEPT ![m] = plan.winner]
        BY <3>1, <2>2 DEF ApplyRepairPlan
      <4>2. plan.winner.epoch >= summary[m].epoch
        BY <3>1 DEF repair_accepted
      <4> QED BY <2>0, <4>1, <4>2 DEF TypeOK
    <3>2. CASE ~ repair_accepted(summary[m], plan)
      BY <2>0, <3>2, <2>2 DEF ApplyRepairPlan
    <3> QED BY <3>1, <3>2
  <2>3. ASSUME NEW n \in Members, NEW w \in welcomes, Join(n, w)
        PROVE  summary'[k].epoch >= summary[k].epoch
    <3>1. k # n /\ summary' = [summary EXCEPT ![n] = w.summary]
      BY <2>3 DEF Join
    <3> QED BY <2>0, <3>1 DEF TypeOK
  <2>4. CASE UNCHANGED summary
    BY <2>0, <2>4
  <2> QED BY <2>1, <2>2, <2>3, <2>4
          DEF Next, Commit, PlanRepair, LosePlan, IssueWelcome, Tick
<1> QED BY <1>1, TypeCorrect, PTL DEF Spec, EpochNeverDecreases

\* An event is accepted only in the epoch it was authored under.
THEOREM EventsEnterInTheirEpoch == Spec => EventsAcceptedInTheirEpoch
<1>1. TypeOK /\ [Next]_vars =>
        [\A m \in Members : \A e \in accepted'[m] \ accepted[m] :
            e.epoch = summary'[m].epoch]_vars
  <2> SUFFICES ASSUME TypeOK, Next, NEW k \in Members, NEW e \in accepted'[k] \ accepted[k]
               PROVE  e.epoch = summary'[k].epoch
    BY DEF vars
  <2>1. ASSUME NEW m \in Members, NEW c \in commits, DeliverCommit(m, c)
        PROVE  e.epoch = summary'[k].epoch
    <3>1. k = m /\ e \in c.events
      BY <2>1 DEF DeliverCommit, TypeOK
    <3>2. summary'[k] = c.summary
      BY <3>1, <2>1 DEF DeliverCommit, TypeOK
    <3> QED BY <3>1, <3>2, <2>1 DEF DeliverCommit, commit_accepted
  <2>2. ASSUME NEW m \in Members, NEW plan \in inbox[m], ApplyRepairPlan(m, plan)
        PROVE  e.epoch = summary'[k].epoch
    <3>1. repair_accepted(summary[m], plan)
      BY <2>2 DEF ApplyRepairPlan
    <3>2. k = m /\ e \in plan.reproposed
      BY <3>1, <2>2 DEF ApplyRepairPlan, TypeOK
    <3>3. summary'[k] = plan.winner
      BY <3>1, <3>2, <2>2 DEF ApplyRepairPlan, TypeOK
    <3> QED BY <3>1, <3>2, <3>3 DEF repair_accepted
  <2>3. ASSUME NEW n \in Members, NEW w \in welcomes, Join(n, w)
        PROVE  e.epoch = summary'[k].epoch
    BY <2>3 DEF Join, TypeOK
  <2>4. CASE UNCHANGED accepted
    BY <2>4
  <2> QED BY <2>1, <2>2, <2>3, <2>4
          DEF Next, Commit, PlanRepair, LosePlan, IssueWelcome, Tick
<1> QED BY <1>1, TypeCorrect, PTL DEF Spec, EventsAcceptedInTheirEpoch
=============================================================================
