---------------------------- MODULE MlsDelivery ----------------------------
(***************************************************************************)
(* Ordered MLS delivery and fork repair, crates/mls-delivery/src/lib.rs:   *)
(* the DeliveryState that every member keeps, the commits and repair plans *)
(* the members exchange, and the Welcome that admits a new member.         *)
(*                                                                         *)
(* The library only offers the operations; it leaves to its caller when    *)
(* they are called and what the network does between two calls.  Here the  *)
(* network may delay, reorder, duplicate or lose a commit (`commits' only  *)
(* grows, and a commit need not be delivered), and may delay, reorder or   *)
(* lose a repair plan (`inbox').  A hash (tree hash with confirmation tag, *)
(* content hash) is a number: the code only compares hashes.               *)
(***************************************************************************)
EXTENDS Integers, Sequences, FiniteSets

CONSTANTS
    Members,      \* leaf indexes
    Founders,     \* the members of the group at epoch 0
    Hashes,       \* tree hashes (with their confirmation tags)
    Payloads,     \* contents of application events
    Comparator,   \* "summary": plan_repair, "history": plan_repair_from_histories
    MaxEpoch,     \* bound: no commit is created beyond this epoch
    MaxCommits,   \* bound on the commits one member builds for one epoch
    MaxInbox,     \* bound on the repair plans under way to one member
    MaxTime,      \* bound on the clock that expires Welcome packages
    WelcomeTtl    \* lifetime of a Welcome package

ASSUME MembersAssumption == Members \subseteq Nat /\ Founders \subseteq Members
ASSUME HashesAssumption  == Hashes \subseteq Nat
ASSUME BoundsAssumption  == {MaxEpoch, MaxCommits, MaxInbox, MaxTime, WelcomeTtl} \subseteq Nat
ASSUME ComparatorAssumption == Comparator \in {"summary", "history"}

VARIABLES
    joined,    \* members that hold a DeliveryState
    summary,   \* DeliveryState.summary
    accepted,  \* DeliveryState.accepted_events
    history,   \* the commits of the branch a member is on (DeliveryHistory.commits)
    commits,   \* CommitEnvelopes put on the network
    inbox,     \* per member, repair plans addressed to it and not yet handled
    welcomes,  \* WelcomePackages issued
    now        \* the deterministic clock

vars == <<joined, summary, accepted, history, commits, inbox, welcomes, now>>

EpochSummary == [epoch: Nat, tree: Nat]
Genesis      == [epoch |-> 0, tree |-> 0]

ApplicationEvent == [epoch: Nat, leaf: Members, payload: Payloads]

\* `parent', the state the committer was in, is auxiliary: the code's envelope
\* does not carry it.
CommitEnvelope ==
    [summary: EpochSummary, leaf: Members, events: SUBSET ApplicationEvent, parent: EpochSummary]

\* select_repair_action gives None only when nothing diverged.  `history' is
\* auxiliary: the commits of the branch the plan's winner is on.
RepairPlan ==
    [action: {"None", "RejoinAndReproposal"}, winner: EpochSummary,
     reproposed: SUBSET ApplicationEvent, history: Seq(CommitEnvelope)]

-----------------------------------------------------------------------------
(* Comparing summaries and histories                                        *)

needs_repair(local, remote) ==
    local.epoch = remote.epoch /\ local.tree # remote.tree

detect_fork_or_replay(local, remote) ==
    CASE remote.epoch > local.epoch  -> "NeedsCatchUp"
      [] remote.epoch < local.epoch  -> "DowngradeOrReplay"
      [] needs_repair(local, remote) -> "Diverged"
      [] OTHER                       -> "InSync"

\* EpochSummary's derived order: by epoch, then by hash.
summary_less(a, b) ==
    \/ a.epoch < b.epoch
    \/ a.epoch = b.epoch /\ a.tree < b.tree

\* CommitOrderKey: epoch, then committer leaf, then content hash.
order_key(c) == <<c.summary.epoch, c.leaf, c.summary.tree>>

key_less(a, b) ==
    \/ a[1] < b[1]
    \/ a[1] = b[1] /\ a[2] < b[2]
    \/ a[1] = b[1] /\ a[2] = b[2] /\ a[3] < b[3]

\* DeliveryHistoryKey's derived order on lists of commit keys: the first
\* difference decides, and a proper prefix is smaller.
history_less(g, h) ==
    \E i \in 1 .. Len(h) :
        /\ i <= Len(g) + 1
        /\ \A j \in 1 .. (i - 1) : order_key(g[j]) = order_key(h[j])
        /\ i <= Len(g) => key_less(order_key(g[i]), order_key(h[i]))

history_key_equal(g, h) ==
    Len(g) = Len(h) /\ \A i \in 1 .. Len(g) : order_key(g[i]) = order_key(h[i])

\* Mutant: every planner prefers its own branch.
remote_wins_never(local, remote, localHistory, remoteHistory) == FALSE

\* Does the remote side win the comparator?
remote_wins(local, remote, localHistory, remoteHistory) ==
    IF Comparator = "summary"
    THEN summary_less(local, remote)
    ELSE \/ history_less(localHistory, remoteHistory)
         \/ /\ history_key_equal(localHistory, remoteHistory)
            /\ ~ summary_less(remote, local)

-----------------------------------------------------------------------------
(* The state transitions of DeliveryState                                   *)

\* Mutant: any newer epoch will do.
commit_accepted_ahead(local, c) ==
    /\ c.summary.epoch > local.epoch
    /\ \A e \in c.events : e.epoch = c.summary.epoch

\* Mutant: the epochs of the events are not looked at.
commit_accepted_events(local, c) == c.summary.epoch = local.epoch + 1

\* The condition under which apply_commit returns Ok; every other case is an
\* error that leaves the state alone.
commit_accepted(local, c) ==
    /\ detect_fork_or_replay(local, c.summary) = "NeedsCatchUp"
    /\ c.summary.epoch = local.epoch + 1
    /\ \A e \in c.events : e.epoch = c.summary.epoch

\* Mutant: no StaleRepairTarget check.
repair_accepted_stale(local, plan) ==
    plan.action # "None" /\ \A e \in plan.reproposed : e.epoch = plan.winner.epoch

\* The same for apply_repair_plan (a plan never asks to replay divergent
\* commits: both planners set that flag to false).
repair_accepted(local, plan) ==
    /\ plan.winner.epoch >= local.epoch
    /\ plan.action # "None"
    /\ \A e \in plan.reproposed : e.epoch = plan.winner.epoch

\* plan_repair and plan_repair_from_histories for the fork between m's state
\* and n's: valid is what the caller considers still valid.
plan_repair(m, n, valid) ==
    LET w == IF remote_wins(summary[m], summary[n], history[m], history[n]) THEN n ELSE m
    IN  [action     |-> "RejoinAndReproposal",
         winner     |-> summary[w],
         reproposed |-> {e \in valid : e.epoch = summary[w].epoch},
         history    |-> history[w]]

-----------------------------------------------------------------------------
Init ==
    /\ joined = Founders
    /\ summary = [m \in Members |-> Genesis]
    /\ accepted = [m \in Members |-> {}]
    /\ history = [m \in Members |-> <<>>]
    /\ commits = {}
    /\ inbox = [m \in Members |-> {}]
    /\ welcomes = {}
    /\ now = 0

\* A member builds a commit on its current state (CommitEnvelope::new) and
\* hands it to the network.  It moves to the new epoch only when the commit is
\* delivered to it like to everybody else, and may build another one before; the
\* hashes of two commits of one epoch differ.  An event is meant for the new
\* epoch, or was authored just before the commit, under the old one.
Commit(m, tree, events) ==
    LET epoch == summary[m].epoch + 1
        c == [summary |-> [epoch |-> epoch, tree |-> tree], leaf |-> m,
              events |-> events, parent |-> summary[m]]
    IN  /\ m \in joined
        /\ epoch <= MaxEpoch
        /\ Cardinality({d \in commits : d.summary.epoch = epoch /\ d.leaf = m}) < MaxCommits
        /\ \A d \in commits : d.summary.epoch = epoch => d.summary.tree # tree
        /\ commits' = commits \cup {c}
        /\ UNCHANGED <<joined, summary, accepted, history, inbox, welcomes, now>>

\* apply_commit, when it returns Ok.
DeliverCommit(m, c) ==
    /\ m \in joined
    /\ commit_accepted(summary[m], c)
    /\ summary' = [summary EXCEPT ![m] = c.summary]
    /\ accepted' = [accepted EXCEPT ![m] = @ \cup c.events]
    /\ history' = [history EXCEPT ![m] = Append(@, c)]
    /\ UNCHANGED <<joined, commits, inbox, welcomes, now>>

\* m learns n's summary, finds the fork, plans the repair and sends the plan to
\* every member, itself included; beyond MaxInbox the network loses it.
PlanRepair(m, n, valid) ==
    /\ m \in joined /\ n \in joined
    /\ detect_fork_or_replay(summary[m], summary[n]) = "Diverged"
    /\ LET plan == plan_repair(m, n, valid)
       IN  inbox' = [k \in Members |->
                        IF k \in joined /\ Cardinality(inbox[k]) < MaxInbox
                        THEN inbox[k] \cup {plan} ELSE inbox[k]]
    /\ inbox' # inbox
    /\ UNCHANGED <<joined, summary, accepted, history, commits, welcomes, now>>

\* apply_repair_plan: the plan may be stale by the time it is handled.  A
\* rejected plan is consumed without effect.
ApplyRepairPlan(m, plan) ==
    /\ plan \in inbox[m]
    /\ inbox' = [inbox EXCEPT ![m] = @ \ {plan}]
    /\ IF repair_accepted(summary[m], plan)
       THEN /\ summary' = [summary EXCEPT ![m] = plan.winner]
            /\ accepted' = [accepted EXCEPT ![m] = @ \cup plan.reproposed]
            /\ history' = [history EXCEPT ![m] = plan.history]
       ELSE UNCHANGED <<summary, accepted, history>>
    /\ UNCHANGED <<joined, commits, welcomes, now>>

\* The network loses a plan on its way to m.
LosePlan(m, plan) ==
    /\ plan \in inbox[m]
    /\ inbox' = [inbox EXCEPT ![m] = @ \ {plan}]
    /\ UNCHANGED <<joined, summary, accepted, history, commits, welcomes, now>>

\* A member issues a Welcome into its current state; the catch-up bundle that
\* goes with it carries the commits of the issuer's branch.
IssueWelcome(m, n) ==
    /\ m \in joined /\ n \in Members \ joined
    /\ \A w \in welcomes : w.new_leaf # n
    /\ welcomes' = welcomes \cup {[new_leaf |-> n, summary |-> summary[m],
                                   history |-> history[m], expires_at |-> now + WelcomeTtl]}
    /\ UNCHANGED <<joined, summary, accepted, history, commits, inbox, now>>

\* The new member validates the Welcome and starts DeliveryState::new.
Join(n, w) ==
    /\ n \notin joined
    /\ w.new_leaf = n
    /\ now <= w.expires_at
    /\ joined' = joined \cup {n}
    /\ summary' = [summary EXCEPT ![n] = w.summary]
    /\ accepted' = [accepted EXCEPT ![n] = {}]
    /\ history' = [history EXCEPT ![n] = w.history]
    /\ UNCHANGED <<commits, inbox, welcomes, now>>

Tick ==
    /\ now < MaxTime
    /\ now' = now + 1
    /\ UNCHANGED <<joined, summary, accepted, history, commits, inbox, welcomes>>

Next ==
    \/ \E m \in Members, tree \in Hashes :
         \E events \in SUBSET [epoch: {summary[m].epoch, summary[m].epoch + 1},
                               leaf: {m}, payload: Payloads] :
            Commit(m, tree, events)
    \/ \E m \in Members : \E c \in commits : DeliverCommit(m, c)
    \/ \E m, n \in Members : \E valid \in SUBSET (accepted[m] \cup accepted[n]) :
            PlanRepair(m, n, valid)
    \/ \E m \in Members : \E plan \in inbox[m] : ApplyRepairPlan(m, plan)
    \/ \E m \in Members : \E plan \in inbox[m] : LosePlan(m, plan)
    \/ \E m, n \in Members : IssueWelcome(m, n)
    \/ \E n \in Members : \E w \in welcomes : Join(n, w)
    \/ Tick

Spec == Init /\ [][Next]_vars

\* What convergence needs of the caller and the network: a member that is
\* behind is eventually handed a commit that extends its epoch, a fork between
\* two members is eventually noticed, and a member that is sent repair plans
\* again and again eventually handles one.
Fairness ==
    /\ \A m \in Members : WF_vars(\E c \in commits : DeliverCommit(m, c))
    /\ \A m, n \in Members : WF_vars(PlanRepair(m, n, accepted[m] \cup accepted[n]))
    /\ \A m \in Members : SF_vars(\E plan \in inbox[m] : ApplyRepairPlan(m, plan))

FairSpec == Spec /\ Fairness

-----------------------------------------------------------------------------
(* Properties                                                               *)

\* States, commits, plans and Welcomes keep their types.
TypeOK ==
    /\ joined \subseteq Members
    /\ summary \in [Members -> EpochSummary]
    /\ accepted \in [Members -> SUBSET ApplicationEvent]
    /\ history \in [Members -> Seq(CommitEnvelope)]
    /\ commits \subseteq CommitEnvelope
    /\ inbox \in [Members -> SUBSET RepairPlan]
    /\ welcomes \subseteq [new_leaf: Members, summary: EpochSummary,
                           history: Seq(CommitEnvelope), expires_at: Nat]
    /\ now \in Nat

\* The commits of a branch lead, one per epoch, to the state s.
Branch(s, h) ==
    /\ Len(h) = s.epoch
    /\ \A i \in 1 .. Len(h) : h[i] \in commits /\ h[i].summary.epoch = i
    /\ h # <<>> => h[Len(h)].summary = s

\* The branch a member is on has exactly one commit per epoch, in order, up to
\* the member's epoch, and its last commit is the member's state: delayed,
\* duplicated and reordered commits, stale repair plans and Welcomes never make
\* apply_commit or apply_repair_plan skip or repeat an epoch.
GaplessHistory == \A m \in joined : Branch(summary[m], history[m])

\* An application event enters accepted_events only while the member is in, or
\* enters, the epoch the event was authored under: neither a late commit nor a
\* late repair plan smuggles an event of another epoch into the state.
EventsAcceptedInTheirEpoch ==
    [][\A m \in Members : \A e \in accepted'[m] \ accepted[m] :
          e.epoch = summary'[m].epoch]_vars

\* No call of apply_commit or apply_repair_plan takes a member back to an
\* earlier epoch, whatever plan or commit is handed to it and however late.
EpochNeverDecreases ==
    [][\A m \in joined : summary'[m].epoch >= summary[m].epoch]_vars

\* Once nothing new is committed, all members end in one state: every fork is
\* detected and repaired in spite of lost and stale plans.
Convergence == <>[](\A m, n \in joined : summary[m] = summary[n])

\* The comment on apply_commit: it applies a commit only if the commit extends
\* this state without fork, that is, was built on it.
CommitExtendsState ==
    [][\A m \in Members : \A c \in commits :
          DeliverCommit(m, c) => c.parent = summary[m]]_vars
=============================================================================
