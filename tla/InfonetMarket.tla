--------------------------- MODULE InfonetMarket ---------------------------
(***************************************************************************)
(* One staked prediction market of the Infonet economy:                    *)
(* services/infonet/markets/ and reputation/oracle_rep.py.                 *)
(*                                                                         *)
(* The chain keeps predictions, snapshots, evidence, resolution stakes,    *)
(* identity rotations and finalizations; the phase of the market, who may  *)
(* judge it, how it resolves, what the stakes pay and who earns oracle rep *)
(* are all computed from it.  Nodes post in any phase; producers read the  *)
(* chain, build the event that advances the phase, and append it later,    *)
(* when the chain may have moved on.  Events are stamped with the clock on *)
(* the wall; phases go by the chain's majority time, which runs behind it  *)
(* and moves when events land.                                             *)
(***************************************************************************)
EXTENDS Naturals, FiniteSets, FiniteSetsExt, Sequences, SequencesExt

CONSTANTS
  Nodes,             \* identities
  Producers,         \* those that watch the market to advance it
  None,              \* nothing built
  Trigger,           \* trigger_date of the market
  EvidenceWindow,    \* CONFIG["evidence_window_hours"]
  ResolutionWindow,  \* CONFIG["resolution_window_hours"]
  MinParticipants,   \* CONFIG["min_market_participants"]
  MinStake,          \* CONFIG["min_market_total_stake"], all amounts in hundredths
  MinResolution,     \* CONFIG["min_resolution_stake_total"]
  MajorityPct,       \* CONFIG["resolution_supermajority"], in percent
  UnavailablePct,    \* CONFIG["data_unavailable_threshold"]
  LoserPct,          \* CONFIG["resolution_loser_burn_pct"]
  StalematePct,      \* CONFIG["resolution_stalemate_burn_pct"]
  Stake,             \* what a prediction or a resolution stake puts in
  Bond,              \* CONFIG["evidence_bond_cost"]
  FirstBonus,        \* CONFIG["evidence_first_bonus"]
  MaxEvents,         \* bound on what nodes post
  MaxStray,          \* bound on it when they post out of phase
  MaxTime            \* bound on the clock

ASSUME MarketAssumption ==
  /\ IsFiniteSet(Nodes) /\ IsFiniteSet(Producers)
  /\ Trigger \in Nat /\ EvidenceWindow \in Nat \ {0} /\ ResolutionWindow \in Nat
  /\ MinParticipants \in Nat /\ MinStake \in Nat /\ MinResolution \in Nat \ {0}
  /\ MajorityPct \in 51..100 /\ UnavailablePct \in 1..100
  /\ LoserPct \in 0..100 /\ StalematePct \in 0..100
  /\ Stake \in Nat \ {0} /\ Bond \in Nat /\ FirstBonus \in Nat
  /\ MaxEvents \in Nat /\ MaxStray \in Nat /\ MaxTime \in Nat

VARIABLES
  clock,        \* time.time(), which stamps what lands
  now,          \* chain_majority_time, read off the chain
  predictions,  \* prediction_place events: who, which side
  snapshots,    \* market_snapshot events, in chain order
  evidence,     \* evidence_submit events, in chain order: the claimed side
  stakes,       \* resolution_stake events
  rotations,    \* identity_rotate events
  finals,       \* resolution_finalize events, in chain order
  built         \* what each producer is about to append

vars == <<clock, now, predictions, snapshots, evidence, stakes, rotations, finals,
          built>>

--------------------------------------------------------------------------
Side == {"yes", "no"}
Predictions == [node : Nodes, side : Side]
Snapshots == [at : Nat, predictors : SUBSET Nodes, total : Nat]
Stakes == [node : Nodes, side : Side \cup {"data_unavailable"},
           rep : {"oracle", "common"}]
Frozen == [predictors : SUBSET Nodes, total : Nat]
Finals == [outcome : Side \cup {"invalid"}]

AtLeast(part, pct, whole) == part * 100 >= pct * whole
Part(pct, amount) == (pct * amount) \div 100
Sum(S) == Stake * Cardinality(S)

\* mutant: the last finalization rules
Status_LastFinal ==
  IF finals # <<>>
  THEN IF Last(finals).outcome = "invalid" THEN "invalid" ELSE "final"
  ELSE IF snapshots = <<>> THEN "predicting"
  ELSE IF now < Head(snapshots).at + EvidenceWindow THEN "evidence"
  ELSE "resolving"

\* compute_market_status: the first finalization and the first snapshot rule.
Status ==
  IF finals # <<>>
  THEN IF Head(finals).outcome = "invalid" THEN "invalid" ELSE "final"
  ELSE IF snapshots = <<>> THEN "predicting"
  ELSE IF now < Head(snapshots).at + EvidenceWindow THEN "evidence"
  ELSE "resolving"

\* rotation_descendants of some identities.
Successors(S) == {r.new : r \in {q \in rotations : q.old \in S}}

\* mutant: the identities rotated to, and not what those rotated to
Descendants_Next(S) == Successors(S)

\* The smallest set they lead to that rotations do not lead out of.
Closed(C) == \A r \in rotations : r.old \in C => r.new \in C
Descendants(S) ==
  {n \in Nodes : \A C \in SUBSET Nodes :
     Successors(S) \subseteq C /\ Closed(C) => n \in C}

\* mutant: of the last snapshot
Excluded_Last ==
  IF snapshots = <<>> THEN {}
  ELSE LET frozen == Last(snapshots).predictors
       IN  frozen \cup Descendants(frozen)

\* excluded_predictor_ids
Excluded ==
  IF snapshots = <<>> THEN {}
  ELSE LET frozen == Head(snapshots).predictors
       IN  frozen \cup Descendants(frozen)

\* collect_resolution_stakes
Counted == {s \in stakes : s.node \notin Excluded}
On(side, rep) == {s \in Counted : s.side = side /\ s.rep = rep}
Oracle(side) == Sum(On(side, "oracle"))
DataUnavailable ==
  LET all == Sum({s \in Counted : s.rep = "oracle"})
  IN  all > 0 /\ AtLeast(Oracle("data_unavailable"), UnavailablePct, all)

\* resolve_market: what decides, and the outcome.
Winner ==
  LET all == Oracle("yes") + Oracle("no")
  IN  IF AtLeast(Oracle("yes"), MajorityPct, all) THEN "yes"
      ELSE IF AtLeast(Oracle("no"), MajorityPct, all) THEN "no" ELSE "invalid"
Reason ==
  IF evidence = <<>> THEN "no_evidence"
  ELSE IF DataUnavailable THEN "data_unavailable"
  ELSE IF Oracle("yes") + Oracle("no") < MinResolution THEN "below_minimum"
  ELSE IF Winner = "invalid" THEN "no_supermajority"
  ELSE IF \A e \in ToSet(evidence) : e # Winner THEN "no_winning_evidence"
  ELSE "supermajority"
Outcome == IF Reason = "supermajority" THEN Winner ELSE "invalid"

\* What the stakes and bonds turn into.  A rep type without winners, or
\* without losers, distributes nothing.
Winning(rep) == On(Winner, rep)
Losing(rep) ==
  {s \in Counted : s.rep = rep /\ s.side \notin {Winner, "data_unavailable"}}
Settles(rep) ==
  Reason = "supermajority" /\ Winning(rep) # {} /\ Losing(rep) # {}
LostTo(rep) == IF Settles(rep) THEN Sum(Losing(rep)) ELSE 0
NotUnavailable == {s \in Counted : s.side # "data_unavailable"}
StakesBurned ==
  CASE Reason = "no_supermajority" -> Part(StalematePct, Sum(Counted))
    [] Reason = "data_unavailable" -> Part(StalematePct, Sum(NotUnavailable))
    [] OTHER -> Part(LoserPct, LostTo("oracle")) + Part(LoserPct, LostTo("common"))
StakesBack ==
  IF Reason = "supermajority"
  THEN Sum(Counted \ (Losing("oracle") \cup Losing("common")))
  ELSE Sum(Counted) - StakesBurned
Winnings == LostTo("oracle") + LostTo("common")
            - (IF Reason = "supermajority" THEN StakesBurned ELSE 0)

BondsFor(side) == Bond * Cardinality({i \in DOMAIN evidence : evidence[i] = side})
LosingBonds == IF Winner = "yes" THEN BondsFor("no") ELSE BondsFor("yes")
BondsBack ==
  CASE Reason = "supermajority" -> BondsFor(Winner)
    [] Reason = "data_unavailable" -> 0
    [] OTHER -> Bond * Len(evidence)
\* The first to submit for the winning side, out of the losers' bonds.
Bonus ==
  IF Reason = "supermajority" THEN Min({FirstBonus, LosingBonds}) ELSE 0

\* mutant: what the bonus leaves of the losers' bonds is forgotten
BondsBurned_Spent ==
  IF Reason = "data_unavailable" THEN Bond * Len(evidence) ELSE 0

BondsBurned ==
  CASE Reason = "supermajority" -> LosingBonds - Bonus
    [] Reason = "data_unavailable" -> Bond * Len(evidence)
    [] OTHER -> 0

\* oracle_rep: _index_markets keeps the last snapshot and the last
\* finalization, and every prediction whenever it came.
Liquid(s) == Cardinality(s.predictors) >= MinParticipants /\ s.total >= MinStake
Mintable ==
  /\ finals # <<>> /\ Last(finals).outcome # "invalid"
  /\ snapshots # <<>> /\ Liquid(Last(snapshots))
Earners ==
  IF Mintable
  THEN {p.node : p \in {q \in predictions : q.side = Last(finals).outcome}}
  ELSE {}

--------------------------------------------------------------------------
Init ==
  /\ clock = 0 /\ now = 0 /\ predictions = {} /\ snapshots = <<>> /\ evidence = <<>>
  /\ stakes = {} /\ rotations = {} /\ finals = <<>>
  /\ built = [p \in Producers |-> None]

\* The chain's median once an event stamped now has landed: how far it moves
\* is up to who has posted when, but no stamp is behind those before it.
Lands == now' \in now..clock

Posts == Cardinality(predictions) + Len(evidence) + Cardinality(stakes)
           + Cardinality(rotations)

\* POST /append takes an event in any phase; a page offers it in its own.
MayPost(phase) == Posts < IF Status = phase THEN MaxEvents ELSE MaxStray

Predict(n, side) ==
  /\ MayPost("predicting")
  /\ predictions' = predictions \cup {[node |-> n, side |-> side]} /\ Lands
  /\ UNCHANGED <<clock, snapshots, evidence, stakes, rotations, finals, built>>

SubmitEvidence(side) ==
  /\ MayPost("evidence")
  /\ evidence' = Append(evidence, side) /\ Lands
  /\ UNCHANGED <<clock, predictions, snapshots, stakes, rotations, finals, built>>

StakeOn(n, side, rep) ==
  /\ MayPost("resolving")
  /\ stakes' = stakes \cup {[node |-> n, side |-> side, rep |-> rep]} /\ Lands
  /\ UNCHANGED <<clock, predictions, snapshots, evidence, rotations, finals, built>>

\* validate_rotation: not while the old identity has a stake in an open market.
Rotate(old, new) ==
  /\ old # new /\ Posts < MaxEvents
  /\ finals = <<>> => \A s \in stakes : s.node # old
  /\ rotations' = rotations \cup {[old |-> old, new |-> new]} /\ Lands
  /\ UNCHANGED <<clock, predictions, snapshots, evidence, stakes, finals, built>>

\* should_advance_phase: PREDICTING to EVIDENCE is due; build_snapshot.
BuildSnapshot(p) ==
  /\ built[p] = None /\ finals = <<>> /\ snapshots = <<>> /\ now >= Trigger
  /\ built' = [built EXCEPT ![p] =
       [predictors |-> {q.node : q \in predictions}, total |-> Sum(predictions)]]
  /\ UNCHANGED <<clock, now, predictions, snapshots, evidence, stakes, rotations, finals>>

\* mutant: the windows are counted from the trigger, snapshot or not
BuildFinal_FromTrigger(p) ==
  /\ built[p] = None /\ finals = <<>>
  /\ now >= Trigger + EvidenceWindow + ResolutionWindow
  /\ built' = [built EXCEPT ![p] = [outcome |-> Outcome]]
  /\ UNCHANGED <<clock, now, predictions, snapshots, evidence, stakes, rotations, finals>>

\* should_advance_phase: RESOLVING to FINAL is due; resolve_market.
BuildFinal(p) ==
  /\ built[p] = None /\ finals = <<>> /\ snapshots # <<>>
  /\ now >= Head(snapshots).at + EvidenceWindow + ResolutionWindow
  /\ built' = [built EXCEPT ![p] = [outcome |-> Outcome]]
  /\ UNCHANGED <<clock, now, predictions, snapshots, evidence, stakes, rotations, finals>>

\* POST /append takes what was built, whatever landed in the meantime.
Post(p) ==
  /\ built[p] # None
  /\ IF "outcome" \in DOMAIN built[p]
     THEN finals' = Append(finals, built[p]) /\ UNCHANGED snapshots
     ELSE /\ snapshots' = Append(snapshots,
               [at |-> clock, predictors |-> built[p].predictors, total |-> built[p].total])
          /\ UNCHANGED finals
  /\ built' = [built EXCEPT ![p] = None] /\ Lands
  /\ UNCHANGED <<clock, predictions, evidence, stakes, rotations>>

\* Any other event.
OtherEvent ==
  Lands /\ UNCHANGED <<clock, predictions, snapshots, evidence, stakes, rotations,
                      finals, built>>

Tick ==
  /\ clock < MaxTime /\ clock' = clock + 1
  /\ UNCHANGED <<now, predictions, snapshots, evidence, stakes, rotations, finals, built>>

Next ==
  \/ Tick \/ OtherEvent
  \/ \E side \in Side : SubmitEvidence(side) \/ \E n \in Nodes : Predict(n, side)
  \/ \E n \in Nodes, side \in Side \cup {"data_unavailable"},
        rep \in {"oracle", "common"} : StakeOn(n, side, rep)
  \/ \E old, new \in Nodes : Rotate(old, new)
  \/ \E p \in Producers : BuildSnapshot(p) \/ BuildFinal(p) \/ Post(p)

Spec == Init /\ [][Next]_vars

--------------------------------------------------------------------------
\* The types of the variables; a final is never on the chain before a
\* snapshot, and the chain's time does not run ahead of the clock.
TypeOK ==
  /\ clock \in Nat /\ now \in 0..clock
  /\ predictions \subseteq Predictions /\ stakes \subseteq Stakes
  /\ snapshots \in Seq(Snapshots) /\ evidence \in Seq(Side)
  /\ finals \in Seq(Finals) /\ rotations \subseteq [old : Nodes, new : Nodes]
  /\ built \in [Producers -> {None} \cup Frozen \cup Finals]
  /\ finals # <<>> => snapshots # <<>>

\* Two producers may advance the market at once and each post an event built
\* from its own reading; still the market never goes back to an earlier
\* phase, and what it was first finalized to it stays.
Phase(s) == CASE s = "predicting" -> 0 [] s = "evidence" -> 1
              [] s = "resolving" -> 2 [] OTHER -> 3
StatusAdvances ==
  [][ /\ Phase(Status') >= Phase(Status)
      /\ Phase(Status) = 3 => Status' = Status ]_vars

\* Who may not judge the market is settled by its first snapshot and grows
\* only with the identities its predictors rotate to: no later snapshot and
\* no rotation lets an excluded identity judge.
ExclusionOnlyGrows == [][Excluded \subseteq Excluded']_vars

\* An identity a predictor has become, in however many rotations and whenever
\* they landed, has no stake that counts.
PredictorsDoNotJudge ==
  snapshots # <<>> => \A s \in Counted :
    /\ s.node \notin Head(snapshots).predictors
    /\ \A r \in rotations : r.new = s.node => r.old \notin Excluded

\* However the market resolves, what stakers and submitters get back, win and
\* lose to the fire is what they put in, except that losing stakes of a rep
\* type nobody won in are neither paid out nor burned.
Unclaimed ==
  IF Reason = "supermajority"
  THEN Sum({s \in Counted : s \in Losing(s.rep) /\ Winning(s.rep) = {}})
  ELSE 0
EveryStakeIsAccounted ==
  StakesBack + Winnings + StakesBurned + BondsBack + Bonus + BondsBurned + Unclaimed
    = Sum(Counted) + Bond * Len(evidence)

\* "The snapshot is the commitment boundary for all downstream evaluation":
\* whoever earns oracle rep from the market is excluded from judging it.
EarnersDoNotJudge == Earners \subseteq Excluded

\* Oracle rep is minted only in a market that is final, not invalid.
MintFollowsStatus == Earners # {} => Status = "final"
=============================================================================
