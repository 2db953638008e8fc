-------------------------- MODULE InfonetPetition --------------------------
(***************************************************************************)
(* One petition of the Infonet economy: services/infonet/governance/       *)
(* petition.py and challenge.py.                                           *)
(*                                                                         *)
(* The chain keeps what nodes say: a petition is filed, signed, voted on,  *)
(* challenged, executed.  Its status is nowhere stored; everyone computes  *)
(* it from the chain and from a time that is itself read off the chain.    *)
(* POST /append takes any of these events in any phase, before the filing  *)
(* too: what counts is decided when the status is computed.                *)
(*                                                                         *)
(* There are two clocks.  An event is stamped with the clock on the wall   *)
(* when it lands.  The status is computed for the chain's majority time,   *)
(* the median of the last stamps of up to eleven nodes, which stands still *)
(* while nobody posts, runs behind the clock and jumps when events land.   *)
(***************************************************************************)
EXTENDS Naturals, FiniteSets, FiniteSetsExt

CONSTANTS
  Nodes,            \* nodes of the network
  Reps,             \* balances of oracle rep a node may have
  Start,            \* the balances the model starts with
  Decayed,          \* what is left of a balance so long after a success
  SignPct,          \* CONFIG["petition_signature_threshold"], in percent
  QuorumPct,        \* CONFIG["petition_quorum"]
  MajorityPct,      \* CONFIG["petition_supermajority"]
  SignWindow,       \* CONFIG["petition_signature_window_days"]
  VoteWindow,       \* CONFIG["petition_vote_window_days"]
  ChallengeWindow,  \* CONFIG["challenge_window_hours"]
  None,             \* no such event on the chain
  Bounds,           \* bounds on the events on the chain and on the clock
  MaxTime           \* the largest of these

\* Governance decay never adds to a weight and never takes all of it.
ASSUME PetitionAssumption ==
  /\ IsFiniteSet(Nodes) /\ Reps \subseteq Nat /\ Start \in [Nodes -> Reps]
  /\ Decayed \in [Reps -> [0..MaxTime -> Nat]]
  /\ \A r \in Reps : \A a \in 0..MaxTime :
       /\ Decayed[r][a] > 0 <=> r > 0
       /\ \A b \in a..MaxTime : Decayed[r][b] <= Decayed[r][a]
  /\ SignPct \in 1..100 /\ QuorumPct \in 1..100 /\ MajorityPct \in 51..100
  /\ SignWindow \in Nat /\ VoteWindow \in Nat /\ ChallengeWindow \in Nat
  /\ None \notin Nat
  /\ MaxTime \in Nat
  /\ Bounds \subseteq [filed : 0..MaxTime, signs : Nat, votes : Nat,
                      rulings : Nat, earned : Nat, time : 0..MaxTime]

VARIABLES
  bound,       \* the bounds of this behaviour
  clock,       \* time.time(), which stamps what lands
  now,         \* chain_majority_time, which states are computed for
  rep,         \* each node's oracle rep, 0 without a success
  success,     \* when its last successful prediction was
  earned,      \* how often these changed
  filed,       \* when petition_file landed, or None
  signs,       \* petition_sign events
  votes,       \* petition_vote events
  challenged,  \* when challenge_file landed, or None
  verdicts,    \* challenge_vote events
  executed     \* petition_execute is on the chain

bounds == <<bound, earned>>
petition == <<filed, signs, votes, challenged, verdicts, executed>>
vars == <<bounds, clock, now, rep, success, petition>>

--------------------------------------------------------------------------
Signing == [node : Nodes, at : Nat]
Voting == [node : Nodes, at : Nat, vote : {"for", "against"}]
Ruling == [node : Nodes, at : Nat, vote : {"uphold", "void"}]

\* compute_oracle_rep_active: a node's weight at t, by its balance of today.
Active(n, t) ==
  Decayed[rep[n]][IF t <= success[n] THEN 0 ELSE t - success[n]]

\* The weight of some nodes, each with its own: as many as they have units.
Units(weight) == UNION {{n} \X (1..weight[n]) : n \in DOMAIN weight}
WeightOf(weight) == Cardinality(Units(weight))

\* network_governance_weight
NetworkWeight == WeightOf([n \in Nodes |-> Active(n, now)])
AtLeast(part, pct, whole) == part * 100 >= pct * whole

\* A node's first event of a kind that lies between two times.
First(events, from, to) ==
  {e \in events : /\ from <= e.at /\ e.at <= to
                  /\ \A d \in events :
                       d.node = e.node /\ from <= d.at => e.at <= d.at}
NodesOf(events) == {e.node : e \in events}
Of(n, events) == CHOOSE e \in events : e.node = n

\* Signatures: each node once, and only if its first is within the window;
\* weighed at their own time.
Signatures == First(signs, 0, filed + SignWindow)
SignerWeight(n) == Active(n, Of(n, Signatures).at)
SignedEnough ==
  LET network == NetworkWeight
  IN  /\ AtLeast(WeightOf([n \in NodesOf(Signatures) |-> SignerWeight(n)]),
                 SignPct, network)
      /\ network > 0

\* mutant: the latest event of the petition, votes too
VotingStart_Any ==
  IF signs = {} THEN filed ELSE Max({e.at : e \in signs \cup votes})

\* Voting starts with the latest signature on the chain, whoever signed.
VotingStart == IF signs = {} THEN filed ELSE Max({s.at : s \in signs})
VotingDeadline == VotingStart + VoteWindow

\* mutant: a vote of the tick the voting starts in is too early
Counted_Later == First(votes, VotingStart + 1, VotingDeadline)

\* Votes: each node's first within the window.  A signer's weight is cached
\* from its signature, any other's is that of the time of its vote.
Counted == First(votes, VotingStart, VotingDeadline)
VoterWeight(n) ==
  IF n \in NodesOf(Signatures) THEN SignerWeight(n)
  ELSE Active(n, Of(n, Counted).at)
WeightFor ==
  WeightOf([n \in NodesOf({v \in Counted : v.vote = "for"}) |-> VoterWeight(n)])
WeightAgainst ==
  WeightOf([n \in NodesOf({v \in Counted : v.vote = "against"}) |-> VoterWeight(n)])
Carried ==
  LET cast == WeightFor + WeightAgainst
  IN  /\ AtLeast(cast, QuorumPct, NetworkWeight) /\ cast # 0
      /\ AtLeast(WeightFor, MajorityPct, cast)

\* compute_challenge_state
ChallengeDeadline == challenged + ChallengeWindow
Rulings(vote) ==
  LET counted == First(verdicts, challenged, ChallengeDeadline)
  IN  WeightOf([n \in NodesOf({r \in counted : r.vote = vote}) |->
                  Active(n, Of(n, counted).at)])
ChallengeOutcome ==
  IF challenged = None THEN "none"
  ELSE IF now <= ChallengeDeadline THEN "pending"
  ELSE IF Rulings("uphold") > Rulings("void") THEN "voided" ELSE "rejected"

\* compute_petition_state
Status ==
  IF filed = None THEN "not_found"
  ELSE IF ~SignedEnough
  THEN IF now > filed + SignWindow THEN "failed_signatures" ELSE "signatures"
  ELSE IF now <= VotingDeadline THEN "voting"
  ELSE IF ~Carried THEN "failed_vote"
  ELSE IF ChallengeOutcome = "voided" THEN "voided_challenge"
  ELSE IF now <= VotingDeadline + ChallengeWindow THEN "challenge"
  ELSE IF executed THEN "executed" ELSE "passed"

--------------------------------------------------------------------------
Init ==
  /\ bound \in Bounds /\ clock = 0 /\ now = 0
  /\ rep = Start /\ success = [n \in Nodes |-> 0] /\ earned = 0
  /\ filed = None /\ challenged = None /\ executed = FALSE
  /\ signs = {} /\ votes = {} /\ verdicts = {}

\* The chain's median once an event stamped now has landed: how far it moves
\* is up to who has posted when, but no stamp is behind those before it.
Lands == now' \in now..clock

\* A node posts, in one step of the clock at most one event of a kind.
MayPost(n, events, most) ==
  Cardinality(events) < most /\ \A e \in events : e.node = n => e.at < clock

File ==
  /\ filed = None /\ clock <= bound.filed
  /\ filed' = clock /\ Lands
  /\ UNCHANGED <<bounds, clock, rep, success, signs, votes, challenged, verdicts, executed>>

\* mutant: an event keeps its author's stamp, and that clock is ahead
Sign_Ahead(n) ==
  /\ MayPost(n, signs, bound.signs)
  /\ signs' = signs \cup {[node |-> n, at |-> clock + 1]} /\ Lands
  /\ UNCHANGED <<bounds, clock, rep, success, filed, votes, challenged, verdicts, executed>>

Sign(n) ==
  /\ MayPost(n, signs, bound.signs)
  /\ signs' = signs \cup {[node |-> n, at |-> clock]} /\ Lands
  /\ UNCHANGED <<bounds, clock, rep, success, filed, votes, challenged, verdicts, executed>>

\* A node that changes its mind may vote again; its first vote counts.
Vote(n, v) ==
  /\ MayPost(n, votes, bound.votes)
  /\ votes' = votes \cup {[node |-> n, at |-> clock, vote |-> v]} /\ Lands
  /\ UNCHANGED <<bounds, clock, rep, success, filed, signs, challenged, verdicts, executed>>

\* One challenge to a petition; those after the first are not looked at.
FileChallenge ==
  /\ challenged = None
  /\ challenged' = clock /\ Lands
  /\ UNCHANGED <<bounds, clock, rep, success, filed, signs, votes, verdicts, executed>>

VoteChallenge(n, v) ==
  /\ MayPost(n, verdicts, bound.rulings)
  /\ verdicts' = verdicts \cup {[node |-> n, at |-> clock, vote |-> v]} /\ Lands
  /\ UNCHANGED <<bounds, clock, rep, success, filed, signs, votes, challenged, executed>>

Execute ==
  /\ ~executed
  /\ executed' = TRUE /\ Lands
  /\ UNCHANGED <<bounds, clock, rep, success, filed, signs, votes, challenged, verdicts>>

\* A market is settled: a node's balance changes, for all times it is weighed
\* at, and with a success its age starts anew.
Earn(n, r) ==
  /\ earned < bound.earned /\ earned' = earned + 1
  /\ rep' = [rep EXCEPT ![n] = r]
  /\ \E at \in {success[n], clock} : success' = [success EXCEPT ![n] = at]
  /\ Lands
  /\ UNCHANGED <<bound, clock, petition>>

\* Any other event.
OtherEvent == Lands /\ UNCHANGED <<bounds, clock, rep, success, petition>>

Tick ==
  /\ clock < bound.time
  /\ clock' = clock + 1
  /\ UNCHANGED <<bounds, now, rep, success, petition>>

Next ==
  \/ File \/ FileChallenge \/ Execute \/ OtherEvent \/ Tick
  \/ \E n \in Nodes :
       \/ Sign(n)
       \/ \E v \in {"for", "against"} : Vote(n, v)
       \/ \E v \in {"uphold", "void"} : VoteChallenge(n, v)
       \/ \E r \in Reps : Earn(n, r)

Spec == Init /\ [][Next]_vars

--------------------------------------------------------------------------
\* The types of the variables; nothing that has landed is stamped later than
\* the clock, and the chain's time does not run ahead of it.
TypeOK ==
  /\ bound \in Bounds /\ clock \in 0..bound.time /\ now \in 0..clock /\ earned \in Nat
  /\ rep \in [Nodes -> Reps] /\ success \in [Nodes -> 0..clock]
  /\ filed \in 0..clock \cup {None} /\ challenged \in 0..clock \cup {None}
  /\ signs \subseteq Signing /\ votes \subseteq Voting /\ verdicts \subseteq Ruling
  /\ executed \in BOOLEAN
  /\ \A e \in signs \cup votes \cup verdicts : e.at <= clock

\* The order of the statuses.  As a network's weight decays, so do the
\* threshold and the quorum: a petition that has failed may yet succeed.
Rank == [not_found |-> 0, signatures |-> 1, failed_signatures |-> 2,
         voting |-> 3, failed_vote |-> 4, challenge |-> 5, passed |-> 6,
         executed |-> 7, voided_challenge |-> 8]

\* Whatever lands out of season, however far the chain's time is behind and
\* jumps, and as weights decay, a petition goes on in this order, unless
\* someone signs (again) or a node's reputation changes: votes are not
\* reopened, what has passed is not put back to its challenge window, and
\* what was voided stays so.
PhasesAdvance ==
  [][UNCHANGED <<signs, rep, success>> => Rank[Status] <= Rank[Status']]_vars

\* A vote that lands while the petition is open to votes, and not after the
\* deadline by the clock, puts its node in the tally; and no later event,
\* unless it is a signature, takes a vote out of it or exchanges it.
EveryVoteCounts ==
  [][filed # None /\ signs' = signs =>
       /\ Counted \subseteq Counted'
       /\ votes' # votes /\ Status = "voting" /\ clock <= VotingDeadline =>
            NodesOf(votes' \ votes) \subseteq NodesOf(Counted')]_vars

--------------------------------------------------------------------------
\* What the state diagram of petition.py says, and the code does not keep.

\* The diagram has no way back.
NoWayBack == [][Rank[Status] <= Rank[Status']]_vars

\* "if challenge passes -> voided_challenge, else -> passed": a petition
\* passes when its challenge is decided.
PassedIsDecided ==
  Status \in {"passed", "executed"} => ChallengeOutcome # "pending"

============================================================================
