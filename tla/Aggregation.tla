----------------------------- MODULE Aggregation ------------------------------
(***************************************************************************)
(* The arithmetic of server/weight_buffer.cpp for one scope: submissions   *)
(* are clipped and buffered, a full round is aggregated by FedAvg, Krum or *)
(* trimmed mean, smoothed by server momentum, noised for differential      *)
(* privacy and clipped again; the result is published once its checkpoint  *)
(* is written.                                                             *)
(*                                                                         *)
(* A tensor has one dimension and a whole-number value; what is computed   *)
(* from tensors is an exact fraction (float rounding is left out).  The    *)
(* rounds, leases and files around it are in WeightBuffer and ControlPlane.*)
(***************************************************************************)
EXTENDS FederationBase, Integers, FiniteSetsExt

CONSTANTS
    Configs,    \* configurations the server may be started with
    Values,     \* tensor values clients may submit
    Sizes,      \* dataset sizes they may claim
    Noises,     \* values the Gaussian noise may take, 0 among them
    Overflow,   \* the least magnitude whose square is not a finite float
    IntSize,    \* number of values of an int
    MaxModels,  \* per strategy, bound on published models
    MaxFailures \* bound on failed writes between two publications

Fraction == [num : Int, den : Nat \ {0}]

ASSUME AggregationAssumption ==
    /\ Configs \subseteq [strategy : {"fedavg", "krum", "trimmed_mean"},
                          required : Nat \ {0}, clip : Nat \ {0}, beta : Fraction,
                          momentum : Fraction]
    /\ \A cfg \in Configs :
          /\ cfg.beta.num >= 0 /\ 2 * cfg.beta.num < cfg.beta.den
          /\ cfg.momentum.num >= 0
          /\ cfg.clip < Overflow
    /\ Values \subseteq Int
    /\ Noises \subseteq Int /\ 0 \in Noises
    /\ IntSize \in Nat /\ Sizes \subseteq 1 .. IntSize \div 2 - 1
    /\ MaxModels \in [{"fedavg", "krum", "trimmed_mean"} -> Nat] /\ MaxFailures \in Nat

VARIABLES
    config,     \* the server's configuration, fixed
    buffered,   \* round_weights_ and round_dataset_sizes_ of the open round
    latest,     \* latest_models_[scope].weights
    velocity,   \* optimizer_velocity_[scope]
    published,  \* the models recorded so far, readable from their checkpoints
    versions,   \* how many that were
    averaged,   \* history: the entries the model just published was made from
    noise,      \* history: the noise added to it
    wrapped,    \* history: an int of dataset sizes overflowed since start-up
    failures    \* history: checkpoint writes that failed since a publication

aggregationVars == <<config, buffered, latest, velocity, published, versions, averaged,
                     noise, wrapped, failures>>

NoEntries == [c \in {} |-> 0]
None == [num |-> 0, den |-> 0]

-----------------------------------------------------------------------------
(* Fractions, in lowest terms *)

Ratio(n, d) ==
    LET g == Max({x \in 1 .. d : n % x = 0 /\ d % x = 0})
    IN [num |-> n \div g, den |-> d \div g]
Whole(n) == [num |-> n, den |-> 1]
Plus(p, q) == Ratio(p.num * q.den + q.num * p.den, p.den * q.den)
Minus(p, q) == Ratio(p.num * q.den - q.num * p.den, p.den * q.den)
Times(p, q) == Ratio(p.num * q.num, p.den * q.den)
AtMost(p, q) == p.num * q.den <= q.num * p.den

(* The p-th smallest value of f, counted with repetition. *)
Nth(f, p) ==
    CHOOSE v \in {f[x] : x \in DOMAIN f} :
        /\ Cardinality({x \in DOMAIN f : f[x] < v}) < p
        /\ p <= Cardinality({x \in DOMAIN f : f[x] <= v})

-----------------------------------------------------------------------------
(* Clipping.  A norm that overflows scales the tensor to nothing. *)

ClipWeights(v, clip) ==
    CASE v \in -clip .. clip       -> v
      [] Max({v, -v}) >= Overflow  -> 0
      [] OTHER                     -> IF v > 0 THEN clip ELSE -clip

ClipResult(x, clip) ==
    IF AtMost(Whole(clip), x) THEN Whole(clip)
    ELSE IF AtMost(x, Whole(-clip)) THEN Whole(-clip) ELSE x

-----------------------------------------------------------------------------
(* Aggregation of a round's entries w: client |-> [value, size] *)

ValuesOf(w) == [c \in DOMAIN w |-> w[c].value]
TotalSize(w) == MapThenSumSet(LAMBDA c : w[c].size, DOMAIN w)

(* What the build makes of an int that overflows. *)
Int32(n) == ((n + IntSize \div 2) % IntSize) - (IntSize \div 2)

Mean(w) == Ratio(MapThenSumSet(LAMBDA c : w[c].value, DOMAIN w), Cardinality(DOMAIN w))
AggFedAvg(w) ==
    LET total_samples == Int32(TotalSize(w)) IN
    IF total_samples > 0
    THEN Ratio(MapThenSumSet(LAMBDA c : w[c].value * w[c].size, DOMAIN w), total_samples)
    ELSE Mean(w)

(* Distances to all others; the k smallest make the score. *)
KrumOutliers(n) == (n - 3) \div 2
KrumNeighbours(n) == n - KrumOutliers(n) - 2
Distance(w, c, d) == (w[c].value - w[d].value) * (w[c].value - w[d].value)
KrumScore(w, c) ==
    LET distances == [d \in DOMAIN w \ {c} |-> Distance(w, c, d)]
    IN MapThenSumSet(LAMBDA p : Nth(distances, p), 1 .. KrumNeighbours(Cardinality(DOMAIN w)))

(* Mutant: the comparison of scores is the wrong way round. *)
AggKrumFarthest(w) ==
    IF Cardinality(DOMAIN w) < 3 THEN {Mean(w)}
    ELSE LET score == [c \in DOMAIN w |-> KrumScore(w, c)]
         IN {Whole(w[c].value) : c \in {c \in DOMAIN w :
                                            \A d \in DOMAIN w : score[c] >= score[d]}}
(* Ties go to the first client of an unordered map. *)
AggKrum(w) ==
    IF Cardinality(DOMAIN w) < 3 THEN {Mean(w)}
    ELSE LET score == [c \in DOMAIN w |-> KrumScore(w, c)]
         IN {Whole(w[c].value) : c \in {c \in DOMAIN w :
                                            \A d \in DOMAIN w : score[c] <= score[d]}}

TrimCount(n) == (config.beta.num * n) \div config.beta.den
(* Mutant: the sum is divided by the number of clients. *)
AggTrimmedMeanOfAll(w) ==
    LET n == Cardinality(DOMAIN w)
        t == TrimCount(n)
    IN Ratio(MapThenSumSet(LAMBDA p : Nth(ValuesOf(w), p), t + 1 .. n - t), n)
(* As beta < 1/2, something is left after trimming. *)
AggTrimmedMean(w) ==
    LET n == Cardinality(DOMAIN w)
        t == TrimCount(n)
    IN Ratio(MapThenSumSet(LAMBDA p : Nth(ValuesOf(w), p), t + 1 .. n - t), n - 2 * t)

Aggregates(w) ==
    CASE config.strategy = "krum"         -> AggKrum(w)
      [] config.strategy = "trimmed_mean" -> {AggTrimmedMean(w)}
      [] OTHER                            -> {AggFedAvg(w)}

-----------------------------------------------------------------------------
(* Momentum and noise *)

Smoothing == latest # None /\ config.momentum.num > 0
NextVelocity(a) ==
    IF Smoothing THEN Plus(Times(config.momentum, velocity), Minus(a, latest)) ELSE velocity
Smoothed(a) == IF Smoothing THEN Plus(latest, NextVelocity(a)) ELSE a

(* Mutant: the noised result is not clipped again. *)
NoisedUnclipped(x, e) == Plus(x, Whole(e))
Noised(x, e) == ClipResult(Plus(x, Whole(e)), config.clip)

-----------------------------------------------------------------------------
(* AddWeightAndCheckAggregate *)

(* Mutant: the submission is clipped, the original is stored. *)
WithEntryUnclipped(c, v, s) ==
    [d \in DOMAIN buffered \union {c} |->
        IF d = c THEN [value |-> v, size |-> s] ELSE buffered[d]]
WithEntry(c, v, s) ==
    [d \in DOMAIN buffered \union {c} |->
        IF d = c THEN [value |-> ClipWeights(v, config.clip), size |-> s] ELSE buffered[d]]
Full(w) == Cardinality(DOMAIN w) >= config.required

Wraps(w) == TotalSize(w) >= IntSize \div 2

Buffered(c, v, s) ==
    /\ ~Full(WithEntry(c, v, s))
    /\ buffered' = WithEntry(c, v, s)
    /\ averaged' = NoEntries
    /\ UNCHANGED <<config, latest, velocity, published, versions, noise, wrapped,
                   failures>>

(* The last submission is taken back, the velocity is not.                 *)
WriteFails(c, v, s) ==
    /\ failures < MaxFailures
    /\ Full(WithEntry(c, v, s))
    /\ \E a \in Aggregates(WithEntry(c, v, s)) : velocity' = NextVelocity(a)
    /\ failures' = failures + 1
    /\ averaged' = NoEntries
    /\ wrapped' = (wrapped \/ Wraps(WithEntry(c, v, s)))
    /\ UNCHANGED <<config, buffered, latest, published, versions, noise>>

Published(c, v, s) ==
    /\ Full(WithEntry(c, v, s))
    /\ noise' \in Noises
    /\ \E a \in Aggregates(WithEntry(c, v, s)) :
          /\ velocity' = NextVelocity(a)
          /\ latest' = Noised(Smoothed(a), noise')
    /\ averaged' = WithEntry(c, v, s)
    /\ buffered' = NoEntries
    /\ published' = published \union {latest'}
    /\ versions' = versions + 1
    /\ failures' = 0
    /\ wrapped' = (wrapped \/ Wraps(averaged'))
    /\ UNCHANGED config

(* The handler has seen to it that c has not submitted for this round. *)
AddWeightAndCheckAggregate(c, v, s) ==
    /\ c \notin DOMAIN buffered
    /\ versions < MaxModels[config.strategy]
    /\ Buffered(c, v, s) \/ WriteFails(c, v, s) \/ Published(c, v, s)

(* A rollback leaves the velocity alone. *)
RestoreLatestGlobalModel(model) ==
    /\ latest' = model
    /\ averaged' = NoEntries
    /\ UNCHANGED <<config, buffered, velocity, published, versions, noise, wrapped,
                   failures>>

(* The buffer and the velocity are gone; the active model is restored if   *)
(* its checkpoint can be read.                                             *)
Restart ==
    /\ buffered' = NoEntries
    /\ averaged' = NoEntries
    /\ velocity' = Whole(0)
    /\ wrapped' = FALSE
    /\ failures' = 0
    /\ latest' \in {latest, None}
    /\ UNCHANGED <<config, published, versions, noise>>

AggregationInit ==
    /\ config \in Configs
    /\ buffered = NoEntries
    /\ averaged = NoEntries
    /\ latest = None
    /\ velocity = Whole(0)
    /\ published = {}
    /\ versions = 0
    /\ noise = 0
    /\ wrapped = FALSE
    /\ failures = 0

AggregationNext ==
    \/ \E c \in Clients, v \in Values, s \in Sizes : AddWeightAndCheckAggregate(c, v, s)
    \/ \E model \in published : RestoreLatestGlobalModel(model)
    \/ Restart

AggregationSpec == AggregationInit /\ [][AggregationNext]_aggregationVars

-----------------------------------------------------------------------------
(* Properties *)

(* Every number has its type; what waits in the buffer is clipped and short*)
(* of a round.                                                             *)
AggregationTypeOK ==
    /\ config \in Configs
    /\ \A w \in {buffered, averaged} :
          /\ DOMAIN w \subseteq Clients
          /\ \A c \in DOMAIN w : w[c] \in [value : -config.clip .. config.clip, size : Sizes]
    /\ ~Full(buffered)
    /\ latest \in Fraction \union {None}
    /\ velocity \in Fraction
    /\ published \subseteq Fraction /\ versions \in 0 .. MaxModels[config.strategy]
    /\ noise \in Noises /\ wrapped \in BOOLEAN /\ failures \in 0 .. MaxFailures

(* But for momentum and noise, whatever the strategy, the model just       *)
(* published is between the least and the greatest of the (clipped)        *)
(* submissions it was made from, provided the sizes the clients claim add  *)
(* up in an int.  (If they do not, FedAvg's factors need not add up to 1.) *)
Plain == config.momentum.num = 0 /\ noise = 0
Between(x, w, S) == \E c, d \in S : AtMost(Whole(w[c].value), x) /\ AtMost(x, Whole(w[d].value))
WithinSubmissions ==
    averaged # NoEntries /\ Plain /\ ~Wraps(averaged) =>
        Between(latest, averaged, DOMAIN averaged)

(* docs/threat-model.md:40-41: Krum filters outliers, trimmed mean drops   *)
(* the extremes.  Take away any clients, as many as the strategy allows for*)
(* (Krum's f, the trim count): the model is still between the remaining    *)
(* ones (trimmed mean), or not farther from one of them than k of their    *)
(* widest distances (Krum).  With few clients both numbers are 0 and       *)
(* nothing is filtered.                                                    *)
Square(x) == Times(x, x)
FilteredBy(S) ==
    IF config.strategy = "krum"
    THEN \E c, d, e \in S :
            AtMost(Square(Minus(latest, Whole(averaged[c].value))),
                   Whole(KrumNeighbours(Cardinality(DOMAIN averaged)) * Distance(averaged, d, e)))
    ELSE Between(latest, averaged, S)
Tolerated(n) == CASE config.strategy = "krum" -> IF n < 3 THEN 0 ELSE KrumOutliers(n)
                  [] config.strategy = "trimmed_mean" -> TrimCount(n)
                  [] OTHER -> 0
OutliersFiltered ==
    averaged # NoEntries /\ Plain /\ config.strategy # "fedavg" =>
        \A B \in kSubset(Tolerated(Cardinality(DOMAIN averaged)), DOMAIN averaged) :
            FilteredBy(DOMAIN averaged \ B)

(* Server momentum below 1 never builds up beyond the sum of its series:   *)
(* a round pulls by at most twice the clipping norm, as the model it pulls *)
(* at was clipped after the noise, and so was everything it is pulled to.  *)
(* This holds although a round is counted again for every checkpoint write *)
(* that failed, and although a rollback leaves the velocity of the models  *)
(* it skips; unless dataset sizes have wrapped.                            *)
MomentumBounded ==
    config.momentum.num < config.momentum.den /\ ~wrapped =>
        LET Slack == Ratio(config.momentum.den - config.momentum.num, config.momentum.den)
            Pull == Times(velocity, Slack)
        IN AtMost(Pull, Whole(2 * config.clip)) /\ AtMost(Whole(-2 * config.clip), Pull)

=============================================================================
