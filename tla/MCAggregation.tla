---------------------------- MODULE MCAggregation -----------------------------
(***************************************************************************)
(* Small instances of the aggregation arithmetic.                          *)
(***************************************************************************)
EXTENDS Aggregation, TLC

CONSTANTS c1, c2, c3, c4, c5

Cfg(strategy, required, beta, momentum) ==
    [strategy |-> strategy, required |-> required, clip |-> 2, beta |-> beta,
     momentum |-> momentum]
Tenth == [num |-> 1, den |-> 10]
Quarter == [num |-> 1, den |-> 4]
Half == [num |-> 1, den |-> 2]
Zero == [num |-> 0, den |-> 1]

(* Every strategy with enough clients to tolerate an outlier, Krum also    *)
(* with too few of them, and momentum.                                     *)
AllConfigs ==
    {Cfg("fedavg", 2, Tenth, Zero), Cfg("fedavg", 1, Tenth, Half),
     Cfg("krum", 2, Tenth, Zero), Cfg("krum", 5, Tenth, Zero),
     Cfg("trimmed_mean", 4, Quarter, Zero)}

(* -3 is clipped, 20 overflows. *)
SomeValues == {-3, 1, 20}
SomeNoises == {-3, 0}

(* Models depend on each other only through momentum, which is FedAvg's.   *)
ModelBound == [strategy \in {"fedavg", "krum", "trimmed_mean"} |->
                  IF strategy = "fedavg" THEN 3 ELSE 2]

Symmetry == Permutations({c1, c2, c3, c4, c5})
=============================================================================
