----------------------------- MODULE AuditBound -----------------------------
(***************************************************************************)
(* The confidence bound on the critical errors of a staged population      *)
(* (_hypergeom_cdf_at_most, _hypergeometric_upper_failures and             *)
(* _stratified_critical_upper_bound in audit_sample.py), in exact          *)
(* arithmetic: a probability is a number of samples, and the tail that a   *)
(* confidence leaves is one in Odds.  The documents of a stratum are       *)
(* numbered, its wrong ones first.                                         *)
(***************************************************************************)
EXTENDS Naturals, FiniteSets, FiniteSetsExt

CONSTANTS
  Cell,           (* strata: year and asset_review group                   *)
  Odds,           (* 1 - confidence = 1 / Odds                             *)
  MaxPopulation   (* bound on the documents of a stratum                   *)

ASSUME BoundAssumption ==
  IsFiniteSet(Cell) /\ Odds \in Nat \ {0, 1} /\ MaxPopulation \in Nat

VARIABLE design   (* documents of each stratum, and how many are audited   *)

Stratum ==
  {s \in [population : 0 .. MaxPopulation, draws : 0 .. MaxPopulation] :
     s.draws <= s.population}

(* The samples of n out of N documents, and the errors that one shows of   *)
(* K in all.                                                               *)
Draws(N, n) == kSubset(n, 1 .. N)
Shown(sample, K) == Cardinality(sample \intersect (1 .. K))

AtMost(N, K, n, f) == Cardinality({sample \in Draws(N, n) : Shown(sample, K) <= f})

(* P[X <= f] >= 1 / tail                                                   *)
Plausible(N, K, n, f, tail) == tail * AtMost(N, K, n, f) >= Cardinality(Draws(N, n))

Search(N, n, f, tail) ==
  LET Within[span \in (0 .. N) \X (0 .. N)] ==
        LET low == span[1]  high == span[2]  middle == (low + high + 1) \div 2 IN
        IF low >= high THEN low
        ELSE IF Plausible(N, middle, n, f, tail)
             THEN Within[<<middle, high>>] ELSE Within[<<low, middle - 1>>]
  IN Within[<<0, N>>]

UpperFailures(f, n, N, tail) ==
  IF n = 0 \/ f >= n THEN N ELSE IF n >= N THEN f ELSE Search(N, n, f, tail)

(* The tail is shared by the strata that are sampled and not a census.     *)
Uncertain(d) == {c \in Cell : d[c].draws > 0 /\ d[c].draws < d[c].population}
TailOf(d) == Odds * IF Uncertain(d) = {} THEN 1 ELSE Cardinality(Uncertain(d))

(* Mutant: a stratum without a sample is taken to be clean.                *)
UnsampledIsClean(s, f, tail) ==
  IF s.draws = 0 THEN 0
  ELSE IF s.draws = s.population THEN f
  ELSE UpperFailures(f, s.draws, s.population, tail)

(* A stratum that is a census counts what it shows, an unsampled one all.  *)
StratumBound(s, f, tail) ==
  IF s.draws = 0 THEN s.population
  ELSE IF s.draws = s.population THEN f
  ELSE UpperFailures(f, s.draws, s.population, tail)

(* The sum of a number of each stratum.                                    *)
Total(f) ==
  LET sum[cells \in SUBSET Cell] ==
        IF cells = {} THEN 0
        ELSE LET c == CHOOSE x \in cells : TRUE IN f[c] + sum[cells \ {c}]
  IN sum[Cell]

(* The bound on the critical failures of all strata.                       *)
UpperTotal(d, found) == Total([c \in Cell |-> StratumBound(d[c], found[c], TailOf(d))])

BoundInit == design = [c \in Cell |-> [population |-> 0, draws |-> 0]]

(* An audit freezes another sampling design.                               *)
FreezeDesign ==
  /\ design = [c \in Cell |-> [population |-> 0, draws |-> 0]]
  /\ design' \in [Cell -> Stratum]

BoundSpec == BoundInit /\ [][FreezeDesign]_design

-----------------------------------------------------------------------------
BoundTypeOK == design \in [Cell -> Stratum]

(* The binary search finds the largest number of errors that the audited   *)
(* documents leave plausible, though it tries only some of the numbers.    *)
SearchIsExact ==
  \A c \in Cell : \A f \in 0 .. design[c].draws :
    LET s == design[c]  tail == TailOf(design) IN
    s.draws \in 1 .. s.population - 1 /\ f < s.draws =>
      Search(s.population, s.draws, f, tail) =
        Max({K \in 0 .. s.population : Plausible(s.population, K, s.draws, f, tail)})

(* The samples that can be drawn of all strata together.                   *)
Sampling ==
  {samples \in [Cell -> UNION {Draws(design[c].population, design[c].draws) : c \in Cell}] :
     \A c \in Cell : samples[c] \in Draws(design[c].population, design[c].draws)}

(* Whatever the errors of the population are, of all the samples that can  *)
(* be drawn at most one in Odds leads to a bound below them: the audit     *)
(* certifies what its confidence says, over all strata together.           *)
BoundCovers ==
  LET counts == [Cell -> 0 .. Max({design[c].population : c \in Cell})]
      bound == [found \in counts |-> UpperTotal(design, found)]
      sampling == Sampling IN
  \A wrong \in counts :
    (\A c \in Cell : wrong[c] <= design[c].population) =>
      LET missed == {samples \in sampling :
                       bound[[c \in Cell |-> Shown(samples[c], wrong[c])]] < Total(wrong)}
      IN Odds * Cardinality(missed) <= Cardinality(sampling)

(* The bound that decides over a sample is exact where it is searched for  *)
(* and covers the errors it was not shown.                                 *)
BoundIsSound == BoundTypeOK /\ SearchIsExact /\ BoundCovers
=============================================================================
