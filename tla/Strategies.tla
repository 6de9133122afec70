----------------------------- MODULE Strategies -----------------------------
(***************************************************************************)
(* The six strategies of the browser (soloraa_frontend/lib/strategies.ts). *)
(* A strategy's tick maps its state to the next one and the effect that    *)
(* becomes the cycle's leg; here a tick is the set of outcomes it may      *)
(* have, for Math.random and the walks of rates and weights.  Prices,      *)
(* rates and weights are told apart by the comparison the code makes of    *)
(* them: a better venue, a drift over the band, an edge over the floor.    *)
(* SOL is counted in hundredths, USDC in whole units; a notional of 1 is   *)
(* one that is positive.                                                   *)
(***************************************************************************)
EXTENDS Integers

CONSTANTS
    FillSizes,      \* sizes of a maker fill
    TrimSizes,      \* sizes of a trim, before it is cut to the inventory
    Threshold,      \* MM_INVENTORY_THRESHOLD
    Tranches,       \* DCA_TRANCHE_USDC_TARGETS, a sequence
    Edges,          \* edges a scan may find, in basis points
    EdgeFloor,      \* ARB_EDGE_FLOOR_BPS
    Venues, FirstVenue

ASSUME StrategiesAssumption ==
    /\ FillSizes \subseteq Nat \ {0} /\ FillSizes # {} /\ TrimSizes \subseteq Nat \ {0}
    /\ Threshold \in Nat \ {0}
    /\ DOMAIN Tranches = 1..3 /\ \A i \in 1..3 : Tranches[i] \in Nat \ {0}
    /\ Edges \subseteq Nat /\ EdgeFloor \in Nat
    /\ FirstVenue \in Venues

Kinds == {"market-making", "dca", "yield", "arbitrage", "treasury", "portfolio"}

Abs(n) == IF n < 0 THEN -n ELSE n
Outcome(next, memo, notional) == [next |-> next, memo |-> memo, notional |-> notional]

-----------------------------------------------------------------------------
(* Market making.  Quotes and fills below the threshold, trims at it.      *)

MMInit == [inventory |-> 0, lastAction |-> "quote"]

MMFills(s) ==
    {Outcome([inventory |-> s.inventory + side * size, lastAction |-> "fill"], "mm.fill", size) :
        side \in {-1, 1}, size \in FillSizes}

MMTrims(s) ==
    LET sign == IF s.inventory >= 0 THEN 1 ELSE -1
        cut(size) == IF size < Abs(s.inventory) THEN size ELSE Abs(s.inventory)
    IN  {Outcome([inventory |-> s.inventory - sign * cut(size), lastAction |-> "trim"],
                 "mm.rebalance", cut(size)) : size \in TrimSizes}

\* Mutant of MMTick: only a long inventory is trimmed.
MMTickLongOnly(s) ==
    IF s.inventory >= Threshold THEN MMTrims(s)
    ELSE {Outcome([s EXCEPT !.lastAction = "quote"], "mm.quote_refresh", 0)} \cup MMFills(s)

MMTick(s) ==
    IF Abs(s.inventory) >= Threshold THEN MMTrims(s)
    ELSE {Outcome([s EXCEPT !.lastAction = "quote"], "mm.quote_refresh", 0)} \cup MMFills(s)

-----------------------------------------------------------------------------
(* Dollar-cost averaging, in three tranches that rotate.                   *)

DcaInit == [spent |-> 0, tranche |-> 1]

\* Mutant of DcaTick: the index does not wrap.
DcaTickNoWrap(s) ==
    {Outcome([spent |-> s.spent + Tranches[s.tranche], tranche |-> s.tranche + 1],
             "dca.tranche", Tranches[s.tranche])}

DcaTick(s) ==
    {Outcome([spent |-> s.spent + Tranches[s.tranche], tranche |-> (s.tranche % 3) + 1],
             "dca.tranche", Tranches[s.tranche])}

-----------------------------------------------------------------------------
(* Yield.  A migration takes a probe and a venue that is better by enough. *)

YieldInit == [venue |-> FirstVenue, lastAction |-> "confirm"]

\* best: the best venue, when it beats the current one by the threshold.
YieldDecision(s, best) ==
    LET wantMigrate == best # s.venue
        cyclesSinceLast == IF s.lastAction = "confirm" THEN 1 ELSE 0
    IN  IF s.lastAction # "probe" /\ (~wantMigrate \/ cyclesSinceLast = 0)
        THEN Outcome([s EXCEPT !.lastAction = "probe"], "yield.probe_rates", 0)
        ELSE IF s.lastAction = "probe" /\ wantMigrate
        THEN Outcome([venue |-> best, lastAction |-> "migrate"], "yield.route_change", 1)
        ELSE IF s.lastAction = "migrate"
        THEN Outcome([s EXCEPT !.lastAction = "confirm"], "yield.confirm", 0)
        ELSE Outcome([s EXCEPT !.lastAction = "probe"], "yield.probe_rates", 0)

YieldTick(s) == {YieldDecision(s, best) : best \in Venues}

-----------------------------------------------------------------------------
(* Arbitrage.  A loop is closed when the edge reaches the floor.           *)

ArbInit == [scans |-> 0, loops |-> 0]

\* Mutant of ArbTick: the loop is counted whether or not it is closed.
ArbTickCountsScans(s) ==
    {Outcome([scans |-> s.scans + 1, loops |-> s.loops + 1],
             IF edge < EdgeFloor THEN "arb.scan" ELSE "arb.loop_close",
             IF edge < EdgeFloor THEN 0 ELSE 1) : edge \in Edges}

ArbTick(s) ==
    {IF edge < EdgeFloor
     THEN Outcome([s EXCEPT !.scans = @ + 1], "arb.scan", 0)
     ELSE Outcome([scans |-> s.scans + 1, loops |-> s.loops + 1], "arb.loop_close", 1) :
        edge \in Edges}

-----------------------------------------------------------------------------
(* Treasury and portfolio.  drifted: the largest drift reaches the band.   *)

TreasuryInit == [rebalances |-> 0, lastAction |-> "settle"]

\* Without a drift after the snapshot the cycle settles, and counts, too.
TreasuryTick(s) ==
    IF s.lastAction = "settle"
    THEN {Outcome([s EXCEPT !.lastAction = "snapshot"], "treasury.drift_snapshot", 0)}
    ELSE {IF s.lastAction = "snapshot" /\ drifted
          THEN Outcome([s EXCEPT !.lastAction = "swap"], "treasury.swap_leg", 1)
          ELSE Outcome([rebalances |-> s.rebalances + 1, lastAction |-> "settle"],
                       "treasury.settle", 0) : drifted \in BOOLEAN}

PortfolioInit == [rebalances |-> 0, lastAction |-> "drift_check"]

\* Mutant of PortfolioTick: a drift that is left is traded at once.
PortfolioTickAtOnce(s) ==
    {IF drifted THEN Outcome([s EXCEPT !.lastAction = side], "portfolio.trade", 1)
     ELSE IF s.lastAction \in {"sell", "buy"}
     THEN Outcome([rebalances |-> s.rebalances + 1, lastAction |-> "drift_check"],
                  "portfolio.settle", 0)
     ELSE Outcome([s EXCEPT !.lastAction = "drift_check"], "portfolio.drift_check", 0) :
        drifted \in BOOLEAN, side \in {"sell", "buy"}}

PortfolioTick(s) ==
    {IF s.lastAction = "drift_check" /\ drifted
     THEN Outcome([s EXCEPT !.lastAction = side], "portfolio.trade", 1)
     ELSE IF s.lastAction \in {"sell", "buy"}
     THEN Outcome([rebalances |-> s.rebalances + 1, lastAction |-> "drift_check"],
                  "portfolio.settle", 0)
     ELSE Outcome([s EXCEPT !.lastAction = "drift_check"], "portfolio.drift_check", 0) :
        drifted \in BOOLEAN, side \in {"sell", "buy"}}

-----------------------------------------------------------------------------
(* The registry, and what the summaries show as executed.                  *)

InitOf(kind) ==
    CASE kind = "market-making" -> MMInit
      [] kind = "dca"           -> DcaInit
      [] kind = "yield"         -> YieldInit
      [] kind = "arbitrage"     -> ArbInit
      [] kind = "treasury"      -> TreasuryInit
      [] kind = "portfolio"     -> PortfolioInit

Tick(kind, s) ==
    CASE kind = "market-making" -> MMTick(s)
      [] kind = "dca"           -> DcaTick(s)
      [] kind = "yield"         -> YieldTick(s)
      [] kind = "arbitrage"     -> ArbTick(s)
      [] kind = "treasury"      -> TreasuryTick(s)
      [] kind = "portfolio"     -> PortfolioTick(s)

DcaShown(s) == s.spent
ArbShown(s) == s.loops
\* These two count a trade with the settlement of a later cycle.
PortfolioShown(s) == s.rebalances
TreasuryShown(s) == s.rebalances
=============================================================================
