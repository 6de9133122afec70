---------------------------- MODULE StrategyLoop ----------------------------
(***************************************************************************)
(* A run of an agent as its strategy and the price feed see it: the loop   *)
(* of execution-store.ts ticks the strategy when the feed's snapshot is    *)
(* live, and the cycle's leg then is confirmed, fails, or is dropped by    *)
(* Stop.  ExecutionStore has the loop's steps in full.                     *)
(***************************************************************************)
EXTENDS Strategies, PriceFeed

CONSTANTS
    MaxTicks,   \* bound of the model: cycles of a run
    MaxMounts   \* bound of the model: components mounted with the feed's hook

ASSUME LoopAssumption == MaxTicks \in Nat /\ MaxMounts \in Nat

VARIABLES
    pc,         \* no run, the loop's head, or a cycle under way
    kind,       \* strategyKind
    strategy,   \* strategyState
    effect,     \* the outcome of the last tick
    ticks, moved, lost, calm
                \* history: cycles, the notional of the legs that were
                \* confirmed and of those that were not, and the treasury's
                \* snapshots after which nothing was to be traded

runVars == <<pc, kind, strategy, effect, ticks, moved, lost, calm>>
vars == <<runVars, feedVars>>

NoEffect == Outcome(0, "none", 0)

Starts(k) ==
    /\ pc = "off"
    /\ pc' = "top" /\ kind' = k /\ strategy' = InitOf(k) /\ effect' = NoEffect
    /\ ticks' = 0 /\ moved' = 0 /\ lost' = 0 /\ calm' = 0
    /\ UNCHANGED feedVars

\* The treasury settles with no swap since its snapshot.
Calm(outcome) ==
    kind = "treasury" /\ strategy.lastAction = "snapshot" /\ outcome.memo = "treasury.settle"

\* The state the strategy returns is stored before the leg is sent.
Ticks ==
    /\ pc = "top" /\ SnapshotLive /\ ticks < MaxTicks
    /\ \E outcome \in Tick(kind, strategy) :
          /\ strategy' = outcome.next
          /\ effect' = [outcome EXCEPT !.next = 0]
          /\ calm' = IF Calm(outcome) THEN calm + 1 ELSE calm
    /\ pc' = "cycle" /\ ticks' = ticks + 1
    /\ UNCHANGED <<kind, moved, lost, feedVars>>

LegConfirmed ==
    /\ pc = "cycle"
    /\ pc' = "top" /\ moved' = moved + effect.notional
    /\ UNCHANGED <<kind, strategy, effect, ticks, lost, calm, feedVars>>

\* The catch: the strategy is not told.
LegFailed ==
    /\ pc = "cycle"
    /\ pc' = "top" /\ lost' = lost + effect.notional
    /\ UNCHANGED <<kind, strategy, effect, ticks, moved, calm, feedVars>>

\* Stop in mid-cycle: the leg may land and is not listed.
Stops ==
    /\ pc # "off"
    /\ pc' = "off"
    /\ lost' = IF pc = "cycle" THEN lost + effect.notional ELSE lost
    /\ UNCHANGED <<kind, strategy, effect, ticks, moved, calm, feedVars>>

Mounts == refCount < MaxMounts /\ Subscribes /\ UNCHANGED runVars
Unmounts == Unsubscribes /\ UNCHANGED runVars
Feeds == FeedStep /\ UNCHANGED runVars

Init ==
    /\ FeedInit
    /\ pc = "off" /\ kind = "dca" /\ strategy = DcaInit /\ effect = NoEffect
    /\ ticks = 0 /\ moved = 0 /\ lost = 0 /\ calm = 0

Next ==
    \/ \E k \in Kinds : Starts(k)
    \/ Ticks
    \/ LegConfirmed
    \/ LegFailed
    \/ Stops
    \/ Mounts
    \/ Unmounts
    \/ Feeds

Spec == Init /\ [][Next]_vars

-----------------------------------------------------------------------------

StateOf(k) ==
    CASE k = "market-making" -> [inventory : Int, lastAction : {"quote", "fill", "trim"}]
      [] k = "dca"           -> [spent : Nat, tranche : 1..3]
      [] k = "yield"         -> [venue : Venues, lastAction : {"probe", "migrate", "confirm"}]
      [] k = "arbitrage"     -> [scans : Nat, loops : Nat]
      [] k = "treasury"      -> [rebalances : Nat, lastAction : {"snapshot", "swap", "settle"}]
      [] k = "portfolio"     -> [rebalances : Nat, lastAction : {"drift_check", "sell", "buy"}]

TypeOK ==
    /\ FeedTypeOK
    /\ pc \in {"off", "top", "cycle"} /\ kind \in Kinds
    /\ strategy \in StateOf(kind)
    /\ effect.notional \in Nat
    /\ ticks \in 0..MaxTicks /\ moved \in Nat /\ lost \in Nat /\ calm \in Nat

\* A market maker's inventory stays under the threshold and one fill more, on
\* either side, whatever order fills, quotes and trims come in (strategies.ts:106-115).
InventoryBounded ==
    kind = "market-making" =>
        \E fill \in FillSizes : Abs(strategy.inventory) < Threshold + fill

\* A trade that no settlement has counted.
Unsettled(s) == IF s.lastAction \in {"sell", "buy", "swap"} THEN 1 ELSE 0

\* What was sent, confirmed or under way or lost, is what the summary of dca and of
\* arbitrage shows as spent or executed.  Those of portfolio and treasury show it
\* less the last trade as long as no later cycle has settled it, which after a Stop
\* none does; and the treasury's shows one rebalance more for every snapshot after
\* which nothing was traded.  So a summary differs from the receipts by these and by
\* the legs that failed or that Stop cut off, and by nothing else
\* (strategies.ts:256-296, 481-536, 635-751, 785-922; execution-store.ts:592-597, 783-793).
ShownIsSent ==
    LET sent == moved + lost + (IF pc = "cycle" THEN effect.notional ELSE 0) IN
    /\ kind = "dca" => DcaShown(strategy) = sent
    /\ kind = "arbitrage" => ArbShown(strategy) = sent
    /\ kind = "portfolio" => PortfolioShown(strategy) + Unsettled(strategy) = sent
    /\ kind = "treasury" =>
          TreasuryShown(strategy) + Unsettled(strategy) = sent + calm

\* The strategies that watch before they trade never trade in two cycles
\* running: a settlement, a snapshot or a probe comes between
\* (strategies.ts:365-399, 618-700, 804-871).
WatchesBetweenTrades ==
    [][ticks' = ticks + 1 /\ kind \in {"yield", "treasury", "portfolio"}
          => effect.notional = 0 \/ effect'.notional = 0]_vars
=============================================================================
