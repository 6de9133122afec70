--------------------------- MODULE StrategyProofs ---------------------------
(***************************************************************************)
(* Theorems about the strategies and the price feed, for any sizes, edges, *)
(* tranches, venues and numbers of mounts: a live price is one that a      *)
(* timer will end, a market maker's inventory stays bounded, the summaries *)
(* differ from what was sent by what they have not settled or counted for  *)
(* nothing, and the strategies that watch do watch.                        *)
(***************************************************************************)
EXTENDS StrategyLoop, TLAPS

USE DEF runVars, feedVars

-----------------------------------------------------------------------------
(* The price feed.                                                         *)

\* LiveIsTimed is not inductive: an update that arrives on an open stream makes
\* the price live, so somebody must be mounted whenever there is a stream.
FeedInv ==
    /\ FeedTypeOK
    /\ LiveIsTimed
    /\ source # "none" => refCount > 0

LEMMA FeedInvInit == Init => FeedInv
<1>1. 0 \in Nat
  OBVIOUS
<1>. QED  BY <1>1, Zenon DEF Init, FeedInit, FeedInv, FeedTypeOK, LiveIsTimed

LEMMA FeedInvNext == FeedInv /\ [Next]_vars => FeedInv'
<1> SUFFICES ASSUME FeedInv, [Next]_vars PROVE FeedInv'
  OBVIOUS
<1>0. refCount \in Nat
  BY DEF FeedInv, FeedTypeOK
<1> USE DEF FeedInv, FeedTypeOK, LiveIsTimed
<1>1. CASE Mounts
  <2>1. refCount' = refCount + 1
    BY <1>1 DEF Mounts, Subscribes
  <2>2. refCount' \in Nat /\ refCount' > 0
    BY ONLY <1>0, <2>1
  <2>3. priceLive' = priceLive /\ hasPrice' = hasPrice
    BY <1>1 DEF Mounts, Subscribes
  <2>4. CASE UNCHANGED <<source, staleTimer>>
    BY <2>2, <2>3, <2>4, Zenon
  <2>5. CASE source = "none" /\ source' = "open" /\ staleTimer' = TRUE
    <3>1. ~priceLive
      BY <2>5, Zenon
    <3>. QED  BY <2>2, <2>3, <2>5, <3>1, Zenon
  <2>. QED  BY <1>1, <2>4, <2>5, Zenon DEF Mounts, Subscribes
<1>2. CASE Unmounts
  <2>1. refCount' = refCount - 1 /\ refCount > 0
    BY <1>2 DEF Unmounts, Unsubscribes
  <2>2. refCount' \in Nat /\ (refCount # 1 => refCount' > 0)
    BY ONLY <1>0, <2>1
  <2>. QED  BY <1>2, <2>2, Zenon DEF Unmounts, Unsubscribes
<1>3. CASE Feeds
  BY <1>3 DEF Feeds, FeedStep, AppliesUpdate, StreamErrs, GoesStale
<1>4. CASE UNCHANGED feedVars
  BY <1>4
<1>. QED  BY <1>1, <1>2, <1>3, <1>4
          DEF Next, Starts, Ticks, LegConfirmed, LegFailed, Stops, vars

\* The execution loop never trades on a price that nothing will declare stale:
\* in every order of mounts, errors, updates and timeouts, a live price has its
\* timer, its stream and somebody mounted (pyth-feed.ts:44-47, 85-91, 111-121).
THEOREM LivePriceIsTimed == Spec => []LiveIsTimed
<1>1. FeedInv => LiveIsTimed
  BY DEF FeedInv
<1>. QED  BY <1>1, FeedInvInit, FeedInvNext, PTL DEF Spec

-----------------------------------------------------------------------------
(* What one tick does, strategy by strategy.                               *)

LEMMA MMTickCorrect ==
    ASSUME NEW s \in StateOf("market-making"), NEW o \in MMTick(s)
    PROVE  /\ o.next \in StateOf("market-making") /\ o.notional \in Nat
           /\ \/ Abs(o.next.inventory) <= Abs(s.inventory)
              \/ \E fill \in FillSizes : Abs(o.next.inventory) < Threshold + fill
<1>1. StateOf("market-making") = [inventory : Int, lastAction : {"quote", "fill", "trim"}]
  BY DEF StateOf
<1>2. /\ s.inventory \in Int /\ Threshold \in Nat
      /\ s = [inventory |-> s.inventory, lastAction |-> s.lastAction]
  <2>1. s \in [inventory : Int, lastAction : {"quote", "fill", "trim"}]
    BY <1>1
  <2>. QED  BY <2>1, StrategiesAssumption
<1>3. ASSUME o = Outcome([s EXCEPT !.lastAction = "quote"], "mm.quote_refresh", 0)
      PROVE  /\ o.next \in StateOf("market-making") /\ o.notional \in Nat
             /\ Abs(o.next.inventory) <= Abs(s.inventory)
  <2>1. o.next = [inventory |-> s.inventory, lastAction |-> "quote"] /\ o.notional = 0
    BY <1>2, <1>3 DEF Outcome
  <2>. QED  BY <1>1, <1>2, <2>1 DEF Abs
<1>4. ASSUME o \in MMFills(s), Abs(s.inventory) < Threshold
      PROVE  /\ o.next \in StateOf("market-making") /\ o.notional \in Nat
             /\ \E fill \in FillSizes : Abs(o.next.inventory) < Threshold + fill
  <2>1. PICK side \in {-1, 1}, size \in FillSizes :
          o = Outcome([inventory |-> s.inventory + side * size, lastAction |-> "fill"],
                      "mm.fill", size)
    BY <1>4 DEF MMFills
  <2>2. size \in Nat /\ side * size \in {-size, size}
    BY StrategiesAssumption
  <2>3. s.inventory + side * size \in Int
    BY <1>2, <2>2
  <2>4. Abs(s.inventory + side * size) < Threshold + size
    BY <1>2, <1>4, <2>2 DEF Abs
  <2>5. /\ o.next = [inventory |-> s.inventory + side * size, lastAction |-> "fill"]
        /\ o.notional = size
    BY <2>1 DEF Outcome
  <2>. QED  BY <1>1, <2>2, <2>3, <2>4, <2>5
<1>5. ASSUME o \in MMTrims(s)
      PROVE  /\ o.next \in StateOf("market-making") /\ o.notional \in Nat
             /\ Abs(o.next.inventory) <= Abs(s.inventory)
  <2> DEFINE sign == IF s.inventory >= 0 THEN 1 ELSE -1
             cut(size) == IF size < Abs(s.inventory) THEN size ELSE Abs(s.inventory)
  <2>1. PICK size \in TrimSizes :
          o = Outcome([inventory |-> s.inventory - sign * cut(size), lastAction |-> "trim"],
                      "mm.rebalance", cut(size))
    BY <1>5 DEF MMTrims
  <2>2. size \in Nat /\ Abs(s.inventory) \in Nat
    BY <1>2, StrategiesAssumption DEF Abs
  <2>3. /\ cut(size) \in Nat /\ cut(size) <= Abs(s.inventory)
        /\ s.inventory >= 0 => sign * cut(size) = cut(size)
        /\ s.inventory < 0 => sign * cut(size) = -cut(size)
    BY <1>2, <2>2
  <2> HIDE DEF sign, cut
  <2>4. s.inventory - sign * cut(size) \in Int
    BY <1>2, <2>3
  <2>5. Abs(s.inventory - sign * cut(size)) <= Abs(s.inventory)
    BY <1>2, <2>3 DEF Abs
  <2>6. /\ o.next = [inventory |-> s.inventory - sign * cut(size), lastAction |-> "trim"]
        /\ o.notional = cut(size)
    BY <2>1 DEF Outcome
  <2>. QED  BY <1>1, <2>3, <2>4, <2>5, <2>6
<1>6. Abs(s.inventory) \in Int
  BY <1>2 DEF Abs
<1>. QED  BY <1>2, <1>3, <1>4, <1>5, <1>6 DEF MMTick

LEMMA DcaTickCorrect ==
    ASSUME NEW s \in StateOf("dca"), NEW o \in DcaTick(s)
    PROVE  /\ o.next \in StateOf("dca") /\ o.notional \in Nat
           /\ DcaShown(o.next) = DcaShown(s) + o.notional
<1>1. StateOf("dca") = [spent : Nat, tranche : 1..3]
  BY DEF StateOf
<1>0. s \in [spent : Nat, tranche : 1..3]
  BY <1>1
<1>2. s.spent \in Nat /\ s.tranche \in {1, 2, 3}
  BY <1>0
<1>3. Tranches[s.tranche] \in Nat
  BY <1>2, StrategiesAssumption
<1>4. (s.tranche % 3) + 1 \in 1..3
  BY <1>2
<1>5. /\ o.next = [spent |-> s.spent + Tranches[s.tranche], tranche |-> (s.tranche % 3) + 1]
      /\ o.notional = Tranches[s.tranche]
  BY DEF DcaTick, Outcome
<1>6. s.spent + Tranches[s.tranche] \in Nat
  BY <1>2, <1>3
<1>. QED  BY <1>1, <1>3, <1>4, <1>5, <1>6 DEF DcaShown

\* A migration, which alone has a notional, is followed by a probe.
LEMMA YieldTickCorrect ==
    ASSUME NEW s \in StateOf("yield"), NEW o \in YieldTick(s)
    PROVE  /\ o.next \in StateOf("yield") /\ o.notional \in Nat
           /\ o.notional # 0 => o.next.lastAction = "migrate" /\ s.lastAction # "migrate"
<1>1. StateOf("yield") = [venue : Venues, lastAction : {"probe", "migrate", "confirm"}]
  BY DEF StateOf
<1>0. s \in [venue : Venues, lastAction : {"probe", "migrate", "confirm"}]
  BY <1>1
<1>2. /\ s.venue \in Venues
      /\ s = [venue |-> s.venue, lastAction |-> s.lastAction]
  BY <1>0
<1>3. PICK best \in Venues : o = YieldDecision(s, best)
  BY DEF YieldTick
<1>4. /\ o.notional \in {0, 1}
      /\ \/ \E action \in {"probe", "confirm"} :
               o.next = [s EXCEPT !.lastAction = action] /\ o.notional = 0
         \/ /\ o.next = [venue |-> best, lastAction |-> "migrate"]
            /\ s.lastAction = "probe"
  BY <1>3 DEF YieldDecision, Outcome
<1>. QED  BY <1>1, <1>2, <1>4

LEMMA ArbTickCorrect ==
    ASSUME NEW s \in StateOf("arbitrage"), NEW o \in ArbTick(s)
    PROVE  /\ o.next \in StateOf("arbitrage") /\ o.notional \in Nat
           /\ ArbShown(o.next) = ArbShown(s) + o.notional
<1>1. StateOf("arbitrage") = [scans : Nat, loops : Nat]
  BY DEF StateOf
<1>0. s \in [scans : Nat, loops : Nat]
  BY <1>1
<1>2. /\ s.scans \in Nat /\ s.loops \in Nat
      /\ s = [scans |-> s.scans, loops |-> s.loops]
  BY <1>0
<1>3. \/ o = Outcome([s EXCEPT !.scans = @ + 1], "arb.scan", 0)
      \/ o = Outcome([scans |-> s.scans + 1, loops |-> s.loops + 1], "arb.loop_close", 1)
  BY DEF ArbTick
<1>4. \/ o.next = [scans |-> s.scans + 1, loops |-> s.loops] /\ o.notional = 0
      \/ o.next = [scans |-> s.scans + 1, loops |-> s.loops + 1] /\ o.notional = 1
  BY <1>2, <1>3 DEF Outcome
<1>. QED  BY <1>1, <1>2, <1>4 DEF ArbShown

\* One for a settlement that counts though nothing was traded.
CalmCount(s, o) ==
    IF s.lastAction = "snapshot" /\ o.memo = "treasury.settle" THEN 1 ELSE 0

\* A swap, which alone has a notional, follows a snapshot.
LEMMA TreasuryTickCorrect ==
    ASSUME NEW s \in StateOf("treasury"), NEW o \in TreasuryTick(s)
    PROVE  /\ o.next \in StateOf("treasury") /\ o.notional \in Nat
           /\ TreasuryShown(o.next) + Unsettled(o.next)
                = TreasuryShown(s) + Unsettled(s) + o.notional + CalmCount(s, o)
           /\ TreasuryShown(s) \in Nat
           /\ o.notional # 0 => o.next.lastAction = "swap" /\ s.lastAction # "swap"
<1>1. StateOf("treasury") = [rebalances : Nat, lastAction : {"snapshot", "swap", "settle"}]
  BY DEF StateOf
<1>0. s \in [rebalances : Nat, lastAction : {"snapshot", "swap", "settle"}]
  BY <1>1
<1>2. /\ s.rebalances \in Nat
      /\ s.lastAction \in {"snapshot", "swap", "settle"}
      /\ s = [rebalances |-> s.rebalances, lastAction |-> s.lastAction]
  BY <1>0
<1>3. \/ /\ s.lastAction = "settle" /\ o.notional = 0 /\ CalmCount(s, o) = 0
         /\ o.next = [rebalances |-> s.rebalances, lastAction |-> "snapshot"]
      \/ /\ s.lastAction = "snapshot" /\ o.notional = 1 /\ CalmCount(s, o) = 0
         /\ o.next = [rebalances |-> s.rebalances, lastAction |-> "swap"]
      \/ /\ s.lastAction \in {"snapshot", "swap"} /\ o.notional = 0
         /\ CalmCount(s, o) = (IF s.lastAction = "snapshot" THEN 1 ELSE 0)
         /\ o.next = [rebalances |-> s.rebalances + 1, lastAction |-> "settle"]
  <2>1. CASE s.lastAction = "settle"
    <3>1. o = Outcome([s EXCEPT !.lastAction = "snapshot"], "treasury.drift_snapshot", 0)
      BY <2>1 DEF TreasuryTick
    <3>. QED  BY <1>2, <2>1, <3>1 DEF Outcome, CalmCount
  <2>2. CASE s.lastAction # "settle"
    <3>1. \/ /\ o = Outcome([s EXCEPT !.lastAction = "swap"], "treasury.swap_leg", 1)
             /\ s.lastAction = "snapshot"
          \/ o = Outcome([rebalances |-> s.rebalances + 1, lastAction |-> "settle"],
                         "treasury.settle", 0)
      BY <2>2 DEF TreasuryTick
    <3>. QED  BY <1>2, <2>2, <3>1 DEF Outcome, CalmCount
  <2>. QED  BY <2>1, <2>2
<1>. QED  BY <1>1, <1>2, <1>3 DEF TreasuryShown, Unsettled

\* A trade, which alone has a notional, follows a drift check.
LEMMA PortfolioTickCorrect ==
    ASSUME NEW s \in StateOf("portfolio"), NEW o \in PortfolioTick(s)
    PROVE  /\ o.next \in StateOf("portfolio") /\ o.notional \in Nat
           /\ PortfolioShown(o.next) + Unsettled(o.next)
                = PortfolioShown(s) + Unsettled(s) + o.notional
           /\ PortfolioShown(s) \in Nat
           /\ o.notional # 0 =>
                 o.next.lastAction # "drift_check" /\ s.lastAction = "drift_check"
<1>1. StateOf("portfolio") = [rebalances : Nat, lastAction : {"drift_check", "sell", "buy"}]
  BY DEF StateOf
<1>0. s \in [rebalances : Nat, lastAction : {"drift_check", "sell", "buy"}]
  BY <1>1
<1>2. /\ s.rebalances \in Nat
      /\ s.lastAction \in {"drift_check", "sell", "buy"}
      /\ s = [rebalances |-> s.rebalances, lastAction |-> s.lastAction]
  BY <1>0
<1>3. PICK drifted \in BOOLEAN, side \in {"sell", "buy"} :
        o = IF s.lastAction = "drift_check" /\ drifted
            THEN Outcome([s EXCEPT !.lastAction = side], "portfolio.trade", 1)
            ELSE IF s.lastAction \in {"sell", "buy"}
            THEN Outcome([rebalances |-> s.rebalances + 1, lastAction |-> "drift_check"],
                         "portfolio.settle", 0)
            ELSE Outcome([s EXCEPT !.lastAction = "drift_check"],
                         "portfolio.drift_check", 0)
  BY DEF PortfolioTick
<1>4. \/ /\ s.lastAction = "drift_check" /\ o.notional = 1
         /\ o.next = [rebalances |-> s.rebalances, lastAction |-> side]
      \/ /\ s.lastAction \in {"sell", "buy"} /\ o.notional = 0
         /\ o.next = [rebalances |-> s.rebalances + 1, lastAction |-> "drift_check"]
      \/ /\ s.lastAction = "drift_check" /\ o.notional = 0
         /\ o.next = [rebalances |-> s.rebalances, lastAction |-> "drift_check"]
  BY <1>2, <1>3 DEF Outcome
<1>. QED  BY <1>1, <1>2, <1>4 DEF PortfolioShown, Unsettled

\* What the loop keeps of an outcome is all but the state.
LEMMA EffectKept ==
    ASSUME NEW k \in Kinds, NEW s, NEW o \in Tick(k, s)
    PROVE  [o EXCEPT !.next = 0].notional = o.notional
<1>1. \E next, memo, notional : o = Outcome(next, memo, notional)
  <2>1. CASE k = "market-making"
    <3>1. \/ o = Outcome([s EXCEPT !.lastAction = "quote"], "mm.quote_refresh", 0)
          \/ o \in MMFills(s)
          \/ o \in MMTrims(s)
      BY <2>1 DEF Tick, MMTick
    <3>2. CASE o \in MMFills(s)
      <4>1. PICK side \in {-1, 1}, size \in FillSizes :
              o = Outcome([inventory |-> s.inventory + side * size, lastAction |-> "fill"],
                          "mm.fill", size)
        BY <3>2 DEF MMFills
      <4>. QED  BY <4>1
    <3>3. CASE o \in MMTrims(s)
      BY <3>3 DEF MMTrims
    <3>. QED  BY <3>1, <3>2, <3>3, Zenon
  <2>2. CASE k = "dca"
    BY <2>2, Zenon DEF Tick, DcaTick
  <2>3. CASE k = "yield"
    BY <2>3 DEF Tick, YieldTick, YieldDecision
  <2>4. CASE k = "arbitrage"
    BY <2>4 DEF Tick, ArbTick
  <2>5. CASE k = "treasury"
    BY <2>5 DEF Tick, TreasuryTick
  <2>6. CASE k = "portfolio"
    BY <2>6 DEF Tick, PortfolioTick
  <2>. QED  BY <2>1, <2>2, <2>3, <2>4, <2>5, <2>6 DEF Kinds
<1>. QED  BY <1>1 DEF Outcome

LEMMA InitialStates ==
    ASSUME NEW k \in Kinds
    PROVE  InitOf(k) \in StateOf(k)
<1> USE DEF InitOf, StateOf
<1>1. CASE k = "market-making"
  BY <1>1 DEF MMInit
<1>2. CASE k = "dca"
  BY <1>2 DEF DcaInit
<1>3. CASE k = "yield"
  BY <1>3, StrategiesAssumption DEF YieldInit
<1>4. CASE k = "arbitrage"
  BY <1>4 DEF ArbInit
<1>5. CASE k = "treasury"
  BY <1>5 DEF TreasuryInit
<1>6. CASE k = "portfolio"
  BY <1>6 DEF PortfolioInit
<1>. QED  BY <1>1, <1>2, <1>3, <1>4, <1>5, <1>6 DEF Kinds

-----------------------------------------------------------------------------
(* A run.                                                                  *)

\* The strategies that watch show by their last action that they traded.
TradeShows ==
    effect.notional # 0 =>
        /\ kind = "yield" => strategy.lastAction = "migrate"
        /\ kind = "treasury" => strategy.lastAction = "swap"
        /\ kind = "portfolio" => strategy.lastAction # "drift_check"

RunTypeOK ==
    /\ pc \in {"off", "top", "cycle"} /\ kind \in Kinds
    /\ strategy \in StateOf(kind)
    /\ effect.notional \in Nat
    /\ ticks \in 0..MaxTicks /\ moved \in Nat /\ lost \in Nat /\ calm \in Nat

RunInv == RunTypeOK /\ InventoryBounded /\ ShownIsSent /\ TradeShows

\* Both where a run starts and in the program's first state.
LEMMA FreshRun ==
    ASSUME NEW k \in Kinds, kind' = k, strategy' = InitOf(k), effect' = NoEffect,
           pc' \in {"off", "top"}, ticks' = 0, moved' = 0, lost' = 0, calm' = 0
    PROVE  RunInv'
<1>1. effect'.notional = 0
  BY DEF NoEffect, Outcome
<1>2. RunTypeOK'
  BY <1>1, InitialStates, LoopAssumption DEF RunTypeOK
<1>3. InventoryBounded'
  <2>1. PICK fill \in FillSizes : TRUE
    BY StrategiesAssumption
  <2>2. Threshold \in Nat /\ fill \in Nat /\ 0 < Threshold + fill
    BY <2>1, StrategiesAssumption
  <2>. QED  BY <2>1, <2>2 DEF InventoryBounded, InitOf, MMInit, Abs
<1>4. ShownIsSent'
  BY <1>1 DEF ShownIsSent, InitOf, DcaInit, ArbInit, PortfolioInit, TreasuryInit,
              DcaShown, ArbShown, PortfolioShown, TreasuryShown, Unsettled
<1>5. TradeShows'
  BY <1>1 DEF TradeShows
<1>. QED  BY <1>2, <1>3, <1>4, <1>5 DEF RunInv

LEMMA TickKept ==
    ASSUME RunInv, NEW o \in Tick(kind, strategy),
           pc = "top", ticks < MaxTicks, strategy' = o.next,
           effect' = [o EXCEPT !.next = 0], pc' = "cycle", ticks' = ticks + 1,
           calm' = IF Calm(o) THEN calm + 1 ELSE calm,
           UNCHANGED <<kind, moved, lost>>
    PROVE  RunInv' /\ (kind \in {"yield", "treasury", "portfolio"} =>
                          effect.notional = 0 \/ effect'.notional = 0)
<1>0. RunTypeOK
  BY DEF RunInv
<1>1. /\ kind \in Kinds /\ strategy \in StateOf(kind) /\ ticks \in 0..MaxTicks
      /\ moved \in Nat /\ lost \in Nat /\ calm \in Nat
  BY <1>0 DEF RunTypeOK
<1>2. effect'.notional = o.notional
  BY <1>1, EffectKept
<1>3. ticks' \in 0..MaxTicks
  BY <1>1, LoopAssumption
<1>4. ASSUME o.next \in StateOf(kind), o.notional \in Nat
      PROVE  RunTypeOK'
  BY <1>1, <1>2, <1>3, <1>4 DEF RunTypeOK
<1>5. ASSUME kind # "market-making" PROVE InventoryBounded'
  BY <1>5 DEF InventoryBounded
<1> DEFINE sent == moved + lost
<1>6. sent \in Nat
  BY <1>1
<1>7. moved' + lost' + (IF pc' = "cycle" THEN effect'.notional ELSE 0) = sent + o.notional
  BY <1>2
<1> HIDE DEF sent
<1>8. /\ kind = "dca" => DcaShown(strategy) = sent
      /\ kind = "arbitrage" => ArbShown(strategy) = sent
      /\ kind = "portfolio" => PortfolioShown(strategy) + Unsettled(strategy) = sent
      /\ kind = "treasury" =>
            TreasuryShown(strategy) + Unsettled(strategy) = sent + calm
  BY <1>1 DEF RunInv, ShownIsSent, sent
<1>9. ASSUME /\ kind = "dca" => DcaShown(strategy') = sent + o.notional
             /\ kind = "arbitrage" => ArbShown(strategy') = sent + o.notional
             /\ kind = "portfolio" =>
                   PortfolioShown(strategy') + Unsettled(strategy') = sent + o.notional
             /\ kind = "treasury" =>
                   TreasuryShown(strategy') + Unsettled(strategy')
                      = sent + o.notional + calm'
      PROVE  ShownIsSent'
  BY <1>7, <1>9 DEF ShownIsSent
<1>10. CASE kind = "market-making"
  <2>1. strategy \in StateOf("market-making") /\ o \in MMTick(strategy)
    BY <1>1, <1>10 DEF Tick
  <2>2. /\ o.next \in StateOf("market-making") /\ o.notional \in Nat
        /\ \/ Abs(o.next.inventory) <= Abs(strategy.inventory)
           \/ \E fill \in FillSizes : Abs(o.next.inventory) < Threshold + fill
    BY <2>1, MMTickCorrect
  <2>3. \E fill \in FillSizes : Abs(strategy.inventory) < Threshold + fill
    BY <1>10 DEF RunInv, InventoryBounded
  <2>4. Abs(o.next.inventory) \in Int /\ Abs(strategy.inventory) \in Int
    <3>1. o.next.inventory \in Int /\ strategy.inventory \in Int
      <4>1. StateOf("market-making") = [inventory : Int, lastAction : {"quote", "fill", "trim"}]
        BY DEF StateOf
      <4>2. strategy \in [inventory : Int, lastAction : {"quote", "fill", "trim"}]
        BY <2>1, <4>1
      <4>3. o.next \in [inventory : Int, lastAction : {"quote", "fill", "trim"}]
        BY <2>2, <4>1
      <4>. QED  BY <4>2, <4>3
    <3>. QED  BY <3>1 DEF Abs
  <2>5. \A fill \in FillSizes : Threshold + fill \in Int
    BY StrategiesAssumption
  <2>6. \E fill \in FillSizes : Abs(o.next.inventory) < Threshold + fill
    BY <2>2, <2>3, <2>4, <2>5
  <2>7. InventoryBounded'
    BY <2>6 DEF InventoryBounded
  <2>8. TradeShows' /\ ShownIsSent'
    BY <1>9, <1>10 DEF TradeShows
  <2>. QED  BY <1>4, <1>10, <2>2, <2>7, <2>8 DEF RunInv
<1>11. CASE kind = "dca"
  <2>1. strategy \in StateOf("dca") /\ o \in DcaTick(strategy)
    BY <1>1, <1>11 DEF Tick
  <2>2. /\ o.next \in StateOf("dca") /\ o.notional \in Nat
        /\ DcaShown(o.next) = DcaShown(strategy) + o.notional
    BY <2>1, DcaTickCorrect
  <2>3. TradeShows' /\ ShownIsSent'
    BY <1>8, <1>9, <1>11, <2>2 DEF TradeShows
  <2>. QED  BY <1>4, <1>5, <1>11, <2>2, <2>3 DEF RunInv
<1>12. CASE kind = "arbitrage"
  <2>1. strategy \in StateOf("arbitrage") /\ o \in ArbTick(strategy)
    BY <1>1, <1>12 DEF Tick
  <2>2. /\ o.next \in StateOf("arbitrage") /\ o.notional \in Nat
        /\ ArbShown(o.next) = ArbShown(strategy) + o.notional
    BY <2>1, ArbTickCorrect
  <2>3. TradeShows' /\ ShownIsSent'
    BY <1>8, <1>9, <1>12, <2>2 DEF TradeShows
  <2>. QED  BY <1>4, <1>5, <1>12, <2>2, <2>3 DEF RunInv
<1>13. CASE kind = "yield"
  <2>1. strategy \in StateOf("yield") /\ o \in YieldTick(strategy)
    BY <1>1, <1>13 DEF Tick
  <2>2. /\ o.next \in StateOf("yield") /\ o.notional \in Nat
        /\ o.notional # 0 => o.next.lastAction = "migrate" /\ strategy.lastAction # "migrate"
    BY <2>1, YieldTickCorrect
  <2>3. TradeShows' /\ ShownIsSent'
    BY <1>2, <1>9, <1>13, <2>2 DEF TradeShows
  <2>4. effect.notional = 0 \/ effect'.notional = 0
    BY <1>2, <1>13, <2>2 DEF RunInv, TradeShows
  <2>. QED  BY <1>4, <1>5, <1>13, <2>2, <2>3, <2>4 DEF RunInv
<1>14. CASE kind = "treasury"
  <2>1. strategy \in StateOf("treasury") /\ o \in TreasuryTick(strategy)
    BY <1>1, <1>14 DEF Tick
  <2>2. /\ o.next \in StateOf("treasury") /\ o.notional \in Nat
        /\ TreasuryShown(o.next) + Unsettled(o.next)
             = TreasuryShown(strategy) + Unsettled(strategy) + o.notional + CalmCount(strategy, o)
        /\ TreasuryShown(strategy) \in Nat
        /\ o.notional # 0 => o.next.lastAction = "swap" /\ strategy.lastAction # "swap"
    BY <2>1, TreasuryTickCorrect
  <2>3. ShownIsSent'
    <3>1. calm' = calm + CalmCount(strategy, o)
      BY <1>1, <1>14 DEF Calm, CalmCount
    <3>2. CalmCount(strategy, o) \in Nat /\ Unsettled(strategy) \in Nat
      BY DEF CalmCount, Unsettled
    <3>. QED  BY <1>1, <1>6, <1>8, <1>9, <1>14, <2>2, <3>1, <3>2
  <2>4. TradeShows'
    BY <1>2, <1>14, <2>2 DEF TradeShows
  <2>5. effect.notional = 0 \/ effect'.notional = 0
    BY <1>2, <1>14, <2>2 DEF RunInv, TradeShows
  <2>. QED  BY <1>4, <1>5, <1>14, <2>2, <2>3, <2>4, <2>5 DEF RunInv
<1>15. CASE kind = "portfolio"
  <2>1. strategy \in StateOf("portfolio") /\ o \in PortfolioTick(strategy)
    BY <1>1, <1>15 DEF Tick
  <2>2. /\ o.next \in StateOf("portfolio") /\ o.notional \in Nat
        /\ PortfolioShown(o.next) + Unsettled(o.next)
             = PortfolioShown(strategy) + Unsettled(strategy) + o.notional
        /\ PortfolioShown(strategy) \in Nat
        /\ o.notional # 0 =>
              o.next.lastAction # "drift_check" /\ strategy.lastAction = "drift_check"
    BY <2>1, PortfolioTickCorrect
  <2>3. ShownIsSent'
    <3>1. Unsettled(strategy) \in Nat
      BY DEF Unsettled
    <3>. QED  BY <1>6, <1>8, <1>9, <1>15, <2>2, <3>1
  <2>4. TradeShows'
    BY <1>2, <1>15, <2>2 DEF TradeShows
  <2>5. effect.notional = 0 \/ effect'.notional = 0
    BY <1>2, <1>15, <2>2 DEF RunInv, TradeShows
  <2>. QED  BY <1>4, <1>5, <1>15, <2>2, <2>3, <2>4, <2>5 DEF RunInv
<1>. QED  BY <1>1, <1>10, <1>11, <1>12, <1>13, <1>14, <1>15 DEF Kinds

LEMMA RunInvInit == Init => RunInv
<1> SUFFICES ASSUME Init PROVE RunInv
  OBVIOUS
<1> USE DEF Init
<1>1. effect.notional = 0
  BY DEF NoEffect, Outcome
<1>2. RunTypeOK
  <2>1. "dca" \in Kinds
    BY DEF Kinds
  <2>2. DcaInit \in StateOf("dca")
    BY <2>1, InitialStates DEF InitOf
  <2>. QED  BY <1>1, <2>1, <2>2, LoopAssumption DEF RunTypeOK
<1>3. ShownIsSent
  BY <1>1 DEF ShownIsSent, DcaInit, DcaShown
<1>. QED  BY <1>1, <1>2, <1>3 DEF RunInv, InventoryBounded, TradeShows

LEMMA RunInvNext ==
    ASSUME RunInv, [Next]_vars
    PROVE  /\ RunInv'
           /\ ticks' = ticks + 1 /\ kind \in {"yield", "treasury", "portfolio"}
                => effect.notional = 0 \/ effect'.notional = 0
<1>0. RunTypeOK
  BY DEF RunInv
<1>1. /\ effect.notional \in Nat /\ ticks \in Int
      /\ moved \in Nat /\ lost \in Nat /\ calm \in Nat
  BY <1>0, LoopAssumption DEF RunTypeOK
<1>2. ASSUME NEW k \in Kinds, Starts(k)
      PROVE  RunInv' /\ effect'.notional = 0
  BY <1>2, FreshRun DEF Starts, NoEffect, Outcome
<1>3. ASSUME Ticks
      PROVE  /\ RunInv'
             /\ kind \in {"yield", "treasury", "portfolio"} =>
                   effect.notional = 0 \/ effect'.notional = 0
  BY <1>3, TickKept DEF Ticks
<1>4. ASSUME UNCHANGED <<kind, strategy, effect, ticks, calm>>, pc' \in {"off", "top"},
             moved' \in Nat, lost' \in Nat,
             moved' + lost' = moved + lost + (IF pc = "cycle" THEN effect.notional ELSE 0)
      PROVE  RunInv' /\ ticks' # ticks + 1
  <2>1. RunTypeOK'
    BY <1>0, <1>4 DEF RunTypeOK
  <2>2. ShownIsSent'
    BY <1>1, <1>4 DEF RunInv, ShownIsSent
  <2>3. InventoryBounded' /\ TradeShows'
    BY <1>4 DEF RunInv, InventoryBounded, TradeShows
  <2>. QED  BY <1>1, <1>4, <2>1, <2>2, <2>3 DEF RunInv
<1>5. CASE LegConfirmed
  BY <1>1, <1>4, <1>5 DEF LegConfirmed
<1>6. CASE LegFailed
  BY <1>1, <1>4, <1>6 DEF LegFailed
<1>7. CASE Stops
  BY <1>1, <1>4, <1>7 DEF Stops
<1>8. ASSUME UNCHANGED runVars PROVE RunInv' /\ ticks' # ticks + 1
  BY <1>1, <1>8 DEF RunInv, RunTypeOK, InventoryBounded, ShownIsSent, TradeShows
<1>9. UNCHANGED runVars \/ (\E k \in Kinds : Starts(k)) \/ Ticks
      \/ LegConfirmed \/ LegFailed \/ Stops
  BY DEF Next, Mounts, Unmounts, Feeds, vars
<1>. QED  BY <1>2, <1>3, <1>5, <1>6, <1>7, <1>8, <1>9

LEMMA RunInvAlways == Spec => []RunInv
BY RunInvInit, RunInvNext, PTL DEF Spec

\* Whatever the order of ticks, confirmations, failures and stops, a strategy's
\* state keeps the shape its own tick expects (strategies.ts:50-60).
THEOREM StrategyTypeCorrect == Spec => []TypeOK
<1>1. RunInv /\ FeedInv => TypeOK
  BY DEF RunInv, RunTypeOK, FeedInv, TypeOK
<1>. QED  BY <1>1, RunInvAlways, FeedInvInit, FeedInvNext, PTL DEF Spec

\* A market maker's inventory stays under the threshold and one fill more, on
\* either side, for all sizes of fills and trims (strategies.ts:106-115).
THEOREM InventoryStaysBounded == Spec => []InventoryBounded
<1>1. RunInv => InventoryBounded
  BY DEF RunInv
<1>. QED  BY <1>1, RunInvAlways, PTL

\* A summary differs from what was sent by the portfolio's or the treasury's last trade
\* while it is not settled, and by the treasury's snapshots after which nothing was
\* traded, in every interleaving of failures and stops
\* (strategies.ts:256-296, 481-536, 635-751, 785-922; execution-store.ts:592-597, 783-793).
THEOREM SummariesCountWhatWasSent == Spec => []ShownIsSent
<1>1. RunInv => ShownIsSent
  BY DEF RunInv
<1>. QED  BY <1>1, RunInvAlways, PTL

\* The strategies that watch before they trade never trade in two cycles running,
\* failed ones included (strategies.ts:365-399, 618-700, 804-871).
THEOREM NoTwoTradesRunning == Spec => WatchesBetweenTrades
<1>1. RunInv /\ [Next]_vars =>
        [ticks' = ticks + 1 /\ kind \in {"yield", "treasury", "portfolio"}
          => effect.notional = 0 \/ effect'.notional = 0]_vars
  BY RunInvNext
<1>. QED  BY <1>1, RunInvAlways, PTL DEF Spec, WatchesBetweenTrades
=============================================================================
