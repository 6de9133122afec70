----------------------------- MODULE PriceFeed ------------------------------
(***************************************************************************)
(* The browser's price feed (soloraa_frontend/lib/pyth-feed.ts): one event *)
(* stream that is shared by the mounted users of the hook, a timer that    *)
(* marks the price stale, and the snapshot the execution loop reads.  An   *)
(* update is told apart by being usable or not, not by its price.          *)
(***************************************************************************)
EXTENDS Naturals

VARIABLES
    source,     \* eventSource: none, or a stream that is open or given up
    priceLive,     \* usePythStore's isLive
    hasPrice,   \* usePythStore's price is not null
    staleTimer, \* a markStale timer is pending
    refCount    \* components mounted with the hook

feedVars == <<source, priceLive, hasPrice, staleTimer, refCount>>

FeedTypeOK ==
    /\ source \in {"none", "open", "closed"}
    /\ priceLive \in BOOLEAN /\ hasPrice \in BOOLEAN /\ staleTimer \in BOOLEAN
    /\ refCount \in Nat

FeedInit ==
    /\ source = "none" /\ priceLive = FALSE /\ hasPrice = FALSE /\ staleTimer = FALSE
    /\ refCount = 0

\* The hook mounts.  The constructor of EventSource may throw, which leaves no
\* stream and no timer; nothing tries again before the next mount.
Subscribes ==
    /\ refCount' = refCount + 1
    /\ \/ /\ source # "none"
          /\ UNCHANGED <<source, staleTimer>>
       \/ /\ source = "none"
          /\ source' = "open" /\ staleTimer' = TRUE
       \/ /\ source = "none"
          /\ UNCHANGED <<source, staleTimer>>
    /\ UNCHANGED <<priceLive, hasPrice>>

\* Mutant of Unsubscribes: the stream is closed but its last price is kept.
UnsubscribesOnly ==
    /\ refCount > 0
    /\ refCount' = refCount - 1
    /\ source' = "none" /\ staleTimer' = FALSE
    /\ UNCHANGED <<priceLive, hasPrice>>

\* The hook unmounts; the last one tears the stream and the price down.
Unsubscribes ==
    /\ refCount > 0
    /\ refCount' = refCount - 1
    /\ IF refCount = 1
       THEN source' = "none" /\ priceLive' = FALSE /\ hasPrice' = FALSE /\ staleTimer' = FALSE
       ELSE UNCHANGED <<source, priceLive, hasPrice, staleTimer>>

\* A message with a positive price for the feed.  Its publish time is stored,
\* not compared with the clock; any other message changes nothing.
AppliesUpdate ==
    /\ source = "open"
    /\ priceLive' = TRUE /\ hasPrice' = TRUE /\ staleTimer' = TRUE
    /\ UNCHANGED <<source, refCount>>

\* onerror marks the price stale and leaves the timer.  The browser reconnects,
\* or gives the stream up for good, when eventSource still is not null.
StreamErrs ==
    /\ source = "open"
    /\ priceLive' = FALSE
    /\ source' \in {"open", "closed"}
    /\ UNCHANGED <<hasPrice, staleTimer, refCount>>

GoesStale ==
    /\ staleTimer
    /\ staleTimer' = FALSE /\ priceLive' = FALSE
    /\ UNCHANGED <<source, hasPrice, refCount>>

FeedStep == AppliesUpdate \/ StreamErrs \/ GoesStale

\* readPythCtx's isLive
SnapshotLive == priceLive /\ hasPrice

\* A price counts as live only while a timer is pending that will end that, on a
\* stream somebody is mounted for (pyth-feed.ts:44-47, 85-91, 111-121): no order of
\* mounts, errors, updates and timeouts leaves a price live for ever.
LiveIsTimed == priceLive => staleTimer /\ source = "open" /\ refCount > 0
=============================================================================
