----------------------------- MODULE MCDelivery -----------------------------
(* One job of each destination type; those with a thread have two chunks.  *)
EXTENDS Delivery, TLC

CONSTANTS rss, cron, plain

AllJobs == {rss, cron, plain}
JobModes ==
  rss :> "item-thread" @@ cron :> "new-thread" @@ plain :> "channel"
JobChunks == rss :> 2 @@ cron :> 2 @@ plain :> 1

RssOnly == {rss}
RssMode == rss :> "channel"
RssChunks == rss :> 2
=============================================================================
