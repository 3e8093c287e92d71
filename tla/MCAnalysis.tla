------------------------------- MODULE MCAnalysis -------------------------------
(***************************************************************************)
(* Analysis over a few events: two channels with trades, one of best       *)
(* prices, two rounds, ids and times that coincide or are missing.         *)
(***************************************************************************)
EXTENDS Analysis

Event(round, channel, kind, at, id, time, bbo, price) ==
  [round |-> round, channel |-> channel, kind |-> kind, at |-> at, native_id |-> id,
   exchange_event_ns |-> time, exchange_transaction_ns |-> time, bbo |-> bbo, price |-> price]

MCEvents ==
  {Event(1, c, "Trade", at, {7}, {}, {}, {1}) : c \in {"trades", "aggregate"}, at \in {1, 3}}
  \cup {Event(1, "ticker", "BookTicker", at, {}, {5}, {<<1, 3>>}, {}) : at \in {1, 2}}
  \cup {Event(1, "depth", "Depth", 2, {7}, {5}, {<<1, 3>>}, {}),
        Event(2, "trades", "Trade", 2, {7}, {5}, {}, {2}),
        Event(1, "mark", "Unknown", 2, {}, {5}, {}, {})}
=============================================================================
