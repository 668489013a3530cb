--------------------------- MODULE MCSubscriptions ---------------------------
(* Subscriptions on a small instance: a ticker stream that two queues of a *)
(* system may both want, and a candle stream.                              *)
EXTENDS Subscriptions

CONSTANTS ticker, ohlc, ui, worker

MCInfos == {[stream |-> ticker, queue |-> ui],
            [stream |-> ticker, queue |-> worker],
            [stream |-> ohlc, queue |-> worker]}
=============================================================================
