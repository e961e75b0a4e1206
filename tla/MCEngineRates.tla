--------------------------- MODULE MCEngineRates ---------------------------
EXTENDS EngineRates, TLC

\* An engine that is nothing without its counters and may show a gauge, and one that is
\* something without them and shows none.
MCVllm == "vllm" :> "vllm"
MCVllmGauge == "vllm" :> {0, 3}
MCOther == "llamacpp" :> "llamacpp"
MCNoGauge == "llamacpp" :> {0}
=============================================================================
