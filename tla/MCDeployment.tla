---------------------------- MODULE MCDeployment ----------------------------
(* Values of Deployment's constants for TLC. *)
EXTENDS Deployment

TwoFunctions == [f \in Functions |-> IF f = "armFn" THEN "arm64" ELSE "x86_64"]

OwnEnvsMC == {[v \in {} |-> ""], [LOG_LEVEL |-> "ERROR"]}
OwnLayersMC == {<<>>, <<"own">>}

\* Defaults; every tuning option, the zeros among them; prefixes that need
\* normalising, that vanish in it, and that it does not settle; intervals
\* that throw.
PropsMC ==
    {[logsBucket |-> "b"],
     [logsBucket |-> "b", keyPrefix |-> <<"/", "app", "/", "/">>,
      logLevel |-> "WARN", compression |-> "zstd", telemetryPort |-> 2021,
      flushInterval |-> 5000, maxBufferSize |-> 4096,
      includePlatformReport |-> FALSE, runtimeDoneWait |-> 0],
     [logsBucket |-> "b", keyPrefix |-> <<"/">>, maxBufferSize |-> 0],
     [logsBucket |-> "b", keyPrefix |-> <<"/", " ", "app">>],
     [logsBucket |-> "b", architecture |-> "x86_64", flushInterval |-> 500],
     [logsBucket |-> "b", architecture |-> "x86_64", flushInterval |-> 1500],
     [logsBucket |-> "c", architecture |-> "x86_64", extensionDebug |-> TRUE]}

AttributesMC ==
    {[logsBucket |-> "b", layerVersionArn |-> "arn", keyPrefix |-> <<"app">>]}

OptionsMC ==
    {[v \in {} |-> ""], [logLevel |-> "DEBUG"], [grantWrite |-> FALSE]}
=============================================================================
