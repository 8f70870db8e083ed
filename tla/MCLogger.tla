------------------------------ MODULE MCLogger ------------------------------
(* Values of Logger's constants for TLC: three programs. *)
EXTENDS Logger

NoOptions == [f \in {} |-> 0]
NoEnv == [f \in {} |-> ""]

\* Calls that say one thing; site: there is a frame for the call site.
Calls(levels, errs, contexts, sites) ==
    [level : levels, err : errs, context : contexts, site : sites,
     message : {<<Text(TRUE)>>}]

\* Requests that nest and spawn.
Concurrent ==
    [tasks |-> Others, sources |-> {"Api"}, runs |-> 3, environments |-> {NoEnv},
     options |-> {NoOptions, [correlationId |-> NoId]}, lines |-> {},
     calls |-> Calls({"INFO"}, {"undefined"}, {{}}, {TRUE}), forms |-> {"prefixed"}]

\* Loggers and levels, whatever the variables say.
Levelled ==
    [tasks |-> {}, sources |-> {"Api"}, runs |-> 0,
     environments |->
        {NoEnv, [LOG_TO_S3_LEVEL |-> "warn"], [LOG_LEVEL |-> "DEBUG"],
         [LOG_TO_S3_LEVEL |-> "ERROR", LOG_LEVEL |-> "INFO"],
         [LOG_TO_S3_LEVEL |-> "", LOG_LEVEL |-> "DEBUG"],
         [LOG_TO_S3_LEVEL |-> "WARNING"], [LOG_TO_S3_LEVEL |-> "LOUD"]},
     options |-> {NoOptions, [level |-> "DEBUG"], [level |-> "ERROR"]}, lines |-> {},
     calls |-> Calls(DOMAIN LEVEL_ORDER, {"undefined"}, {{}}, {TRUE}), forms |-> {"bare"}]

\* What the caller may give as context: values that JSON writes, leaves out or
\* throws at, and a key that error() uses itself.
Contexts ==
    {{}, {<<"count", "plain">>}, {<<"count", "undefined">>},
     {<<"count", "plain">>, <<"more", "undefined">>},
     {<<"error", "plain">>, <<"count", "plain">>},
     {<<"count", "circular">>}, {<<"error", "circular">>}}

\* Objects that are not the logger's: without its sentinel, with it, and with
\* one that is a number.
Foreign == Object(TRUE, TRUE, [message |-> <<Text(FALSE)>>])
Alike == Object(FALSE, TRUE, [logLevel |-> "info", stackTrace |-> TRUE])
Numbered == Object(FALSE, FALSE, [logLevel |-> "info"])

Lines ==
    {<<Text(FALSE)>>, <<Text(TRUE)>>, <<Word("NOTICE"), Text(TRUE)>>,
     <<Brace(FALSE)>>, <<Text(FALSE), Brace(FALSE)>>, <<Foreign>>, <<Numbered>>,
     <<Text(FALSE), Foreign>>, <<Alike>>, <<Alike, Text(FALSE)>>,
     <<Text(FALSE), Alike>>, <<Text(FALSE), Brace(TRUE), Alike>>}

\* Every kind of record and line in every log format.
Wired ==
    [tasks |-> {}, sources |-> {"Api", "Worker"}, runs |-> 1,
     environments |-> {[LOG_TO_S3_LEVEL |-> "DEBUG"], [LOG_TO_S3_LEVEL |-> "ERROR"]},
     options |-> {NoOptions, [captureCaller |-> FALSE]},
     calls |-> Calls({"DEBUG", "WARN"}, {"undefined"}, Contexts, BOOLEAN) \cup
               Calls({"ERROR"}, {"undefined", "Error", "no stack", "other"}, Contexts, {TRUE}),
     lines |-> Lines,
     forms |-> Forms]

ProgramsMC == {Concurrent, Levelled, Wired}
=============================================================================
