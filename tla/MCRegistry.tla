----------------------------- MODULE MCRegistry -----------------------------
(* for TLC. *)
EXTENDS Registry, TLC

CONSTANTS d, a, b  \* loggers

(* Not set; one logger; all but one; all, with a name that is no level's. *)
Pair(logger, level) == [logger |-> logger, level |-> level]
MCInputs == {<<>>, <<Pair("x", "debug")>>, <<Pair("", "off"), Pair("x", "info")>>,
             <<Pair("", "debug"), Pair("x", "off"), Pair("x", "loud")>>}

MCLoggerName == d :> "" @@ a :> "x" @@ b :> "x"
=============================================================================
