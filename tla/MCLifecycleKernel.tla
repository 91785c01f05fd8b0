------------------------- MODULE MCLifecycleKernel --------------------------
(* LifecycleKernel for a database, a cache and a web server on top of it,  *)
(* and an optional component on top of the cache.                          *)
EXTENDS LifecycleKernel

MCComponents == {"db", "cache", "web", "extra"}
MCNames == <<"cache", "db", "extra", "web">>
MCDependsOn == [db |-> {}, cache |-> {"db"}, web |-> {"db"}, extra |-> {"cache"}]
MCFatal == {"db", "cache", "web"}
MCParallelSafe == {"cache", "web"}
MCPriority == [db |-> 0, cache |-> 1, web |-> 1, extra |-> 2]
MCStopPriority == [db |-> 2, cache |-> 0, web |-> 1, extra |-> 1]
=============================================================================
