---------------------------- MODULE MCPbHandlerPool ----------------------------
(* Seven sessions, so that the third thread comes, goes and comes again,    *)
(* and the five exceptions it takes to end the process, which may all be    *)
(* one thread's or leave it without work.  With two names for the detached  *)
(* threads a new one waits for the end of one that is unwinding.            *)
EXTENDS PbHandlerPool
===============================================================================
