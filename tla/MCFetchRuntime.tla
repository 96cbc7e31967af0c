------------------------------ MODULE MCFetchRuntime ------------------------------
(* Three middlewares: one with all hooks, one that only handles errors, and one *)
(* that looks at what comes and goes.                                           *)
EXTENDS FetchRuntime

ThreeMiddlewares == <<HookNames, {"onError"}, {"pre", "post"}>>
=============================================================================
