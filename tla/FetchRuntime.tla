------------------------------ MODULE FetchRuntime ------------------------------
(***************************************************************************)
(* One call through BaseAPI of the client ts-fetch (runtime.ts): the       *)
(* request passes the pre hooks of the middlewares, the transport, their   *)
(* onError hooks if it fails, and their post hooks.  Hooks are the         *)
(* program's: each may let things be, put something in their place, throw, *)
(* or call fetch again, which goes through all middlewares once more.      *)
(***************************************************************************)
EXTENDS Naturals, Sequences, FiniteSetsExt

CONSTANTS
    Hooks,     \* the hooks that each middleware has, in their order
    MaxFetches \* bound: calls of fetchApi, the first and those of the hooks

HookNames == {"pre", "onError", "post"}

ASSUME HooksAssumption == Hooks \in Seq(SUBSET HookNames) /\ MaxFetches \in Nat \ {0}

VARIABLES
    frames,  \* the calls of fetchApi under way, the innermost last
    fetches, \* calls of fetchApi so far
    outcome  \* what the program got

vars == <<frames, fetches, outcome>>

\* Where a response comes from, whether it is 2xx, and whether its body has been read.
Response == [from : {"network", "hook"}, ok : BOOLEAN, used : BOOLEAN]
None == [none |-> TRUE]

\* The ends of fetchApi: a response or an exception.
Answer(response) == [kind |-> "response", response |-> response]
Exception(what) == [kind |-> what]
Exceptions == {"thrown", "FetchError", "TypeError"}
Ends == {Answer(r) : r \in Response} \cup {Exception(e) : e \in Exceptions}

\* A call of fetchApi: the phase, the middleware whose hook runs (0: none), what is
\* sent (the middleware that put it there, 0 for the caller), the response so far,
\* whether the transport failed, the hooks that have run, and the end of a call
\* that the running hook has made.
Running == [kind |-> "running"]
NotCalled == [kind |-> "not called"]
Frame == [phase : HookNames \cup {"fetch", "decide", "done"}, at : 0..Len(Hooks),
          request : 0..Len(Hooks), response : Response \cup {None}, failed : BOOLEAN,
          ran : SUBSET (HookNames \X (1..Len(Hooks))), inner : Ends \cup {NotCalled, Running}]

Having(hook) == {i \in DOMAIN Hooks : hook \in Hooks[i]}

\* After: the next middleware of the loop that has the hook, or what follows it.
\* Variant: the loop over onError hooks stops at the first response.
AfterFirst(f) ==
    LET rest == {i \in Having(f.phase) :
                    i > f.at /\ (f.phase = "onError" => f.response = None)} IN
    IF rest # {} THEN [f EXCEPT !.at = Min(rest)]
    ELSE [f EXCEPT !.at = 0,
                   !.phase = CASE f.phase = "pre" -> "fetch"
                               [] f.phase = "onError" -> "decide"
                               [] f.phase = "post" -> "done"]
After(f) ==
    LET rest == {i \in Having(f.phase) : i > f.at} IN
    IF rest # {} THEN [f EXCEPT !.at = Min(rest)]
    ELSE [f EXCEPT !.at = 0,
                   !.phase = CASE f.phase = "pre" -> "fetch"
                               [] f.phase = "onError" -> "decide"
                               [] f.phase = "post" -> "done"]
Loop(f, hook) == After([f EXCEPT !.phase = hook, !.at = 0])

fetchApi(request) ==
    Loop([phase |-> "pre", at |-> 0, request |-> request, response |-> None,
          failed |-> FALSE, ran |-> {}, inner |-> NotCalled], "pre")

Top == frames[Len(frames)]
Replace(f) == frames' = [frames EXCEPT ![Len(frames)] = f]
Outer == SubSeq(frames, 1, Len(frames) - 1)

\* request() and value(): an answer other than 2xx is a ResponseError, and a body
\* that has been read before cannot be read again.
Received(end) ==
    IF end.kind # "response" THEN end.kind
    ELSE IF ~end.response.ok THEN "ResponseError"
    ELSE IF end.response.used THEN "TypeError"
    ELSE "value"

\* Variant: nobody resolves the promise that a hook awaits.
EndUnresolved(end) ==
    IF Outer = <<>>
    THEN frames' = <<>> /\ outcome' = Received(end)
    ELSE frames' = Outer /\ outcome' = outcome
\* fetchApi ends: the program, or the hook that has called it, goes on.
End(end) ==
    IF Outer = <<>>
    THEN frames' = <<>> /\ outcome' = Received(end)
    ELSE /\ frames' = [Outer EXCEPT ![Len(Outer)].inner = end]
         /\ outcome' = outcome

Init ==
    /\ frames = <<fetchApi(0)>>
    /\ fetches = 1
    /\ outcome = "pending"

Hook(hook) == frames # <<>> /\ Top.phase = hook /\ Top.at # 0 /\ Top.inner # Running

\* The hook is over: `f` is the frame with what it has left behind.
HookEnds(f) ==
    Replace(After([f EXCEPT !.ran = @ \cup {<<Top.phase, Top.at>>}, !.inner = NotCalled]))

\* A hook calls context.fetch and awaits it.
FetchAgain ==
    /\ \E hook \in HookNames : Hook(hook)
    /\ Top.inner = NotCalled /\ fetches < MaxFetches
    /\ fetches' = fetches + 1
    /\ frames' = Append([frames EXCEPT ![Len(frames)].inner = Running], fetchApi(Top.request))
    /\ UNCHANGED outcome

Pre ==
    /\ Hook("pre")
    /\ \/ HookEnds(Top) /\ UNCHANGED outcome
       \/ HookEnds([Top EXCEPT !.request = Top.at]) /\ UNCHANGED outcome
       \/ End(Exception("thrown"))
    /\ UNCHANGED fetches

\* Variant: a response that is not 2xx goes through the onError hooks.
TransportStrict ==
    /\ frames # <<>> /\ Top.phase = "fetch"
    /\ \/ \E ok \in BOOLEAN :
            Replace(Loop([Top EXCEPT !.response = [from |-> "network", ok |-> ok, used |-> FALSE]],
                         IF ok THEN "post" ELSE "onError"))
       \/ Replace(Loop([Top EXCEPT !.failed = TRUE], "onError"))
    /\ UNCHANGED <<fetches, outcome>>
Transport ==
    /\ frames # <<>> /\ Top.phase = "fetch"
    /\ \/ \E ok \in BOOLEAN :
            Replace(Loop([Top EXCEPT !.response = [from |-> "network", ok |-> ok, used |-> FALSE]],
                         "post"))
       \/ Replace(Loop([Top EXCEPT !.failed = TRUE], "onError"))
    /\ UNCHANGED <<fetches, outcome>>

\* What an onError or post hook may return: nothing, which keeps the response, a
\* response of its own, or one that it has been given or has fetched itself, perhaps
\* after reading its body.
Given ==
    ({Top.response} \ {None})
    \cup (IF Top.inner.kind = "response" THEN {Top.inner.response} ELSE {})
Returned ==
    {Top.response} \cup Given \cup {[r EXCEPT !.used = TRUE] : r \in Given}
    \cup {[from |-> "hook", ok |-> ok, used |-> FALSE] : ok \in BOOLEAN}

CannotClone == Top.response # None /\ Top.response.used

OnErrorOrPost(hook) ==
    /\ Hook(hook)
    /\ IF CannotClone THEN End(Exception("TypeError"))
       ELSE \/ End(Exception("thrown"))
            \/ /\ \E response \in Returned : HookEnds([Top EXCEPT !.response = response])
               /\ UNCHANGED outcome
    /\ UNCHANGED fetches

\* Variant: the failure is swallowed.
DecideSilently ==
    /\ frames # <<>> /\ Top.phase = "decide"
    /\ Replace(Loop(Top, "post"))
    /\ UNCHANGED <<fetches, outcome>>
\* After the onError hooks: without a response the failure is the end.
Decide ==
    /\ frames # <<>> /\ Top.phase = "decide"
    /\ IF Top.response = None THEN End(Exception("FetchError"))
       ELSE Replace(Loop(Top, "post")) /\ UNCHANGED outcome
    /\ UNCHANGED fetches

Return ==
    /\ frames # <<>> /\ Top.phase = "done"
    /\ End(Answer(Top.response))
    /\ UNCHANGED fetches

Next ==
    \/ FetchAgain \/ Pre \/ Transport \/ OnErrorOrPost("onError") \/ OnErrorOrPost("post")
    \/ Decide \/ Return

\* The event loop goes on, and hooks and the transport come to an end.
Spec == Init /\ [][Next]_vars /\ WF_vars(Next)

-----------------------------------------------------------------------------
\* Only a frame that has failed has run onError hooks, and only the innermost frame
\* is not waiting.
TypeOK ==
    /\ frames \in Seq(Frame) /\ Len(frames) <= fetches
    /\ fetches \in 1..MaxFetches
    /\ outcome \in {"pending", "value", "ResponseError"} \cup Exceptions
    /\ (outcome = "pending") = (frames # <<>>)
    /\ \A d \in DOMAIN frames :
        /\ (frames[d].inner = Running) = (d < Len(frames))
        /\ (\E i \in DOMAIN Hooks : <<"onError", i>> \in frames[d].ran) => frames[d].failed

\* Every hook has its turn: when fetchApi returns a response, all its pre and post
\* hooks have run, and after a failure all onError hooks too, also those that come
\* after one that has already put a response in place.
AllHaveRun(f) ==
    {h \in HookNames \X DOMAIN Hooks :
        h[2] \in Having(h[1]) /\ (h[1] = "onError" => f.failed)} = f.ran
EveryHookRuns ==
    \A d \in DOMAIN frames : frames[d].phase = "done" => AllHaveRun(frames[d])

\* A failure of the transport is never shown to the program as a success, unless
\* a hook has given a response for it: a value or a ResponseError after a failure
\* needs an onError hook, and a FetchError means that none gave a response.
NoHiddenFailure ==
    \A d \in DOMAIN frames :
        LET f == frames[d] IN
        /\ f.failed /\ f.phase \in {"post", "done"} =>
            f.response # None /\ \E i \in DOMAIN Hooks : <<"onError", i>> \in f.ran
        /\ f.phase = "decide" => f.failed

\* The call settles, whatever the hooks do, once they stop fetching again.
CallSettles == <>(outcome # "pending")
=============================================================================
