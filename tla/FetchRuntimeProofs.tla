--------------------------- MODULE FetchRuntimeProofs ---------------------------
(***************************************************************************)
(* Safety of one call through the middlewares of ts-fetch, for any number  *)
(* of middlewares with any hooks, and any number of calls that hooks make. *)
(***************************************************************************)
EXTENDS FetchRuntime, SequenceTheorems, WellFoundedInduction, TLAPS

\* How far a call is: in a loop, at a middleware that has the hook.
AtHook(f) ==
    IF f.phase \in HookNames THEN f.at \in Having(f.phase) ELSE f.at = 0

\* Which hooks have run: all of the loops before, and in the present loop those of
\* the middlewares before the one whose hook runs.
Turns(f) ==
    \A i \in DOMAIN Hooks :
        /\ <<"pre", i>> \in f.ran <=>
            i \in Having("pre") /\ (f.phase = "pre" => i < f.at)
        /\ <<"onError", i>> \in f.ran <=>
            i \in Having("onError") /\ f.failed /\ (f.phase = "onError" => i < f.at)
        /\ <<"post", i>> \in f.ran <=>
            /\ i \in Having("post") /\ f.phase \in {"post", "done"}
            /\ f.phase = "post" => i < f.at

\* What the phase says of the failure and of the response, which after a failure
\* only an onError hook can have put there.
Outcome(f) ==
    /\ f.phase \in {"pre", "fetch"} => ~f.failed /\ f.response = None
    /\ f.phase \in {"onError", "decide"} => f.failed
    /\ f.phase \in {"post", "done"} => f.response # None
    /\ f.failed /\ f.response # None =>
        \E i \in DOMAIN Hooks : <<"onError", i>> \in f.ran

FrameOK(f) == f \in Frame /\ AtHook(f) /\ Turns(f) /\ Outcome(f)

\* A call waits for a call that one of its hooks has made, unless it is the innermost.
Nested ==
    \A d \in DOMAIN frames : (frames[d].inner = Running) <=> d < Len(frames)

Bounds ==
    /\ frames \in Seq(Frame) /\ Len(frames) <= fetches
    /\ fetches \in 1..MaxFetches
    /\ outcome \in {"pending", "value", "ResponseError"} \cup Exceptions
    /\ (outcome = "pending") <=> (frames # <<>>)

IInv == Bounds /\ Nested /\ \A d \in DOMAIN frames : FrameOK(frames[d])

--------------------------------------------------------------------------------
(* Lemmas about the loops over the middlewares. *)

\* Min is the least element of any set of numbers that has one.
LEMMA MinOf ==
  ASSUME NEW S \in SUBSET Nat, S # {}
  PROVE  Min(S) \in S /\ \A y \in S : Min(S) <= y
<1>1. PICK x \in S : \A y \in S : <<y, x>> \notin OpToRel(<, Nat)
  BY NatLessThanWellFounded, WFMin
<1>2. \A y \in S : x <= y
  <2> SUFFICES ASSUME NEW y \in S, y < x PROVE FALSE
    OBVIOUS
  <2>1. <<y, x>> \in Nat \X Nat
    OBVIOUS
  <2>2. <<y, x>> \in OpToRel(<, Nat)
    BY <2>1 DEF OpToRel
  <2> QED BY <1>1, <2>2
<1> QED BY <1>2 DEF Min

\* The middlewares that have a hook.
LEMMA HavingType == \A hook : Having(hook) \subseteq 1..Len(Hooks)
BY HooksAssumption DEF HooksAssumption, Having

\* The middlewares are a finite sequence, walked by index.
LEMMA HooksType == Len(Hooks) \in Nat /\ DOMAIN Hooks = 1..Len(Hooks)
BY HooksAssumption DEF HooksAssumption

\* The loop goes to the next middleware that has the hook, and none is left out; or
\* none is left and what follows the loop is next.
LEMMA AfterIs ==
  ASSUME NEW f, f.at \in 0..Len(Hooks)
  PROVE  \/ \E j \in Having(f.phase) :
              /\ After(f) = [f EXCEPT !.at = j] /\ f.at < j
              /\ \A i \in Having(f.phase) : i <= f.at \/ j <= i
         \/ /\ After(f) = [f EXCEPT !.at = 0,
                              !.phase = CASE f.phase = "pre" -> "fetch"
                                          [] f.phase = "onError" -> "decide"
                                          [] f.phase = "post" -> "done"]
            /\ \A i \in Having(f.phase) : i <= f.at
<1> DEFINE rest == {i \in Having(f.phase) : i > f.at}
<1>1. rest \in SUBSET Nat
  BY HavingType, HooksType
<1>2. CASE rest = {}
  <2>1. \A i \in Having(f.phase) : i <= f.at
    BY <1>2, HavingType, HooksType
  <2> QED BY <1>2, <2>1 DEF After
<1>3. CASE rest # {}
  <2>1. Min(rest) \in rest /\ \A y \in rest : Min(rest) <= y
    BY <1>1, <1>3, MinOf
  <2>2. After(f) = [f EXCEPT !.at = Min(rest)]
    BY <1>3 DEF After
  <2>3. \A i \in Having(f.phase) : i <= f.at \/ Min(rest) <= i
    BY <2>1, HavingType, HooksType
  <2> QED BY <2>1, <2>2, <2>3
<1> QED BY <1>2, <1>3

\* The turns of a loop whose present hook is over, or that is about to begin.
TurnsUpTo(f) ==
    \A i \in DOMAIN Hooks :
        /\ <<"pre", i>> \in f.ran <=>
            i \in Having("pre") /\ (f.phase = "pre" => i <= f.at)
        /\ <<"onError", i>> \in f.ran <=>
            i \in Having("onError") /\ f.failed /\ (f.phase = "onError" => i <= f.at)
        /\ <<"post", i>> \in f.ran <=>
            i \in Having("post") /\ f.phase = "post" /\ i <= f.at

\* Going on in a loop keeps what is known of the call: the hooks that had their turn are
\* the ones up to where the loop is, and the loop that follows starts from none.
LEMMA AfterKeeps ==
  ASSUME NEW f \in Frame, f.phase \in HookNames, TurnsUpTo(f), Outcome(f)
  PROVE  FrameOK(After(f)) /\ After(f).inner = f.inner
<1> DEFINE g == After(f)
           next == CASE f.phase = "pre" -> "fetch"
                     [] f.phase = "onError" -> "decide"
                     [] f.phase = "post" -> "done"
<1>1. f.at \in 0..Len(Hooks) /\ f.at \in Nat
  BY HooksType DEF Frame
<1>2. CASE \E j \in Having(f.phase) :
              /\ g = [f EXCEPT !.at = j] /\ f.at < j
              /\ \A i \in Having(f.phase) : i <= f.at \/ j <= i
  <2>1. PICK j \in Having(f.phase) :
              /\ g = [f EXCEPT !.at = j] /\ f.at < j
              /\ \A i \in Having(f.phase) : i <= f.at \/ j <= i
    BY <1>2
  <2>2. j \in 1..Len(Hooks)
    BY HavingType
  <2> HIDE DEF g
  <2>3. /\ g \in Frame /\ g.phase = f.phase /\ g.at = j /\ g.ran = f.ran
        /\ g.failed = f.failed /\ g.response = f.response /\ g.inner = f.inner
    BY <2>1, <2>2, HooksType DEF Frame
  <2>4. \A i \in Having(f.phase) : i <= f.at <=> i < j
    BY <1>1, <2>1, <2>2, HavingType, HooksType
  <2>5. Turns(g)
    BY <2>3, <2>4 DEF Turns, TurnsUpTo, HookNames
  <2>6. AtHook(g) /\ Outcome(g)
    BY <2>3 DEF AtHook, Outcome
  <2> QED BY <2>3, <2>5, <2>6 DEF FrameOK, g
<1>3. CASE /\ g = [f EXCEPT !.at = 0, !.phase = next]
           /\ \A i \in Having(f.phase) : i <= f.at
  <2>1. /\ f.phase = "pre" => next = "fetch"
        /\ f.phase = "onError" => next = "decide"
        /\ f.phase = "post" => next = "done"
    OBVIOUS
  <2> HIDE DEF g, next
  <2>2. next \in {"fetch", "decide", "done"}
    BY <2>1 DEF HookNames
  <2> DEFINE h == [f EXCEPT !.at = 0]
  <2>h. /\ h \in Frame /\ h.at = 0 /\ h.phase = f.phase /\ h.ran = f.ran
        /\ h.failed = f.failed /\ h.response = f.response /\ h.inner = f.inner
    BY HooksType DEF Frame
  <2>g. g = [h EXCEPT !.phase = next]
    BY <1>3
  <2> HIDE DEF h
  <2>3. /\ g \in Frame /\ g.phase = next /\ g.at = 0 /\ g.ran = f.ran
        /\ g.failed = f.failed /\ g.response = f.response /\ g.inner = f.inner
    BY <2>2, <2>h, <2>g DEF Frame
  <2>4. Turns(g)
    BY <1>3, <2>1, <2>3 DEF Turns, TurnsUpTo, HookNames
  <2>5. AtHook(g) /\ Outcome(g)
    BY <2>1, <2>2, <2>3 DEF AtHook, Outcome, HookNames
  <2> QED BY <2>3, <2>4, <2>5 DEF FrameOK, g
<1> QED BY <1>1, <1>2, <1>3, AfterIs

\* A loop that begins, at the hooks before it or after the transport.
LEMMA LoopKeeps ==
  ASSUME NEW f \in Frame, NEW hook \in HookNames, f.at = 0,
         f.failed /\ f.response # None =>
            \E i \in DOMAIN Hooks : <<"onError", i>> \in f.ran,
         \A i \in DOMAIN Hooks :
            /\ <<"pre", i>> \in f.ran <=> i \in Having("pre") /\ hook # "pre"
            /\ <<"onError", i>> \in f.ran <=>
                i \in Having("onError") /\ f.failed /\ hook = "post"
            /\ <<"post", i>> \notin f.ran,
         hook = "pre" => ~f.failed /\ f.response = None, hook = "onError" => f.failed,
         hook = "post" => f.response # None
  PROVE  FrameOK(Loop(f, hook)) /\ Loop(f, hook).inner = f.inner
<1> DEFINE g == [f EXCEPT !.phase = hook]
<1>1. [f EXCEPT !.phase = hook, !.at = 0] = [g EXCEPT !.at = 0]
  OBVIOUS
<1>2. /\ g \in Frame /\ g.phase = hook /\ g.ran = f.ran /\ g.at = 0
      /\ g.failed = f.failed /\ g.response = f.response /\ g.inner = f.inner
  BY DEF Frame
<1>3. [g EXCEPT !.at = 0] = g
  BY <1>2 DEF Frame
<1> HIDE DEF g
<1>4. \A i \in DOMAIN Hooks : ~(i <= 0)
  BY HooksType
<1>5. TurnsUpTo(g)
  BY <1>2, <1>4, HavingType, HooksType DEF TurnsUpTo, HookNames
<1>6. Outcome(g)
  BY <1>2 DEF Outcome, HookNames
<1>7. FrameOK(After(g)) /\ After(g).inner = g.inner
  BY <1>2, <1>5, <1>6, AfterKeeps
<1> QED BY <1>1, <1>2, <1>3, <1>7 DEF Loop

--------------------------------------------------------------------------------
(* Lemmas about the values of the client. *)

\* A response is neither the absence of one nor an end, and a call that has ended
\* is no longer running.
LEMMA Kinds ==
  /\ None \notin Response
  /\ Running \notin Ends /\ NotCalled # Running
  /\ \A end \in Ends : end.kind = "response" => end.response \in Response
<1>1. None \notin Response
  BY DEF None, Response
<1>2. Running \notin Ends /\ NotCalled # Running
  BY DEF Running, NotCalled, Ends, Answer, Exception, Exceptions
<1>3. \A end \in Ends : end.kind = "response" => end.response \in Response
  BY DEF Ends, Answer, Exception, Exceptions
<1> QED BY <1>1, <1>2, <1>3

\* What the program gets of an end.
LEMMA ReceivedType ==
  ASSUME NEW end \in Ends
  PROVE  Received(end) \in {"value", "ResponseError"} \cup Exceptions
<1>1. end.kind \in {"response"} \cup Exceptions
  BY DEF Ends, Answer, Exception
<1> QED BY <1>1 DEF Received, Exceptions

\* A frame that is made fits.
LEMMA NewFrame ==
  ASSUME NEW r \in 0..Len(Hooks)
  PROVE  FrameOK(fetchApi(r)) /\ fetchApi(r).inner = NotCalled
<1> DEFINE f == [phase |-> "pre", at |-> 0, request |-> r, response |-> None,
                 failed |-> FALSE, ran |-> {}, inner |-> NotCalled]
<1>1. f \in Frame
  BY HooksType DEF Frame, HookNames
<1>2. Outcome(f)
  BY DEF Outcome
<1> QED BY <1>1, <1>2, LoopKeeps DEF fetchApi, HookNames

--------------------------------------------------------------------------------
(* What becomes of the calls under way. *)

\* The innermost call.
LEMMA TopIs ==
  ASSUME IInv, frames # <<>>
  PROVE  /\ Len(frames) \in Nat \ {0} /\ Len(frames) \in DOMAIN frames
         /\ DOMAIN frames = 1..Len(frames)
         /\ FrameOK(Top) /\ Top \in Frame /\ Top.inner # Running
<1>1. frames \in Seq(Frame)
  BY DEF IInv, Bounds
<1>2. Len(frames) \in Nat \ {0} /\ DOMAIN frames = 1..Len(frames)
  BY <1>1
<1>3. Len(frames) \in DOMAIN frames
  BY <1>2
<1> QED BY <1>2, <1>3 DEF IInv, Nested, Top, FrameOK

\* The innermost call goes on to its next phase or hook.
LEMMA ReplaceKeeps ==
  ASSUME IInv, frames # <<>>, NEW f, FrameOK(f), f.inner # Running, Replace(f),
         UNCHANGED <<fetches, outcome>>
  PROVE  IInv'
<1>1. frames \in Seq(Frame) /\ f \in Frame
  BY DEF IInv, Bounds, FrameOK
<1>2. /\ frames' \in Seq(Frame) /\ Len(frames') = Len(frames) /\ DOMAIN frames' = DOMAIN frames
      /\ frames'[Len(frames)] = f
      /\ \A d \in DOMAIN frames : d # Len(frames) => frames'[d] = frames[d]
  BY <1>1, TopIs DEF Replace
<1>3. frames' # <<>>
  BY <1>1, <1>2, TopIs
<1>4. Bounds'
  BY <1>2, <1>3 DEF IInv, Bounds
<1>5. Nested'
  BY <1>2, TopIs DEF IInv, Nested
<1>6. \A d \in DOMAIN frames' : FrameOK(frames'[d])
  BY <1>2 DEF IInv
<1> QED BY <1>4, <1>5, <1>6 DEF IInv, FrameOK, AtHook, Turns, Outcome

\* The innermost call ends: the program, or the hook that has made it, goes on.
LEMMA EndKeeps ==
  ASSUME IInv, frames # <<>>, NEW end \in Ends, End(end), UNCHANGED fetches
  PROVE  IInv'
<1> DEFINE n == Len(frames)
<1>1. frames \in Seq(Frame) /\ n \in Nat \ {0} /\ DOMAIN frames = 1..n
  BY TopIs DEF IInv, Bounds
<1>2. /\ Outer \in Seq(Frame) /\ Len(Outer) = n - 1 /\ DOMAIN Outer = 1..(n - 1)
      /\ \A d \in 1..(n - 1) : Outer[d] = frames[d]
  BY <1>1 DEF Outer
<1>3. CASE Outer = <<>>
  <2>1. frames' = <<>> /\ outcome' = Received(end)
    BY <1>3 DEF End
  <2>2. Received(end) \in {"value", "ResponseError"} \cup Exceptions /\ Received(end) # "pending"
    BY ReceivedType DEF Exceptions
  <2>3. Bounds'
    <3>1. frames' \in Seq(Frame) /\ Len(frames') = 0
      BY <2>1
    <3>2. fetches' \in 1..MaxFetches /\ Len(frames') <= fetches'
      BY <3>1, HooksAssumption DEF IInv, Bounds, HooksAssumption
    <3>3. outcome' \in {"pending", "value", "ResponseError"} \cup Exceptions
      BY <2>1, <2>2
    <3>4. (outcome' = "pending") <=> (frames' # <<>>)
      BY <2>1, <2>2
    <3> QED BY <3>1, <3>2, <3>3, <3>4 DEF Bounds
  <2>4. Nested' /\ \A d \in DOMAIN frames' : FrameOK(frames'[d])
    BY <2>1 DEF Nested
  <2> QED BY <2>3, <2>4 DEF IInv, FrameOK, AtHook, Turns, Outcome
<1>4. CASE Outer # <<>>
  <2> DEFINE m == n - 1
             f == [Outer[m] EXCEPT !.inner = end]
  <2>1. m \in 1..n /\ m # 0 /\ m \in DOMAIN Outer /\ Len(Outer) = m
    BY <1>1, <1>2, <1>4
  <2>2. frames' = [Outer EXCEPT ![m] = f] /\ outcome' = outcome
    BY <1>2, <1>4, <2>1 DEF End
  <2>3. FrameOK(Outer[m]) /\ Outer[m] \in Frame
    BY <1>1, <1>2, <2>1 DEF IInv, FrameOK
  <2>4. /\ f \in Frame /\ f.phase = Outer[m].phase /\ f.at = Outer[m].at
        /\ f.ran = Outer[m].ran /\ f.failed = Outer[m].failed
        /\ f.response = Outer[m].response /\ f.inner = end
    BY <2>3 DEF Frame
  <2> HIDE DEF f
  <2>5. FrameOK(f)
    BY <2>3, <2>4 DEF FrameOK, AtHook, Turns, Outcome
  <2>a. n = m + 1 /\ m \in Nat /\ 1..m \subseteq 1..n /\ m \in 1..m
    BY <1>1, <2>1
  <2> HIDE DEF m
  <2>b. /\ frames' \in Seq(Frame) /\ Len(frames') = m /\ DOMAIN frames' = 1..m
    BY <1>2, <2>1, <2>2, <2>4
  <2>c. frames'[m] = f
    BY <2>1, <2>2
  <2>d. ASSUME NEW d \in 1..m, d # m PROVE frames'[d] = frames[d]
    <3>1. d \in DOMAIN Outer /\ frames'[d] = Outer[d]
      BY <1>2, <2>1, <2>2, <2>d
    <3> QED BY <1>2, <3>1
  <2>6. /\ frames' \in Seq(Frame) /\ Len(frames') = m /\ DOMAIN frames' = 1..m
        /\ frames'[m] = f
        /\ \A d \in 1..m : d # m => frames'[d] = frames[d]
    BY <2>b, <2>c, <2>d
  <2>7. Bounds'
    <3>1. m <= fetches /\ fetches \in 1..MaxFetches
      BY <1>1, <2>a, HooksAssumption DEF IInv, Bounds, HooksAssumption
    <3>2. frames' # <<>> /\ frames # <<>>
      BY <2>1, <2>6
    <3> QED BY <2>2, <2>6, <3>1, <3>2 DEF IInv, Bounds
  <2>8. Nested'
    BY <1>1, <2>a, <2>4, <2>6, Kinds DEF IInv, Nested
  <2>9. \A d \in DOMAIN frames' : FrameOK(frames'[d])
    BY <1>1, <2>a, <2>5, <2>6 DEF IInv
  <2> QED BY <2>7, <2>8, <2>9 DEF IInv, FrameOK, AtHook, Turns, Outcome
<1> QED BY <1>3, <1>4

\* A hook is over: it has had its turn and the loop goes on.  The frame `f` that it
\* leaves behind differs from the present one in the request or in the response, and
\* no response is taken away.
LEMMA HookEndsKeeps ==
  ASSUME IInv, frames # <<>>, Top.phase \in HookNames,
         NEW f \in Frame,
         f.phase = Top.phase, f.at = Top.at, f.ran = Top.ran, f.failed = Top.failed,
         f.response = None => Top.response = None,
         Top.phase = "pre" => f.response = Top.response,
         HookEnds(f), UNCHANGED <<fetches, outcome>>
  PROVE  IInv'
<1> DEFINE g == [f EXCEPT !.ran = @ \cup {<<Top.phase, Top.at>>}, !.inner = NotCalled]
<1>1. FrameOK(Top) /\ Top \in Frame
  BY TopIs
<1>2. Top.at \in Having(Top.phase) /\ Top.at \in 1..Len(Hooks)
  BY <1>1, HavingType DEF FrameOK, AtHook
<1>3. <<Top.phase, Top.at>> \in HookNames \X (1..Len(Hooks))
  BY <1>2
<1>4. /\ g \in Frame /\ g.phase = Top.phase /\ g.at = Top.at
      /\ g.ran = Top.ran \cup {<<Top.phase, Top.at>>} /\ g.failed = Top.failed
      /\ g.response = f.response /\ g.inner = NotCalled
  BY <1>3 DEF Frame
<1> HIDE DEF g
<1>5. TurnsUpTo(g)
  <2>1. \A i \in DOMAIN Hooks : i <= Top.at <=> i < Top.at \/ i = Top.at
    BY <1>2, HooksType
  <2>2. \A hook \in HookNames, i \in DOMAIN Hooks :
          <<hook, i>> \in g.ran <=>
            <<hook, i>> \in Top.ran \/ (hook = Top.phase /\ i = Top.at)
    BY <1>4
  <2>3. Turns(Top) /\ Outcome(Top)
    BY <1>1 DEF FrameOK
  <2> QED BY <1>2, <1>4, <2>1, <2>2, <2>3 DEF TurnsUpTo, Turns, Outcome, HookNames
<1>6. Outcome(g)
  <2>1. Outcome(Top)
    BY <1>1 DEF FrameOK
  <2>2. ASSUME g.failed, g.response # None
        PROVE  \E i \in DOMAIN Hooks : <<"onError", i>> \in g.ran
    <3>1. CASE Top.phase = "onError"
      BY <1>2, <1>4, <3>1, HooksType
    <3>2. CASE Top.phase # "onError"
      <4>1. Top.phase = "post"
        BY <2>1, <2>2, <1>4, <3>2 DEF Outcome, HookNames
      <4>2. Top.response # None
        BY <2>1, <4>1 DEF Outcome
      <4> QED BY <1>4, <2>1, <2>2, <4>2 DEF Outcome
    <3> QED BY <3>1, <3>2
  <2> QED BY <1>4, <2>1, <2>2 DEF Outcome, HookNames
<1>7. FrameOK(After(g)) /\ After(g).inner # Running
  BY <1>4, <1>5, <1>6, AfterKeeps, Kinds
<1>8. Replace(After(g))
  BY DEF HookEnds, g
<1> QED BY <1>7, <1>8, ReplaceKeeps

--------------------------------------------------------------------------------
(* One lemma per action. *)

\* The call a program makes starts in the invariant.
LEMMA InitKeeps == Init => IInv
<1> SUFFICES ASSUME Init PROVE IInv
  OBVIOUS
<1> DEFINE f == fetchApi(0)
<1>1. FrameOK(f) /\ f.inner # Running /\ f \in Frame
  BY NewFrame, Kinds, HooksType DEF FrameOK
<1> HIDE DEF f
<1>2. frames = <<f>>
  BY DEF Init, f
<1>3. frames \in Seq(Frame) /\ Len(frames) = 1 /\ DOMAIN frames = 1..1 /\ frames[1] = f
  BY <1>1, <1>2
<1>4. Bounds
  BY <1>2, <1>3, HooksAssumption DEF Init, Bounds, HooksAssumption
<1>5. Nested /\ \A d \in DOMAIN frames : FrameOK(frames[d])
  BY <1>1, <1>3 DEF Nested
<1> QED BY <1>4, <1>5 DEF IInv

\* A hook that calls fetch starts a call above its own, which waits for it.
LEMMA FetchAgainKeeps == IInv /\ FetchAgain => IInv'
<1> SUFFICES ASSUME IInv, FetchAgain PROVE IInv'
  OBVIOUS
<1> DEFINE n == Len(frames)
           f == [Top EXCEPT !.inner = Running]
           new == fetchApi(Top.request)
           waiting == [frames EXCEPT ![n].inner = Running]
<1>1. frames # <<>>
  BY DEF FetchAgain, Hook
<1>2. frames \in Seq(Frame) /\ n \in Nat \ {0} /\ n \in DOMAIN frames /\ DOMAIN frames = 1..n
      /\ FrameOK(Top) /\ Top \in Frame
  BY <1>1, TopIs DEF IInv, Bounds
<1>3. /\ f \in Frame /\ f.phase = Top.phase /\ f.at = Top.at /\ f.ran = Top.ran
      /\ f.failed = Top.failed /\ f.response = Top.response /\ f.inner = Running
  BY <1>2 DEF Frame
<1>4. FrameOK(f)
  BY <1>2, <1>3 DEF FrameOK, AtHook, Turns, Outcome
<1>5. FrameOK(new) /\ new.inner # Running /\ new \in Frame
  <2>1. Top.request \in 0..Len(Hooks)
    BY <1>2 DEF Frame
  <2> QED BY <2>1, NewFrame, Kinds DEF FrameOK
<1>6. waiting = [frames EXCEPT ![n] = f]
  BY DEF Top
<1> HIDE DEF f, new
<1>7. /\ waiting \in Seq(Frame) /\ Len(waiting) = n /\ waiting[n] = f
      /\ \A d \in 1..n : d # n => waiting[d] = frames[d]
  BY <1>2, <1>3, <1>6
<1>8. frames' = Append(waiting, new) /\ fetches' = fetches + 1 /\ outcome' = outcome
  BY DEF FetchAgain, new
<1> HIDE DEF waiting, n
<1>9. /\ frames' \in Seq(Frame) /\ Len(frames') = n + 1 /\ DOMAIN frames' = 1..(n + 1)
      /\ frames'[n + 1] = new /\ frames'[n] = f
      /\ \A d \in 1..n : d # n => frames'[d] = frames[d]
  BY <1>2, <1>5, <1>7, <1>8
<1>10. \A d \in 1..(n + 1) : d = n + 1 \/ d = n \/ (d \in 1..n /\ d # n)
  BY <1>2
<1>11. Bounds'
  <2>1. fetches < MaxFetches /\ fetches \in 1..MaxFetches /\ MaxFetches \in Nat /\ n <= fetches
    BY HooksAssumption DEF HooksAssumption, FetchAgain, IInv, Bounds, n
  <2>2. fetches' \in 1..MaxFetches /\ n + 1 <= fetches'
    BY <1>2, <1>8, <2>1
  <2>3. frames' # <<>>
    BY <1>2, <1>9
  <2> QED BY <1>1, <1>8, <1>9, <2>2, <2>3 DEF IInv, Bounds
<1>12. Nested'
  <2>1. \A d \in DOMAIN frames : (frames[d].inner = Running) <=> d < n
    BY DEF IInv, Nested, n
  <2>2. ASSUME NEW d \in 1..(n + 1)
        PROVE  (frames'[d].inner = Running) <=> d < n + 1
    BY <1>2, <1>3, <1>5, <1>9, <1>10, <2>1
  <2> QED BY <1>9, <2>2 DEF Nested
<1>13. \A d \in DOMAIN frames' : FrameOK(frames'[d])
  BY <1>2, <1>4, <1>5, <1>9, <1>10 DEF IInv
<1> QED BY <1>11, <1>12, <1>13 DEF IInv, FrameOK, AtHook, Turns, Outcome

\* A pre hook that ends, with an outcome or an exception, keeps the invariant.
LEMMA PreKeeps == IInv /\ Pre => IInv'
<1> SUFFICES ASSUME IInv, Pre PROVE IInv'
  OBVIOUS
<1>1. frames # <<>> /\ Top.phase = "pre" /\ UNCHANGED fetches
  BY DEF Pre, Hook
<1>2. Top \in Frame
  BY <1>1, TopIs
<1>3. CASE HookEnds(Top) /\ UNCHANGED outcome
  BY <1>1, <1>2, <1>3, HookEndsKeeps DEF HookNames
<1>4. CASE HookEnds([Top EXCEPT !.request = Top.at]) /\ UNCHANGED outcome
  <2> DEFINE f == [Top EXCEPT !.request = Top.at]
  <2>1. /\ f \in Frame /\ f.phase = Top.phase /\ f.at = Top.at /\ f.ran = Top.ran
        /\ f.failed = Top.failed /\ f.response = Top.response
    BY <1>2 DEF Frame
  <2> HIDE DEF f
  <2>2. HookEnds(f)
    BY <1>4 DEF f
  <2> QED BY <1>1, <1>4, <2>1, <2>2, HookEndsKeeps DEF HookNames
<1>5. CASE End(Exception("thrown"))
  BY <1>1, <1>5, EndKeeps DEF Ends, Exceptions
<1> QED BY <1>3, <1>4, <1>5 DEF Pre

\* The frame with what the transport has brought.
LEMMA TransportKeeps == IInv /\ Transport => IInv'
<1> SUFFICES ASSUME IInv, Transport PROVE IInv'
  OBVIOUS
<1>1. frames # <<>> /\ Top.phase = "fetch" /\ UNCHANGED <<fetches, outcome>>
  BY DEF Transport
<1>2. Top \in Frame /\ Top.at = 0 /\ Turns(Top) /\ Outcome(Top) /\ Top.inner # Running
  BY <1>1, TopIs DEF FrameOK, AtHook, HookNames
<1>3. ~Top.failed /\ \A i \in DOMAIN Hooks : <<"onError", i>> \notin Top.ran
  BY <1>1, <1>2 DEF Outcome, Turns
<1>4. ASSUME NEW ok \in BOOLEAN,
             Replace(Loop([Top EXCEPT !.response =
                [from |-> "network", ok |-> ok, used |-> FALSE]], "post"))
      PROVE  IInv'
  <2> DEFINE r == [from |-> "network", ok |-> ok, used |-> FALSE]
             f == [Top EXCEPT !.response = r]
  <2>1. r \in Response
    BY Zenon DEF Response
  <2> HIDE DEF r
  <2>2. /\ f \in Frame /\ f.phase = Top.phase /\ f.at = 0 /\ f.ran = Top.ran
        /\ f.failed = Top.failed /\ f.response = r /\ f.inner = Top.inner
    BY <1>2, <2>1 DEF Frame
  <2> HIDE DEF f
  <2>3. f.response # None /\ ~f.failed
    BY <1>3, <2>1, <2>2, Kinds
  <2>t. \A i \in DOMAIN Hooks :
          /\ <<"pre", i>> \in f.ran <=> i \in Having("pre")
          /\ <<"onError", i>> \notin f.ran /\ <<"post", i>> \notin f.ran
    BY <1>1, <1>2, <1>3, <2>2 DEF Turns
  <2>4. FrameOK(Loop(f, "post")) /\ Loop(f, "post").inner = f.inner
    BY <2>2, <2>3, <2>t, LoopKeeps DEF HookNames
  <2>5. Replace(Loop(f, "post"))
    BY <1>4 DEF f, r
  <2> QED BY <1>1, <1>2, <2>2, <2>4, <2>5, ReplaceKeeps
<1>5. CASE Replace(Loop([Top EXCEPT !.failed = TRUE], "onError"))
  <2> DEFINE f == [Top EXCEPT !.failed = TRUE]
  <2>1. /\ f \in Frame /\ f.phase = Top.phase /\ f.at = 0 /\ f.ran = Top.ran
        /\ f.failed = TRUE /\ f.response = Top.response /\ f.inner = Top.inner
    BY <1>2 DEF Frame
  <2> HIDE DEF f
  <2>2. f.response = None
    BY <1>1, <1>2, <2>1 DEF Outcome
  <2>t. \A i \in DOMAIN Hooks :
          /\ <<"pre", i>> \in f.ran <=> i \in Having("pre")
          /\ <<"onError", i>> \notin f.ran /\ <<"post", i>> \notin f.ran
    BY <1>1, <1>2, <1>3, <2>1 DEF Turns
  <2>3. FrameOK(Loop(f, "onError")) /\ Loop(f, "onError").inner = f.inner
    BY <2>1, <2>2, <2>t, LoopKeeps DEF HookNames
  <2>4. Replace(Loop(f, "onError"))
    BY <1>5 DEF f
  <2> QED BY <1>1, <1>2, <2>1, <2>3, <2>4, ReplaceKeeps
<1> QED BY <1>1, <1>4, <1>5 DEF Transport

\* What a hook may return is a response, or the absence of one where there was none.
LEMMA ReturnedType ==
  ASSUME Top \in Frame, NEW response \in Returned
  PROVE  /\ response \in Response \cup {None}
         /\ response = None => Top.response = None
<1>1. Top.response \in Response \cup {None} /\ Top.inner \in Ends \cup {NotCalled, Running}
  BY DEF Frame
<1>2. Top.inner.kind = "response" => Top.inner.response \in Response
  <2>1. NotCalled.kind # "response" /\ Running.kind # "response"
    BY DEF NotCalled, Running
  <2> QED BY <1>1, <2>1, Kinds
<1>3. Given \subseteq Response
  BY <1>1, <1>2 DEF Given
<1>4. \A r \in Response : [r EXCEPT !.used = TRUE] \in Response
  BY DEF Response
<1>5. \A ok \in BOOLEAN : [from |-> "hook", ok |-> ok, used |-> FALSE] \in Response
  BY Zenon DEF Response
<1>6. response = Top.response \/ response \in Response
  BY <1>3, <1>4, <1>5 DEF Returned
<1> QED BY <1>1, <1>6, Kinds

\* So does an onError or a post hook, which may also replace or throw away the response.
LEMMA OnErrorOrPostKeeps ==
  ASSUME IInv, NEW hook \in {"onError", "post"}, OnErrorOrPost(hook)
  PROVE  IInv'
<1>1. frames # <<>> /\ Top.phase = hook /\ UNCHANGED fetches
  BY DEF OnErrorOrPost, Hook
<1>2. Top \in Frame
  BY <1>1, TopIs
<1>3. ASSUME NEW e \in Exceptions, End(Exception(e)) PROVE IInv'
  BY <1>1, <1>3, EndKeeps DEF Ends
<1>4. ASSUME NEW response \in Returned, HookEnds([Top EXCEPT !.response = response]),
             UNCHANGED outcome
      PROVE  IInv'
  <2> DEFINE f == [Top EXCEPT !.response = response]
  <2>1. response \in Response \cup {None} /\ (response = None => Top.response = None)
    BY <1>2, ReturnedType
  <2>2. /\ f \in Frame /\ f.phase = Top.phase /\ f.at = Top.at /\ f.ran = Top.ran
        /\ f.failed = Top.failed /\ f.response = response
    BY <1>2, <2>1 DEF Frame
  <2> HIDE DEF f
  <2>3. HookEnds(f)
    BY <1>4 DEF f
  <2> QED BY <1>1, <1>4, <2>1, <2>2, <2>3, HookEndsKeeps DEF HookNames
<1>5. \/ End(Exception("TypeError")) \/ End(Exception("thrown"))
      \/ \E response \in Returned :
            HookEnds([Top EXCEPT !.response = response]) /\ UNCHANGED outcome
  BY DEF OnErrorOrPost
<1> QED BY <1>3, <1>4, <1>5 DEF Exceptions

\* So does what is decided after the onError hooks: to throw, or to go on to the post hooks.
LEMMA DecideKeeps == IInv /\ Decide => IInv'
<1> SUFFICES ASSUME IInv, Decide PROVE IInv'
  OBVIOUS
<1>1. frames # <<>> /\ Top.phase = "decide" /\ UNCHANGED fetches
  BY DEF Decide
<1>2. Top \in Frame /\ Top.at = 0 /\ Turns(Top) /\ Outcome(Top) /\ Top.inner # Running
  BY <1>1, TopIs DEF FrameOK, AtHook, HookNames
<1>3. CASE End(Exception("FetchError"))
  BY <1>1, <1>3, EndKeeps DEF Ends, Exceptions
<1>4. CASE Top.response # None /\ Replace(Loop(Top, "post")) /\ UNCHANGED outcome
  <2>1. Top.failed
    BY <1>1, <1>2 DEF Outcome
  <2>2. \A i \in DOMAIN Hooks :
          /\ <<"pre", i>> \in Top.ran <=> i \in Having("pre")
          /\ <<"onError", i>> \in Top.ran <=> i \in Having("onError")
          /\ <<"post", i>> \notin Top.ran
    BY <1>1, <1>2, <2>1 DEF Turns
  <2>3. Top.failed /\ Top.response # None =>
          \E i \in DOMAIN Hooks : <<"onError", i>> \in Top.ran
    BY <1>2 DEF Outcome
  <2>4. FrameOK(Loop(Top, "post")) /\ Loop(Top, "post").inner = Top.inner
    BY <1>2, <1>4, <2>1, <2>2, <2>3, LoopKeeps DEF HookNames
  <2> QED BY <1>1, <1>2, <1>4, <2>4, ReplaceKeeps
<1> QED BY <1>3, <1>4 DEF Decide

\* And so does the response that is handed to the call's maker.
LEMMA ReturnKeeps == IInv /\ Return => IInv'
<1> SUFFICES ASSUME IInv, Return PROVE IInv'
  OBVIOUS
<1>1. frames # <<>> /\ Top.phase = "done" /\ End(Answer(Top.response)) /\ UNCHANGED fetches
  BY DEF Return
<1>2. Top.response \in Response
  BY <1>1, TopIs DEF FrameOK, Frame, Outcome
<1>3. Answer(Top.response) \in Ends
  BY <1>2 DEF Ends
<1> QED BY <1>1, <1>3, EndKeeps

--------------------------------------------------------------------------------
(* The invariant is inductive, and what follows. *)

\* The invariant holds of every state of every behaviour.
LEMMA Inductive == Spec => []IInv
<1>1. IInv /\ UNCHANGED vars => IInv'
  BY DEF IInv, Bounds, Nested, FrameOK, AtHook, Turns, Outcome, vars
<1>2. IInv /\ Next => IInv'
  BY FetchAgainKeeps, PreKeeps, TransportKeeps, OnErrorOrPostKeeps, DecideKeeps, ReturnKeeps
     DEF Next
<1>3. IInv /\ [Next]_vars => IInv'
  BY <1>1, <1>2
<1> QED BY <1>3, InitKeeps, PTL DEF Spec

\* Frames and ends are what they should be, as many calls are under way as have been
\* made at most, and the program has its answer exactly when none is: only the
\* innermost call is not waiting, and only one that has failed has run onError hooks.
THEOREM TypeCorrect == Spec => []TypeOK
<1>1. IInv => TypeOK
  <2> SUFFICES ASSUME IInv PROVE TypeOK
    OBVIOUS
  <2>1. /\ frames \in Seq(Frame) /\ Len(frames) <= fetches
        /\ fetches \in 1..MaxFetches
        /\ outcome \in {"pending", "value", "ResponseError"} \cup Exceptions
        /\ (outcome = "pending") = (frames # <<>>)
    BY DEF IInv, Bounds
  <2>2. \A d \in DOMAIN frames : (frames[d].inner = Running) = (d < Len(frames))
    BY DEF IInv, Nested
  <2>3. ASSUME NEW d \in DOMAIN frames, NEW i \in DOMAIN Hooks,
               <<"onError", i>> \in frames[d].ran
        PROVE  frames[d].failed
    BY <2>3 DEF IInv, FrameOK, Turns
  <2> QED BY <2>1, <2>2, <2>3 DEF TypeOK
<1> QED BY <1>1, Inductive, PTL

\* Every hook has its turn, whatever the hooks before it do: when fetchApi returns a
\* response, exactly the pre and post hooks have run, and after a failure all onError
\* hooks too.
THEOREM EveryHookRunsAlways == Spec => []EveryHookRuns
<1>1. IInv => EveryHookRuns
  <2> SUFFICES ASSUME IInv, NEW d \in DOMAIN frames, frames[d].phase = "done"
               PROVE  AllHaveRun(frames[d])
    BY DEF EveryHookRuns
  <2> DEFINE f == frames[d]
  <2>1. Turns(f) /\ f.phase = "done" /\ f.ran \subseteq HookNames \X DOMAIN Hooks
    BY HooksType DEF IInv, FrameOK, Frame
  <2> HIDE DEF f
  <2>2. ASSUME NEW hook \in HookNames, NEW i \in DOMAIN Hooks
        PROVE  <<hook, i>> \in f.ran <=> i \in Having(hook) /\ (hook = "onError" => f.failed)
    BY <2>1 DEF Turns, HookNames
  <2>3. AllHaveRun(f)
    BY <2>1, <2>2 DEF AllHaveRun
  <2> QED BY <2>3 DEF f
<1> QED BY <1>1, Inductive, PTL

\* A failure of the transport reaches the program as a response only after an onError
\* hook has run and a response is in place.
THEOREM NoHiddenFailureAlways == Spec => []NoHiddenFailure
<1>1. IInv => NoHiddenFailure
  BY DEF IInv, FrameOK, Outcome, NoHiddenFailure
<1> QED BY <1>1, Inductive, PTL

=============================================================================
