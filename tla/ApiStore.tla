-------------------------------- MODULE ApiStore --------------------------------
(***************************************************************************)
(* What a client of the API promises its programs.  A call that has been   *)
(* sent takes effect at one moment, as asked, or never; then it is         *)
(* answered with what the server found at that moment, or fails.  A call   *)
(* that failed on the way may still take effect later, once.               *)
(***************************************************************************)
EXTENDS KubeServer

CONSTANT Programs

Intents ==
    [verb : Verbs, kind : Kinds, namespace : Namespaces \cup {"all", "{namespace}"},
     name : Names \cup {"none"}, status : BOOLEAN, dry : BOOLEAN,
     selector : {"none", "labelled"},
     body : {NoBody} \cup Object \cup [spec : Specs, status : Statuses]]

VARIABLES
    server,
    asked,   \* of each program, the call under way
    adrift   \* calls that failed for their program and are not lost

storeVars == <<server, asked, adrift>>

Idle == [phase |-> "idle"]

StoreInit ==
    /\ server.objects \in [Keys -> Object \cup {Absent}]
    /\ asked = [p \in Programs |-> Idle]
    /\ adrift = {}

Ask(p) ==
    /\ asked[p] = Idle
    /\ asked'[p].phase = "sent" /\ asked'[p].intent \in Intents
    /\ asked' = [asked EXCEPT ![p] = [phase |-> "sent", intent |-> asked'[p].intent]]
    /\ UNCHANGED <<server, adrift>>

TakeEffect(p) ==
    /\ asked[p].phase = "sent"
    /\ LET effect == Effect(server, asked[p].intent) IN
        /\ server' = effect.server
        /\ asked' = [asked EXCEPT ![p] = [phase |-> "served", intent |-> asked[p].intent,
                                          answer |-> effect.answer]]
    /\ UNCHANGED adrift

TakeEffectLate ==
    \E call \in adrift :
        /\ server' = Effect(server, call.intent).server
        /\ adrift' = adrift \ {call}
        /\ UNCHANGED asked

Answered(p) ==
    /\ asked[p].phase = "served"
    /\ asked' = [asked EXCEPT ![p] = Idle]
    /\ UNCHANGED <<server, adrift>>

Failed(p) ==
    /\ asked[p].phase = "sent"
    /\ asked' = [asked EXCEPT ![p] = Idle]
    /\ \/ adrift' = adrift
       \/ \E call \in adrift' \ adrift :
            /\ call.by = p /\ call.intent = asked[p].intent
            /\ adrift' = adrift \cup {call}
    /\ UNCHANGED server

Sunk == \E call \in adrift : adrift' = adrift \ {call} /\ UNCHANGED <<server, asked>>

\* Everyone else who writes to the server.
ElseWritten ==
    /\ \E key \in Keys : \E o \in {server.objects[key]} \ {Absent} :
        \E s \in Statuses : server' = Stored(server, key, [o EXCEPT !.status = s])
    /\ UNCHANGED <<asked, adrift>>

StoreNext ==
    \/ \E p \in Programs : Ask(p) \/ TakeEffect(p) \/ Answered(p) \/ Failed(p)
    \/ TakeEffectLate \/ Sunk \/ ElseWritten

StoreSpec == StoreInit /\ [][StoreNext]_storeVars
=============================================================================
