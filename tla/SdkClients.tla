------------------------------- MODULE SdkClients -------------------------------
(***************************************************************************)
(* Programs that use the generated TypeScript clients against one API      *)
(* server, while the operator writes there too.  A call is not one step:   *)
(* the program makes it, the client awaits the api key and makes the       *)
(* request, the network carries it, or loses it or delays it, the server   *)
(* serves it, and the response travels back, or does not.                  *)
(***************************************************************************)
EXTENDS KubeServer, Sequences

CONSTANTS
    Programs,
    Clients,    \* which clients are used: axios, fetch
    Operations, \* which operations are called
    Initially,  \* the sets of objects that may be there at the start
    MaxCalls,   \* bound: calls made
    MaxLosses,  \* bound: requests and responses that are lost or delayed
    MaxWrites   \* bound: writes by the operator

EveryOperation ==
    {"create", "deleteCollection", "delete", "list", "listForAllNamespaces", "patch",
     "patchStatus", "read", "readStatus", "replace", "replaceStatus"}

ASSUME ClientsAssumption ==
    /\ Clients \subseteq {"axios", "fetch"} /\ Operations \subseteq EveryOperation
    /\ MaxCalls \in Nat /\ MaxLosses \in Nat /\ MaxWrites \in Nat

\* An object has a spec.
ASSUME SpecsAssumption == Specs # {}

\* Kinds and namespaces are names, and not the words that paths and intents use.
ASSUME WordsAssumption ==
    /\ Kinds \cap {"namespaces", "{namespace}", "{name}"} = {}
    /\ Namespaces \cap {"all", "{namespace}"} = {}

VARIABLES
    server,
    calls,   \* of each program, the call under way
    adrift,  \* delayed requests, with the calls that have failed by then, numbered
    memory,  \* of each program, the object it has read last, with its key
    made, losses, writes

vars == <<server, calls, adrift, memory, made, losses, writes>>
counters == <<made, losses, writes>>

A == INSTANCE AxiosApi
F == INSTANCE FetchApi

Idle == [phase |-> "idle"]
Nothing == [nothing |-> TRUE]
NotYet == <<>>

operationOf(client, op, kind) ==
    IF client = "axios"
    THEN CASE op = "create" -> A!create(kind)
           [] op = "deleteCollection" -> A!deleteCollection(kind)
           [] op = "delete" -> A!delete(kind)
           [] op = "list" -> A!list(kind)
           [] op = "listForAllNamespaces" -> A!listForAllNamespaces(kind)
           [] op = "patch" -> A!patch(kind)
           [] op = "patchStatus" -> A!patchStatus(kind)
           [] op = "read" -> A!read(kind)
           [] op = "readStatus" -> A!readStatus(kind)
           [] op = "replace" -> A!replace(kind)
           [] op = "replaceStatus" -> A!replaceStatus(kind)
    ELSE CASE op = "create" -> F!create(kind)
           [] op = "deleteCollection" -> F!deleteCollection(kind)
           [] op = "delete" -> F!delete(kind)
           [] op = "list" -> F!list(kind)
           [] op = "listForAllNamespaces" -> F!listForAllNamespaces(kind)
           [] op = "patch" -> F!patch(kind)
           [] op = "patchStatus" -> F!patchStatus(kind)
           [] op = "read" -> F!read(kind)
           [] op = "readStatus" -> F!readStatus(kind)
           [] op = "replace" -> F!replace(kind)
           [] op = "replaceStatus" -> F!replaceStatus(kind)

\* A program creates, patches or removes what it likes, and replaces what it has
\* read, with one part changed.  It may forget the body.
Bodies(p, op, key) ==
    CASE op = "create" ->
            {[name |-> key[3], spec |-> s, status |-> NoStatus, version |-> 0] : s \in Specs}
      [] op \in {"patch", "patchStatus"} -> [spec : Specs, status : Statuses]
      [] op = "replace" -> {[memory[p].object EXCEPT !.spec = s] : s \in Specs}
      [] op = "replaceStatus" -> {[memory[p].object EXCEPT !.status = s] : s \in Statuses}
      [] OTHER -> {NoBody}

Writes(op) == op \notin {"read", "readStatus", "list", "listForAllNamespaces"}
Named(op) == op \notin {"list", "listForAllNamespaces", "deleteCollection"}
HasBody(op) == op \in {"create", "patch", "patchStatus", "replace", "replaceStatus"}

\* The arguments by name; a parameter the program does not mention has no entry.
Where(op) ==
    IF op = "listForAllNamespaces" THEN {}
    ELSE IF Named(op) THEN {"namespace", "name"} ELSE {"namespace"}
Optional(op) ==
    (IF HasBody(op) THEN {"body"} ELSE {})
    \cup (IF ~Named(op) THEN {"labelSelector"} ELSE IF Writes(op) THEN {"dryRun"} ELSE {})
Arguments(names, key, body) ==
    [x \in names |->
        CASE x = "namespace" -> key[2]
          [] x = "name" -> key[3]
          [] x = "labelSelector" -> "labelled"
          [] x = "dryRun" -> "All"
          [] x = "body" -> body]
GivenTo(p, op, key) ==
    {Arguments(Where(op) \cup more, key, body) :
        more \in SUBSET Optional(op), body \in Bodies(p, op, key)}

-----------------------------------------------------------------------------
(***************************************************************************)
(* What the server makes of a request: the routes of a custom resource     *)
(* with a status subresource.                                              *)
(***************************************************************************)
VerbOf(method, named) ==
    CASE method = "GET" -> IF named THEN "get" ELSE "list"
      [] method = "POST" -> "create"
      [] method = "PUT" -> "update"
      [] method = "PATCH" -> "patch"
      [] method = "DELETE" -> IF named THEN "delete" ELSE "deletecollection"

Decode(r) ==
    LET path == r.path
        scoped == path[1] = "namespaces"
        named == scoped /\ Len(path) > 3
    IN [verb |-> VerbOf(r.method, named),
        kind |-> IF scoped THEN path[3] ELSE path[1],
        namespace |-> IF scoped THEN path[2] ELSE "all",
        name |-> IF named THEN path[4] ELSE "none",
        status |-> Len(path) > 4,
        dry |-> "dryRun" \in DOMAIN r.query,
        selector |-> IF "labelSelector" \in DOMAIN r.query THEN r.query["labelSelector"] ELSE "none",
        body |-> IF r.method \in {"GET", "DELETE"} THEN NoBody ELSE r.body]

(***************************************************************************)
(* What the operation's documentation says it asks for, of its arguments.  *)
(* The client ts-fetch has no parameter for the namespace, for selectors   *)
(* or for the body of a patch.                                             *)
(***************************************************************************)
Meaning(op) ==
    CASE op = "create" -> "create"
      [] op \in {"read", "readStatus"} -> "get"
      [] op \in {"list", "listForAllNamespaces"} -> "list"
      [] op \in {"replace", "replaceStatus"} -> "update"
      [] op \in {"patch", "patchStatus"} -> "patch"
      [] op = "delete" -> "delete"
      [] op = "deleteCollection" -> "deletecollection"

IntentOf(call) ==
    LET axios == call.client = "axios"
    IN [verb |-> Meaning(call.op),
        kind |-> call.kind,
        namespace |-> CASE call.op = "listForAllNamespaces" -> "all"
                        [] call.op # "listForAllNamespaces" /\ axios -> call.args["namespace"]
                        [] OTHER -> "{namespace}",
        name |-> IF Named(call.op) /\ call.op # "create" THEN call.args["name"] ELSE "none",
        status |-> call.op \in {"readStatus", "replaceStatus", "patchStatus"},
        dry |-> "dryRun" \in DOMAIN call.args,
        selector |-> IF axios /\ "labelSelector" \in DOMAIN call.args
                     THEN call.args["labelSelector"] ELSE "none",
        body |-> IF Meaning(call.op) \in {"create", "update"} \/ (axios /\ Meaning(call.op) = "patch")
                 THEN call.args["body"] ELSE NoBody]

-----------------------------------------------------------------------------
Init ==
    /\ \E present \in Initially :
        server = [objects |-> [k \in Keys |->
                    IF k \in present
                    THEN [name |-> k[3], spec |-> CHOOSE s \in Specs : TRUE, status |-> NoStatus,
                          version |-> 1]
                    ELSE Absent],
                  version |-> 1]
    /\ calls = [p \in Programs |-> Idle]
    /\ adrift = {}
    /\ memory = [p \in Programs |-> Nothing]
    /\ made = 0 /\ losses = 0 /\ writes = 0

\* What a program writes to call a function of ts-axios: the values of the parameters
\* that it mentions, at their positions.
ByPosition(operation, args) ==
    [i \in {j \in DOMAIN operation.params : operation.params[j] \in DOMAIN args} |->
        args[operation.params[i]]]

\* The synchronous part of a call.  A missing parameter ends it: an exception, and
\* nothing is sent.  ts-axios also makes the path now.
Taken(client, op, key, args) ==
    LET operation == operationOf(client, op, key[1])
        axios == client = "axios"
        passed == IF axios THEN A!Passed(operation, ByPosition(operation, args)) ELSE args
        exist == IF axios THEN A!paramsExist(operation, passed)
                 ELSE F!paramsExist(operation, passed)
    IN IF ~exist THEN Idle
       ELSE [phase |-> "called", client |-> client, op |-> op, kind |-> key[1], args |-> args,
             passed |-> passed, path |-> IF axios THEN A!pathOf(operation, passed) ELSE NotYet]

Call(p) ==
    /\ calls[p] = Idle /\ made < MaxCalls
    /\ made' = made + 1
    /\ \E client \in Clients, op \in Operations, key \in Keys :
        /\ op \in {"replace", "replaceStatus"} => memory[p] # Nothing /\ memory[p].key = key
        /\ \E args \in GivenTo(p, op, key) :
            calls' = [calls EXCEPT ![p] = Taken(client, op, key, args)]
    /\ UNCHANGED <<server, adrift, memory, losses, writes>>

\* The program goes on while the client awaits the api key, and changes the object
\* that it has passed as the body.
ChangeBody(p) ==
    /\ calls[p].phase = "called"
    /\ calls[p].op \in {"create", "replace"}
    /\ \E s \in Specs :
        calls' = [calls EXCEPT ![p].args["body"].spec = s, ![p].passed["body"].spec = s]
    /\ UNCHANGED <<server, adrift, memory, counters>>

\* The request is made and handed to axios or fetch.
Send(p) ==
    /\ calls[p].phase = "called"
    /\ LET call == calls[p]
           operation == operationOf(call.client, call.op, call.kind)
           request == IF call.client = "axios"
                      THEN A!requestOf(operation, call.path, call.passed)
                      ELSE F!requestOf(operation, call.passed)
       IN calls' = [calls EXCEPT ![p] =
                    [phase |-> "sent", client |-> call.client, op |-> call.op,
                     kind |-> call.kind, args |-> call.args, request |-> request]]
    /\ UNCHANGED <<server, adrift, memory, counters>>

Serve(p) ==
    /\ calls[p].phase = "sent"
    /\ LET call == calls[p]
           effect == Effect(server, Decode(call.request)) IN
        /\ server' = effect.server
        /\ calls' = [calls EXCEPT ![p] =
                     [phase |-> "served", client |-> call.client, op |-> call.op,
                      kind |-> call.kind, args |-> call.args, request |-> call.request,
                      answer |-> effect.answer]]
    /\ UNCHANGED <<adrift, memory, counters>>

\* The response arrives: the program keeps an object it has read.
Return(p) ==
    /\ calls[p].phase = "served"
    /\ calls' = [calls EXCEPT ![p] = Idle]
    /\ LET call == calls[p] IN
        memory' = IF call.op \in {"read", "readStatus"} /\ call.answer.code = "ok"
                  THEN [memory EXCEPT ![p] =
                            [key |-> KeyOf(Decode(call.request)),
                             object |-> CHOOSE o \in call.answer.found : TRUE]]
                  ELSE memory
    /\ UNCHANGED <<server, adrift, counters>>

\* The network fails: the request never arrives or arrives late, or the response
\* is lost.  Neither client tries again: the program has an exception.
LoseRequest(p) ==
    /\ calls[p].phase = "sent" /\ losses < MaxLosses
    /\ adrift' \in {adrift, adrift \cup {[by |-> p, no |-> losses, call |-> calls[p]]}}
    /\ calls' = [calls EXCEPT ![p] = Idle]
    /\ losses' = losses + 1
    /\ UNCHANGED <<server, memory, made, writes>>
LoseResponse(p) ==
    /\ calls[p].phase = "served" /\ losses < MaxLosses
    /\ calls' = [calls EXCEPT ![p] = Idle]
    /\ losses' = losses + 1
    /\ UNCHANGED <<server, adrift, memory, made, writes>>
ServeLate ==
    /\ \E late \in adrift :
        /\ server' = Effect(server, Decode(late.call.request)).server
        /\ adrift' = adrift \ {late}
    /\ UNCHANGED <<calls, memory, counters>>

\* The operator writes the status of an object.
OperatorWrites ==
    /\ writes < MaxWrites
    /\ \E key \in Keys : \E o \in {server.objects[key]} \ {Absent} : \E s \in Statuses :
        server' = Stored(server, key, [o EXCEPT !.status = s])
    /\ writes' = writes + 1
    /\ UNCHANGED <<calls, adrift, memory, made, losses>>

Next ==
    \/ \E p \in Programs :
        Call(p) \/ ChangeBody(p) \/ Send(p) \/ Serve(p) \/ Return(p)
            \/ LoseRequest(p) \/ LoseResponse(p)
    \/ ServeLate \/ OperatorWrites

Spec == Init /\ [][Next]_vars

-----------------------------------------------------------------------------
InFlight == {p \in Programs : calls[p].phase \in {"sent", "served"}}

\* Objects stay under their own names, and a request whose method needs a body has
\* one.
TypeOK ==
    /\ \A k \in Keys : server.objects[k] # Absent =>
        server.objects[k] \in Object /\ server.objects[k].name = k[3]
    /\ \A p \in InFlight :
        calls[p].request.method \in {"POST", "PUT"} => calls[p].request.body \in Object
    /\ \A p \in Programs : memory[p] # Nothing =>
        memory[p].key \in Keys /\ memory[p].object \in Object
    /\ made \in 0..MaxCalls /\ losses \in 0..MaxLosses /\ writes \in 0..MaxWrites

\* A dry run, and a read, change nothing at the server, whichever operation of
\* whichever client it is and however late it arrives.
Harmless(call) == "dryRun" \in DOMAIN call.args \/ ~Writes(call.op)
DryRunChangesNothing ==
    [][server' # server /\ writes' = writes =>
        \E call \in {calls[p] : p \in {q \in Programs : calls[q].phase = "sent"}}
                    \cup {late.call : late \in adrift} :
            ~Harmless(call)]_vars

\* A program that reads, changes and replaces an object never overwrites what the
\* operator or another program has written in between: when the replacement takes
\* effect, however late, the part that the program did not mean to change is what it
\* had read.
NoLostUpdate ==
    [][\A call \in {calls[p] : p \in {q \in Programs : calls[q].phase = "sent"
                                                      /\ calls'[q].phase = "served"}}
                \cup {late.call : late \in adrift \ adrift'} :
        LET key == KeyOf(IntentOf(call)) IN
        server' # server =>
            /\ call.op = "replace" => server.objects[key].status = call.args["body"].status
            /\ call.op = "replaceStatus" => server.objects[key].spec = call.args["body"].spec]_vars

\* The clients with the network and the server implement the promise of ApiStore:
\* a call takes effect as its arguments ask, once at most, and its answer is what
\* the server found then.
AskedOf(call) ==
    CASE call.phase \in {"idle", "called"} -> Idle
      [] call.phase = "sent" -> [phase |-> "sent", intent |-> IntentOf(call)]
      [] call.phase = "served" ->
            [phase |-> "served", intent |-> IntentOf(call), answer |-> call.answer]
AdriftOf(late) == [by |-> late.by, no |-> late.no, intent |-> IntentOf(late.call)]
Asked == [p \in Programs |-> AskedOf(calls[p])]
Adrift == {AdriftOf(late) : late \in adrift}
Promise == INSTANCE ApiStore WITH asked <- Asked, adrift <- Adrift
ImplementsStore == Promise!StoreSpec

\* Documented (generated/openapi.yaml:18333-18339): the namespace is a required
\* parameter of the path, so a call in a namespace is served there.
ServedInItsNamespace ==
    \A p \in InFlight :
        calls[p].op # "listForAllNamespaces" =>
            Decode(calls[p].request).namespace = calls[p].args["namespace"]
=============================================================================
