------------------------------ MODULE KubeServer ------------------------------
(***************************************************************************)
(* The Kubernetes API server, as far as the clients in generated/sdk use   *)
(* it for the custom resources of the operator: objects with a spec and a  *)
(* status that has a subresource of its own, versions, dry runs and label  *)
(* selectors.  External: modelled from how the clients use it.             *)
(***************************************************************************)
EXTENDS Naturals

CONSTANTS
    Kinds,       \* the plural names in the paths: pipelines, runs, tasks
    Namespaces,
    Names,
    Labelled,    \* names of the objects that carry a label
    Specs,
    Statuses

ASSUME ServerAssumption == Labelled \subseteq Names

Absent == [absent |-> TRUE]
NoBody == [noBody |-> TRUE]
NoStatus == "none"
Object == [name : Names, spec : Specs, status : Statuses \cup {NoStatus}, version : Nat]
Keys == Kinds \X Namespaces \X Names

\* What a call asks for.  `namespace` is "all" for the whole cluster, `name` and
\* `selector` are "none" where there is none, `body` is an object, a patch
\* [spec, status] or NoBody.
Verbs == {"create", "get", "list", "update", "patch", "delete", "deletecollection"}

\* A server: its objects and the version of its last write.
NoObjects == [objects |-> [k \in Keys |-> Absent], version |-> 0]

KeyOf(intent) ==
    <<intent.kind, intent.namespace,
      IF intent.verb = "create" THEN intent.body.name ELSE intent.name>>

Selected(intent) ==
    {k \in Keys : /\ k[1] = intent.kind
                  /\ intent.namespace \in {"all", k[2]}
                  /\ intent.selector # "none" => k[3] \in Labelled}

\* The object that create, update or patch would store.  The main resource keeps
\* the status, the subresource keeps all but the status.
Written(intent, old) ==
    CASE intent.verb = "create" -> [intent.body EXCEPT !.status = NoStatus]
      [] intent.verb # "create" /\ intent.status -> [old EXCEPT !.status = intent.body.status]
      [] OTHER -> [old EXCEPT !.spec = intent.body.spec]

\* Why the server refuses, or "ok".
Verdict(server, intent) ==
    LET key == KeyOf(intent)
        old == server.objects[key] IN
    IF intent.verb \in {"create", "update", "patch"} /\ intent.body = NoBody THEN "BadRequest"
    ELSE IF intent.verb \in {"list", "deletecollection"} THEN "ok"
    ELSE IF key \notin Keys THEN "NotFound"
    ELSE IF intent.verb = "create" THEN IF old = Absent THEN "ok" ELSE "AlreadyExists"
    ELSE IF old = Absent THEN "NotFound"
    ELSE IF intent.verb = "update" /\ intent.body.version # old.version THEN "Conflict"
    ELSE "ok"

Stored(server, key, object) ==
    LET old == server.objects[key] IN
    IF old # Absent /\ [object EXCEPT !.version = old.version] = old THEN server
    ELSE [objects |-> [server.objects EXCEPT
                            ![key] = [object EXCEPT !.version = server.version + 1]],
          version |-> server.version + 1]

Removed(server, keys) ==
    IF \A k \in keys : server.objects[k] = Absent THEN server ELSE
    [objects |-> [k \in Keys |-> IF k \in keys THEN Absent ELSE server.objects[k]],
     version |-> server.version + 1]

\* The server after an accepted request.
Changed(server, intent) ==
    CASE intent.verb \in {"get", "list"} -> server
      [] intent.verb \in {"create", "update", "patch"} ->
            Stored(server, KeyOf(intent), Written(intent, server.objects[KeyOf(intent)]))
      [] intent.verb = "delete" -> Removed(server, {KeyOf(intent)})
      [] intent.verb = "deletecollection" -> Removed(server, Selected(intent))

\* What the answer says: the object, the objects of a list, or the error.
Found(server, intent) ==
    IF intent.verb \in {"list", "deletecollection"}
    THEN {server.objects[k] : k \in {j \in Selected(intent) : server.objects[j] # Absent}}
    ELSE {server.objects[KeyOf(intent)]} \ {Absent}

Effect(server, intent) ==
    LET verdict == Verdict(server, intent)
        after == Changed(server, intent)
        shown == IF intent.verb \in {"create", "update", "patch"} THEN after ELSE server
    IN IF verdict # "ok" THEN [server |-> server, answer |-> [code |-> verdict, found |-> {}]]
       ELSE [server |-> IF intent.dry THEN server ELSE after,
             answer |-> [code |-> "ok", found |-> Found(shown, intent)]]
=============================================================================
