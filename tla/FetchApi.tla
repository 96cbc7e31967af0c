------------------------------- MODULE FetchApi -------------------------------
(***************************************************************************)
(* The operations of the TypeScript client ts-fetch                        *)
(* (apis/Pipeline1eedaegonGithubIoV1Api.ts): which request each of them    *)
(* makes of its requestParameters.  As generated, it differs from ts-axios *)
(* in more than the transport: the namespace is no parameter and stays in  *)
(* the path as it is written there, a patch has no body, and lists and     *)
(* deletions of a collection have no query.                                *)
(***************************************************************************)
EXTENDS Sequences

collection(kind) == <<"namespaces", "{namespace}", kind>>
object(kind) == <<"namespaces", "{namespace}", kind, "{name}">>

create(kind) ==
    [required |-> {"body"}, method |-> "POST", path |-> collection(kind),
     query |-> {"dryRun", "fieldValidation"}, type |-> "application/json"]

deleteCollection(kind) ==
    [required |-> {}, method |-> "DELETE", path |-> collection(kind), query |-> {}, type |-> "none"]

delete(kind) ==
    [required |-> {"name"}, method |-> "DELETE", path |-> object(kind),
     query |-> {"dryRun"}, type |-> "none"]

list(kind) ==
    [required |-> {}, method |-> "GET", path |-> collection(kind), query |-> {}, type |-> "none"]

listForAllNamespaces(kind) ==
    [required |-> {}, method |-> "GET", path |-> <<kind>>, query |-> {}, type |-> "none"]

patch(kind) ==
    [required |-> {"name"}, method |-> "PATCH", path |-> object(kind),
     query |-> {"dryRun", "fieldValidation"}, type |-> "none"]

patchStatus(kind) == [patch(kind) EXCEPT !.path = Append(@, "status")]

read(kind) ==
    [required |-> {"name"}, method |-> "GET", path |-> object(kind), query |-> {}, type |-> "none"]

readStatus(kind) == [read(kind) EXCEPT !.path = Append(@, "status")]

replace(kind) ==
    [required |-> {"name", "body"}, method |-> "PUT", path |-> object(kind),
     query |-> {"dryRun", "fieldValidation"}, type |-> "application/json"]

replaceStatus(kind) == [replace(kind) EXCEPT !.path = Append(@, "status")]

\* The RequiredErrors at the head of every operation.  Arguments have no entry for a
\* parameter that is undefined or null.
paramsExist(operation, args) == operation.required \subseteq DOMAIN args

\* The only replacement in a path is that of the name.
pathOf(operation, args) ==
    [i \in DOMAIN operation.path |->
        IF operation.path[i] = "{name}" THEN args["name"] ELSE operation.path[i]]

\* The context of BaseAPI.request, made after the await of the api key: the body is
\* converted and serialised as it is then.
requestOf(operation, args) ==
    [method |-> operation.method, path |-> pathOf(operation, args),
     query |-> [q \in operation.query \cap DOMAIN args |-> args[q]],
     type |-> operation.type,
     body |-> IF operation.type = "none" THEN [noBody |-> TRUE] ELSE args["body"]]
=============================================================================
