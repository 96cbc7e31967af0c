------------------------------- MODULE AxiosApi -------------------------------
(***************************************************************************)
(* The operations of the TypeScript client ts-axios (api.ts, common.ts):   *)
(* which request each of them makes of its arguments.  Every operation     *)
(* exists for pipelines, runs and tasks with the same shape; `kind` is the *)
(* word in its path.                                                       *)
(***************************************************************************)
EXTENDS Sequences

\* An operation: its parameters in order, the required ones, the parameters that
\* become query parameters, whether the body is sent and as what.
writeQuery == {"pretty", "dryRun", "fieldManager", "fieldValidation"}
listQuery ==
    {"pretty", "allowWatchBookmarks", "_continue", "fieldSelector", "labelSelector", "limit",
     "resourceVersion", "resourceVersionMatch", "sendInitialEvents", "timeoutSeconds", "watch"}
deleteQuery ==
    {"pretty", "dryRun", "gracePeriodSeconds", "ignoreStoreReadErrorWithClusterBreakingPotential",
     "orphanDependents", "propagationPolicy"}
listParams ==
    <<"namespace", "pretty", "allowWatchBookmarks", "_continue", "fieldSelector",
      "labelSelector", "limit", "resourceVersion", "resourceVersionMatch",
      "sendInitialEvents", "timeoutSeconds", "watch">>

collection(kind) == <<"namespaces", "{namespace}", kind>>
object(kind) == <<"namespaces", "{namespace}", kind, "{name}">>

\* Variant: the body is taken for granted.
createUnchecked(kind) ==
    [params |-> <<"namespace", "body", "pretty", "dryRun", "fieldManager", "fieldValidation">>,
     required |-> {"namespace"}, method |-> "POST", path |-> collection(kind),
     query |-> writeQuery, type |-> "application/json"]
create(kind) ==
    [params |-> <<"namespace", "body", "pretty", "dryRun", "fieldManager", "fieldValidation">>,
     required |-> {"namespace", "body"}, method |-> "POST", path |-> collection(kind),
     query |-> writeQuery, type |-> "application/json"]

\* Variant: the selectors stay behind, as in ts-fetch.
deleteCollectionUnselected(kind) ==
    [params |-> listParams, required |-> {"namespace"}, method |-> "DELETE",
     path |-> collection(kind), query |-> {}, type |-> "none"]
deleteCollection(kind) ==
    [params |-> listParams, required |-> {"namespace"}, method |-> "DELETE",
     path |-> collection(kind), query |-> listQuery, type |-> "none"]

\* Variant: dryRun is only known to writes that have a body.
deleteForReal(kind) ==
    [params |-> <<"name", "namespace", "pretty", "dryRun", "gracePeriodSeconds",
                  "ignoreStoreReadErrorWithClusterBreakingPotential", "orphanDependents",
                  "propagationPolicy", "body">>,
     required |-> {"name", "namespace"}, method |-> "DELETE", path |-> object(kind),
     query |-> deleteQuery \ {"dryRun"}, type |-> "application/json"]
delete(kind) ==
    [params |-> <<"name", "namespace", "pretty", "dryRun", "gracePeriodSeconds",
                  "ignoreStoreReadErrorWithClusterBreakingPotential", "orphanDependents",
                  "propagationPolicy", "body">>,
     required |-> {"name", "namespace"}, method |-> "DELETE", path |-> object(kind),
     query |-> deleteQuery, type |-> "application/json"]

list(kind) ==
    [params |-> listParams, required |-> {"namespace"}, method |-> "GET",
     path |-> collection(kind), query |-> listQuery, type |-> "none"]

listForAllNamespaces(kind) ==
    [params |-> <<"allowWatchBookmarks", "_continue", "fieldSelector", "labelSelector",
                  "limit", "pretty", "resourceVersion", "resourceVersionMatch",
                  "sendInitialEvents", "timeoutSeconds", "watch">>,
     required |-> {}, method |-> "GET", path |-> <<kind>>, query |-> listQuery, type |-> "none"]

patch(kind) ==
    [params |-> <<"name", "namespace", "body", "pretty", "dryRun", "fieldManager",
                  "fieldValidation", "force">>,
     required |-> {"name", "namespace", "body"}, method |-> "PATCH", path |-> object(kind),
     query |-> writeQuery \cup {"force"}, type |-> "application/json-patch+json"]

patchStatus(kind) == [patch(kind) EXCEPT !.path = Append(@, "status")]

read(kind) ==
    [params |-> <<"name", "namespace", "pretty", "resourceVersion">>,
     required |-> {"name", "namespace"}, method |-> "GET", path |-> object(kind),
     query |-> {"pretty", "resourceVersion"}, type |-> "none"]

readStatus(kind) == [read(kind) EXCEPT !.path = Append(@, "status")]

\* Variant: an update is a patch with the whole object, which no version protects.
replaceByPatch(kind) ==
    [params |-> <<"name", "namespace", "body", "pretty", "dryRun", "fieldManager",
                  "fieldValidation">>,
     required |-> {"name", "namespace", "body"}, method |-> "PATCH", path |-> object(kind),
     query |-> writeQuery, type |-> "application/json"]
replace(kind) ==
    [params |-> <<"name", "namespace", "body", "pretty", "dryRun", "fieldManager",
                  "fieldValidation">>,
     required |-> {"name", "namespace", "body"}, method |-> "PUT", path |-> object(kind),
     query |-> writeQuery, type |-> "application/json"]

replaceStatus(kind) == [replace(kind) EXCEPT !.path = Append(@, "status")]

(***************************************************************************)
(* A call.  The functions of the class, of the factory and of Fp take the  *)
(* parameters by position and hand them on by position; trailing ones may  *)
(* be left out.                                                            *)
(***************************************************************************)
\* The values by position, holes being undefined, as arguments by name.  Arguments
\* have no entry for a parameter that is undefined; null is treated like it, by all
\* but the body of a deletion.
Passed(operation, values) ==
    LET position(p) == CHOOSE i \in DOMAIN operation.params : operation.params[i] = p IN
    [p \in {operation.params[i] : i \in DOMAIN values} |-> values[position(p)]]

queryName(p) == IF p = "_continue" THEN "continue" ELSE p

\* assertParamExists, before the first await.
paramsExist(operation, args) == operation.required \subseteq DOMAIN args

\* The path is made before the first await too, from both parameters.
pathOf(operation, args) ==
    [i \in DOMAIN operation.path |->
        CASE operation.path[i] = "{name}" -> args["name"]
          [] operation.path[i] = "{namespace}" -> args["namespace"]
          [] OTHER -> operation.path[i]]

\* setSearchParams: undefined is not set, and null is left out.
searchParams(operation, args) ==
    LET set == operation.query \cap DOMAIN args IN
    [q \in {queryName(p) : p \in set} |->
        args[CHOOSE p \in set : queryName(p) = q]]

\* serializeDataIfNeeded: a body that is left out is sent as {}.
serialized(operation, args) ==
    CASE operation.type = "none" -> [noBody |-> TRUE]
      [] operation.type # "none" /\ "body" \in DOMAIN args -> args["body"]
      [] OTHER -> [emptyBody |-> TRUE]

\* What the parameter creators return when the body is serialised; a body that the
\* program has changed since the call is sent as it is now.
requestOf(operation, path, args) ==
    [method |-> operation.method, path |-> path, query |-> searchParams(operation, args),
     type |-> operation.type,
     body |-> serialized(operation, args)]
=============================================================================
