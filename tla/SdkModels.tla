------------------------------- MODULE SdkModels -------------------------------
(***************************************************************************)
(* The models of the TypeScript client ts-fetch: how a JSON document       *)
(* becomes a value of the program and a JSON document again.               *)
(*                                                                         *)
(* Every model file has an interface, instanceOfX, XFromJSON and XToJSON,  *)
(* generated from the list of its fields.  The list is the definition      *)
(* here, FromJSON, ToJSON and InstanceOf are what the generated functions  *)
(* do with it.                                                             *)
(***************************************************************************)
EXTENDS Sequences, SequencesExt

(***************************************************************************)
(* Values.  A value of JSON or of the program carries the name of its kind *)
(* as the only field of a record, or two for a date's text, which is an    *)
(* instant, written with or without milliseconds.  Text and numbers, and   *)
(* lists and maps of them, are leaves: the models copy them.  A key whose  *)
(* value is undefined and a missing key are the same: neither instanceOf   *)
(* nor JSON.stringify tells them apart.                                    *)
(***************************************************************************)
Null == [null |-> TRUE]
Undefined == [undefined |-> TRUE]
Leaf(x) == [leaf |-> x]
DateText(instant, millis) == [time |-> instant, millis |-> millis]
Obj(f) == [obj |-> f]
Arr(s) == [arr |-> s]
Date(instant) == [date |-> instant]

\* An exception: TypeError of a method that is not there, or RangeError of an
\* invalid date.
Thrown == [thrown |-> TRUE]

\* The instants that JavaScript has for null and for what is no date.
Epoch == "1970-01-01"
InvalidDate == "Invalid Date"

Is(v, kind) == kind \in DOMAIN v
\* Variant: only undefined is missing.
MissingUndefined(v) == v = Undefined
Missing(v) == v \in {Null, Undefined}

\* v.k: undefined for a value that has no such field.
At(v, k) == IF Is(v, "obj") /\ k \in DOMAIN v.obj THEN v.obj[k] ELSE Undefined

\* Variant: a text with milliseconds is taken for local time.
NewDateLocal(v) ==
    CASE Is(v, "time") /\ v.millis -> Date(IF v.time = "then" THEN "an hour off" ELSE "two hours off")
      [] Is(v, "time") /\ ~v.millis -> Date(v.time)
      [] v = Null -> Date(Epoch)
      [] OTHER -> Date(InvalidDate)
NewDate(v) ==
    CASE Is(v, "time") -> Date(v.time)
      [] v = Null -> Date(Epoch)
      [] OTHER -> Date(InvalidDate)

\* Variant: the day alone is written.
ToISOStringDay(v) ==
    IF Is(v, "date") /\ v.date # InvalidDate THEN DateText("midnight", TRUE) ELSE Thrown
ToISOString(v) ==
    IF Is(v, "date") /\ v.date # InvalidDate THEN DateText(v.date, TRUE) ELSE Thrown

(***************************************************************************)
(* A model: its fields by what is done with them, the required ones, and   *)
(* the fields whose name in JSON is another.                               *)
(***************************************************************************)
Bare == [plain |-> {}, dates |-> {}, one |-> <<>>, many |-> <<>>,
         required |-> {}, rename |-> <<>>]

Fields(M) == M.plain \cup M.dates \cup DOMAIN M.one \cup DOMAIN M.many

JsonName(M, f) == IF f \in DOMAIN M.rename THEN M.rename[f] ELSE f

\* The object with the given values: undefined ones are left out, and an
\* exception in one is an exception of the whole.
Object(values) ==
    IF \E k \in DOMAIN values : values[k] = Thrown THEN Thrown
    ELSE Obj([k \in {j \in DOMAIN values : values[j] # Undefined} |-> values[k]])

\* array.map of a function whose values on the elements are given.
Mapped(values) == IF \E i \in DOMAIN values : values[i] = Thrown THEN Thrown ELSE Arr(values)

(***************************************************************************)
(* The models of Kubernetes, by the names of the source without            *)
(* IoK8sApimachineryPkgApisMetaV1, then those of the operator's own API,   *)
(* without IoGithub1eedaegonPipelineV1.                                    *)
(***************************************************************************)
GroupVersionForDiscovery ==
    [Bare EXCEPT !.plain = {"groupVersion", "version"},
                 !.required = {"groupVersion", "version"}]
ServerAddressByClientCIDR ==
    [Bare EXCEPT !.plain = {"clientCIDR", "serverAddress"},
                 !.required = {"clientCIDR", "serverAddress"}]
APIGroup ==
    [Bare EXCEPT !.plain = {"apiVersion", "kind", "name"},
                 !.required = {"name", "versions"},
                 !.one = [preferredVersion |-> GroupVersionForDiscovery],
                 !.many = [serverAddressByClientCIDRs |-> ServerAddressByClientCIDR,
                          versions |-> GroupVersionForDiscovery]]
APIGroupList ==
    [Bare EXCEPT !.plain = {"apiVersion", "kind"},
                 !.required = {"groups"},
                 !.many = [groups |-> APIGroup]]
APIResource ==
    [Bare EXCEPT !.plain = {"categories", "group", "kind", "name", "namespaced",
                          "shortNames", "singularName", "storageVersionHash", "verbs",
                          "version"},
                 !.required = {"kind", "name", "namespaced", "singularName", "verbs"}]
APIResourceList ==
    [Bare EXCEPT !.plain = {"apiVersion", "groupVersion", "kind"},
                 !.required = {"groupVersion", "resources"},
                 !.many = [resources |-> APIResource]]
APIVersions ==
    [Bare EXCEPT !.plain = {"apiVersion", "kind", "versions"},
                 !.required = {"serverAddressByClientCIDRs", "versions"},
                 !.many = [serverAddressByClientCIDRs |-> ServerAddressByClientCIDR]]
Condition ==
    [Bare EXCEPT !.plain = {"message", "observedGeneration", "reason", "status", "type"},
                 !.required = {"lastTransitionTime", "message", "reason", "status",
                          "type"},
                 !.dates = {"lastTransitionTime"}]
Preconditions == [Bare EXCEPT !.plain = {"resourceVersion", "uid"}]
DeleteOptions ==
    [Bare EXCEPT !.plain = {"apiVersion", "dryRun", "gracePeriodSeconds", "kind",
                          "orphanDependents", "propagationPolicy"},
                 !.one = [preconditions |-> Preconditions]]
FieldSelectorRequirement ==
    [Bare EXCEPT !.plain = {"key", "operator", "values"},
                 !.required = {"key", "operator"}]
LabelSelectorRequirement ==
    [Bare EXCEPT !.plain = {"key", "operator", "values"},
                 !.required = {"key", "operator"}]
LabelSelector ==
    [Bare EXCEPT !.plain = {"matchLabels"},
                 !.many = [matchExpressions |-> LabelSelectorRequirement]]
ListMeta ==
    [Bare EXCEPT !.plain = {"_continue", "remainingItemCount", "resourceVersion",
                          "selfLink"},
                 !.rename = [_continue |-> "continue"]]
ManagedFieldsEntry ==
    [Bare EXCEPT !.plain = {"apiVersion", "fieldsType", "fieldsV1", "manager",
                          "operation", "subresource"},
                 !.dates = {"time"}]
OwnerReference ==
    [Bare EXCEPT !.plain = {"apiVersion", "blockOwnerDeletion", "controller", "kind",
                          "name", "uid"},
                 !.required = {"apiVersion", "kind", "name", "uid"}]
ObjectMeta ==
    [Bare EXCEPT !.plain = {"annotations", "deletionGracePeriodSeconds", "finalizers",
                          "generateName", "generation", "labels", "name", "namespace",
                          "resourceVersion", "selfLink", "uid"},
                 !.dates = {"creationTimestamp", "deletionTimestamp"},
                 !.many = [managedFields |-> ManagedFieldsEntry,
                          ownerReferences |-> OwnerReference]]
StatusCause == [Bare EXCEPT !.plain = {"field", "message", "reason"}]
StatusDetails ==
    [Bare EXCEPT !.plain = {"group", "kind", "name", "retryAfterSeconds", "uid"},
                 !.many = [causes |-> StatusCause]]
Status ==
    [Bare EXCEPT !.plain = {"apiVersion", "code", "kind", "message", "reason", "status"},
                 !.one = [details |-> StatusDetails, metadata |-> ListMeta]]
WatchEvent ==
    [Bare EXCEPT !.plain = {"object", "type"},
                 !.required = {"object", "type"}]
VersionInfo ==
    [Bare EXCEPT !.plain = {"buildDate", "compiler", "gitCommit", "gitTreeState",
                          "gitVersion", "goVersion", "major", "minor", "platform"},
                 !.required = {"buildDate", "compiler", "gitCommit", "gitTreeState",
                          "gitVersion", "goVersion", "major", "minor", "platform"}]

PipelineSpecHistoryLimit == [Bare EXCEPT !.plain = {"amount", "date"}]
PipelineSpecResourceGpu == [Bare EXCEPT !.plain = {"amount", "type"}]
PipelineSpecResource ==
    [Bare EXCEPT !.plain = {"cpu", "memory"},
                 !.one = [gpu |-> PipelineSpecResourceGpu]]
PipelineSpecSchedule == [Bare EXCEPT !.plain = {"endDate", "scheduleDate"}]
PipelineSpecTasksInner ==
    [Bare EXCEPT !.plain = {"args", "command", "env", "image", "inputs", "name",
                          "outputs", "runBefore", "trigger"},
                 !.one = [resource |-> PipelineSpecResource,
                          schedule |-> PipelineSpecSchedule]]
PipelineSpecVolumesInner == [Bare EXCEPT !.plain = {"capacity", "name", "storage"}]
PipelineSpec ==
    [Bare EXCEPT !.plain = {"env", "inputs", "outputs", "runBefore", "trigger"},
                 !.one = [historyLimit |-> PipelineSpecHistoryLimit,
                          resource |-> PipelineSpecResource,
                          schedule |-> PipelineSpecSchedule],
                 !.many = [tasks |-> PipelineSpecTasksInner,
                          volumes |-> PipelineSpecVolumesInner]]
PipelineStatus ==
    [Bare EXCEPT !.plain = {"runs"},
                 !.dates = {"createdDate", "lastUpdatedDate"}]
Pipeline ==
    [Bare EXCEPT !.plain = {"apiVersion", "kind"},
                 !.one = [metadata |-> ObjectMeta, spec |-> PipelineSpec,
                          status |-> PipelineStatus]]
PipelineList ==
    [Bare EXCEPT !.plain = {"apiVersion", "kind"},
                 !.required = {"items"},
                 !.one = [metadata |-> ListMeta],
                 !.many = [items |-> Pipeline]]
RunSpecJobsInner ==
    [Bare EXCEPT !.plain = {"args", "command", "env", "image", "inputs", "name",
                          "namespace", "outputs", "runBefore", "trigger"},
                 !.one = [resource |-> PipelineSpecResource,
                          schedule |-> PipelineSpecSchedule]]
RunSpec ==
    [Bare EXCEPT !.plain = {"env", "inputs", "outputs", "runBefore", "trigger"},
                 !.one = [historyLimit |-> PipelineSpecHistoryLimit,
                          resource |-> PipelineSpecResource,
                          schedule |-> PipelineSpecSchedule],
                 !.many = [jobs |-> RunSpecJobsInner,
                          volumes |-> PipelineSpecVolumesInner]]
RunStatusJobStatesInner == [Bare EXCEPT !.plain = {"jobState", "name", "reason"}]
RunStatus ==
    [Bare EXCEPT !.plain = {"completed", "deleted", "deleting", "failed", "initializing",
                          "runState", "running", "stopping", "waiting"},
                 !.dates = {"createdDate", "lastUpdateDate"},
                 !.many = [jobStates |-> RunStatusJobStatesInner],
                 !.rename = [jobStates |-> "JobStates"]]
Run ==
    [Bare EXCEPT !.plain = {"apiVersion", "kind"},
                 !.one = [metadata |-> ObjectMeta, spec |-> RunSpec, status |-> RunStatus]]
RunList ==
    [Bare EXCEPT !.plain = {"apiVersion", "kind"},
                 !.required = {"items"},
                 !.one = [metadata |-> ListMeta],
                 !.many = [items |-> Run]]
TaskSpec == [Bare EXCEPT !.plain = {"args", "command", "image", "name"}]
TaskStatus ==
    [Bare EXCEPT !.plain = {"jobs"},
                 !.dates = {"createdDate", "lastUpdatedDate"}]
Task ==
    [Bare EXCEPT !.plain = {"apiVersion", "kind"},
                 !.one = [metadata |-> ObjectMeta, spec |-> TaskSpec,
                          status |-> TaskStatus]]
TaskList ==
    [Bare EXCEPT !.plain = {"apiVersion", "kind"},
                 !.required = {"items"},
                 !.one = [metadata |-> ListMeta],
                 !.many = [items |-> Task]]
(***************************************************************************)
(* XFromJSONTyped: a new object with the fields of the model and no other. *)
(* A missing field is undefined, unless it is required: those are          *)
(* converted whatever they are.                                            *)
(***************************************************************************)
RECURSIVE FromJSON(_, _)
FromJSON(M, json) ==
    IF Missing(json) THEN json
    ELSE Object([f \in Fields(M) |->
            LET v == At(json, JsonName(M, f)) IN
            IF Missing(v) /\ f \notin M.required THEN Undefined
            ELSE CASE f \in M.plain -> v
                   [] f \in M.dates -> NewDate(v)
                   [] f \in DOMAIN M.one -> FromJSON(M.one[f], v)
                   [] f \in DOMAIN M.many /\ ~Is(v, "arr") -> Thrown
                   [] OTHER -> Mapped([i \in DOMAIN v.arr |-> FromJSON(M.many[f], v.arr[i])])])

(***************************************************************************)
(* XToJSON, followed by JSON.stringify: the same fields back under their   *)
(* names in JSON.  A null stays in a plain field or in place of an object  *)
(* and goes elsewhere.                                                     *)
(***************************************************************************)
RECURSIVE ToJSON(_, _)
ToJSON(M, value) ==
    IF Missing(value) THEN value
    ELSE LET FieldOf(k) == CHOOSE f \in Fields(M) : JsonName(M, f) = k
             Written(f) ==
                LET v == At(value, f) IN
                CASE f \in M.plain -> v
                  [] f \in DOMAIN M.one -> ToJSON(M.one[f], v)
                  [] f \in M.dates \cup DOMAIN M.many ->
                     IF Missing(v) /\ f \notin M.required THEN Undefined
                     ELSE IF f \in M.dates THEN ToISOString(v)
                     ELSE IF ~Is(v, "arr") THEN Thrown
                     ELSE Mapped([i \in DOMAIN v.arr |-> ToJSON(M.many[f], v.arr[i])])
         IN Object([k \in {JsonName(M, f) : f \in Fields(M)} |-> Written(FieldOf(k))])

\* Variant: lists and dates are not looked at.
InstanceOfPlain(M, value) == \A f \in M.required \cap M.plain : At(value, f) # Undefined
\* instanceOfX: the required fields are there.  Null is a value.
InstanceOf(M, value) == \A f \in M.required : At(value, f) # Undefined

AllModels ==
    {GroupVersionForDiscovery, ServerAddressByClientCIDR, APIGroup, APIGroupList,
     APIResource, APIResourceList, APIVersions, Condition, Preconditions,
     DeleteOptions, FieldSelectorRequirement, LabelSelectorRequirement, LabelSelector,
     ListMeta, ManagedFieldsEntry, OwnerReference, ObjectMeta, StatusCause,
     StatusDetails, Status, WatchEvent, VersionInfo, PipelineSpecHistoryLimit,
     PipelineSpecResourceGpu, PipelineSpecResource, PipelineSpecSchedule,
     PipelineSpecTasksInner, PipelineSpecVolumesInner, PipelineSpec, PipelineStatus,
     Pipeline, PipelineList, RunSpecJobsInner, RunSpec, RunStatusJobStatesInner,
     RunStatus, Run, RunList, TaskSpec, TaskStatus, Task, TaskList}
================================================================================
