---------------------------- MODULE SdkClientsProofs ----------------------------
(***************************************************************************)
(* What programs get of the generated clients, for any number of programs, *)
(* calls, losses and writes, and any objects at the server.                *)
(***************************************************************************)
EXTENDS SdkClients, SequenceTheorems, TLAPS

\* A server whose objects are under their own names, none of them newer than the
\* last write.
Servers == [objects : [Keys -> Object \cup {Absent}], version : Nat]
ServerOK(s) ==
    /\ s \in Servers
    /\ \A k \in Keys : s.objects[k] # Absent =>
        s.objects[k].name = k[3] /\ s.objects[k].version <= s.version

\* An object as it has been read under a key: whatever carries its version there now
\* is that object.
AsRead(s, key, o) ==
    /\ key \in Keys /\ o \in Object /\ o.version <= s.version
    /\ s.objects[key] # Absent /\ s.objects[key].version = o.version => s.objects[key] = o

\* The arguments of a call that is under way.
Patches == [spec : Specs, status : Statuses]
ArgsOK(c) ==
    LET names == DOMAIN c.args IN
    /\ c.client \in {"axios", "fetch"} /\ c.op \in EveryOperation /\ c.kind \in Kinds
    /\ Where(c.op) \subseteq names /\ names \subseteq Where(c.op) \cup Optional(c.op)
    /\ "namespace" \in names => c.args["namespace"] \in Namespaces
    /\ "name" \in names => c.args["name"] \in Names
    /\ "labelSelector" \in names => c.args["labelSelector"] = "labelled"
    /\ c.op \in {"create", "replace", "replaceStatus"} =>
        "body" \in names /\ c.args["body"] \in Object
    /\ c.op \in {"patch", "patchStatus"} =>
        /\ c.client = "axios" => "body" \in names
        /\ "body" \in names => c.args["body"] \in Patches
    /\ c.op = "create" => c.args["body"].name = c.args["name"]

\* A replacement carries the version that its program has read, with the part of the
\* object that it leaves alone.
BodyOK(s, c) ==
    LET key == <<c.kind, c.args["namespace"], c.args["name"]>>
        body == c.args["body"]
    IN c.op \in {"replace", "replaceStatus"} =>
        /\ body.version <= s.version
        /\ s.objects[key] # Absent /\ s.objects[key].version = body.version =>
            /\ c.op = "replace" => s.objects[key].status = body.status
            /\ c.op = "replaceStatus" => s.objects[key].spec = body.spec

\* Before the request is made: what has been passed are the arguments that the
\* operation has parameters for, and ts-axios has made the path.
Path(op, kind, namespace, name) ==
    CASE op = "listForAllNamespaces" -> <<kind>>
      [] op \in {"list", "create", "deleteCollection"} -> <<"namespaces", namespace, kind>>
      [] op \in {"read", "replace", "patch", "delete"} ->
            <<"namespaces", namespace, kind, name>>
      [] OTHER -> <<"namespaces", namespace, kind, name, "status">>
CalledOK(c) ==
    /\ c = [phase |-> "called", client |-> c.client, op |-> c.op, kind |-> c.kind,
            args |-> c.args, passed |-> c.passed, path |-> c.path]
    /\ DOMAIN c.args \ {"name"} \subseteq DOMAIN c.passed /\ DOMAIN c.passed \subseteq DOMAIN c.args
    /\ c.op # "create" => DOMAIN c.passed = DOMAIN c.args
    /\ \A x \in DOMAIN c.passed : c.passed[x] = c.args[x]
    /\ c.client = "axios" =>
        c.path = Path(c.op, c.kind, c.args["namespace"], c.args["name"])

\* The request asks for what the call means.
RequestOK(c) ==
    /\ Decode(c.request) = IntentOf(c)
    /\ c.request.method \in {"POST", "PUT"} => c.request.body \in Object

\* The answer to a program that reads.
AnswerOK(s, c) ==
    c.op \in {"read", "readStatus"} /\ c.answer.code = "ok" =>
        /\ c.answer.found # {}
        /\ \A o \in c.answer.found : AsRead(s, KeyOf(IntentOf(c)), o)

CallOK(s, c) ==
    \/ c = Idle
    \/ /\ c.phase \in {"called", "sent", "served"} /\ ArgsOK(c) /\ BodyOK(s, c)
       /\ c.phase = "called" => CalledOK(c)
       /\ c.phase = "sent" => RequestOK(c)
       /\ c.phase = "served" => RequestOK(c) /\ AnswerOK(s, c)

\* A request that is late, told from the others by its number.
LateOK(late) ==
    /\ late = [by |-> late.by, no |-> late.no, call |-> late.call]
    /\ late.by \in Programs /\ late.no \in Nat /\ late.no < losses
    /\ late.call.phase = "sent" /\ ArgsOK(late.call) /\ BodyOK(server, late.call)
    /\ RequestOK(late.call)
    /\ \A other \in adrift : other.no = late.no => other = late

MemoryOK(s, m) == m = Nothing \/ AsRead(s, m.key, m.object)

Counted == made \in 0..MaxCalls /\ losses \in 0..MaxLosses /\ writes \in 0..MaxWrites

IInv ==
    /\ ServerOK(server)
    /\ DOMAIN calls = Programs /\ \A p \in Programs : CallOK(server, calls[p])
    /\ \A late \in adrift : LateOK(late)
    /\ DOMAIN memory = Programs /\ \A p \in Programs : MemoryOK(server, memory[p])
    /\ Counted

--------------------------------------------------------------------------------
(* Lemmas about the server. *)

\* An object is there or not.
LEMMA Objects ==
  /\ Absent \notin Object
  /\ \A o \in Object : o.name \in Names /\ o.spec \in Specs
                       /\ o.status \in Statuses \cup {NoStatus} /\ o.version \in Nat
BY DEF Object, Absent

\* No body is neither an object nor a patch.
LEMMA NoBodyIs ==
  /\ NoBody \notin Object /\ NoBody \notin Patches
BY DEF Object, Patches, NoBody

\* What a request makes of the server: nothing, or its next version, where every
\* object is the one that was there or is new.
Moved(s, t) ==
    \/ t = s
    \/ /\ t.version = s.version + 1
       /\ \A k \in Keys : \/ t.objects[k] \in {s.objects[k], Absent}
                          \/ t.objects[k] \in Object /\ t.objects[k].version = t.version

\* What is known of the object under a key.
LEMMA ServerAt ==
  ASSUME NEW s, ServerOK(s), NEW k \in Keys
  PROVE  /\ s.objects \in [Keys -> Object \cup {Absent}] /\ s.version \in Nat
         /\ s.objects[k] \in Object \cup {Absent}
         /\ s.objects[k] # Absent =>
              s.objects[k] \in Object /\ s.objects[k].name = k[3]
              /\ s.objects[k].version <= s.version
BY DEF ServerOK, Servers

\* A write that is stored moves the server on.
LEMMA StoredMoves ==
  ASSUME NEW s, ServerOK(s), NEW key \in Keys, NEW o \in Object, o.name = key[3]
  PROVE  ServerOK(Stored(s, key, o)) /\ Moved(s, Stored(s, key, o))
<1> DEFINE new == [o EXCEPT !.version = s.version + 1]
           objects == [s.objects EXCEPT ![key] = new]
           t == [objects |-> objects, version |-> s.version + 1]
<1>1. /\ s.objects \in [Keys -> Object \cup {Absent}] /\ s.version \in Nat
      /\ s.version + 1 \in Nat
  BY DEF ServerOK, Servers
<1>2. new \in Object /\ new.name = key[3] /\ new.version = s.version + 1
  BY <1>1 DEF Object
<1> HIDE DEF new
<1>3. /\ objects \in [Keys -> Object \cup {Absent}] /\ objects[key] = new
      /\ \A k \in Keys : k # key => objects[k] = s.objects[k]
  BY <1>1, <1>2
<1> HIDE DEF objects
<1>4. t \in Servers /\ t.objects = objects /\ t.version = s.version + 1
  BY <1>1, <1>3 DEF Servers
<1> HIDE DEF t
<1>5. ASSUME NEW k \in Keys, t.objects[k] # Absent
      PROVE  t.objects[k].name = k[3] /\ t.objects[k].version <= t.version
  <2>1. CASE k = key
    BY <1>1, <1>2, <1>3, <1>4, <2>1
  <2>2. CASE k # key
    BY <1>1, <1>3, <1>4, <1>5, <2>2, ServerAt, Objects
  <2> QED BY <2>1, <2>2
<1>6. ServerOK(t)
  BY <1>4, <1>5 DEF ServerOK
<1>7. Moved(s, t)
  BY <1>2, <1>3, <1>4 DEF Moved
<1>8. Stored(s, key, o) \in {s, t}
  BY DEF Stored, t, objects, new
<1>9. Moved(s, s)
  BY DEF Moved
<1> QED BY <1>6, <1>7, <1>8, <1>9

\* So does a removal.
LEMMA RemovedMoves ==
  ASSUME NEW s, ServerOK(s), NEW keys
  PROVE  ServerOK(Removed(s, keys)) /\ Moved(s, Removed(s, keys))
<1> DEFINE objects == [k \in Keys |-> IF k \in keys THEN Absent ELSE s.objects[k]]
           t == [objects |-> objects, version |-> s.version + 1]
<1>1. s.objects \in [Keys -> Object \cup {Absent}] /\ s.version \in Nat
      /\ s.version + 1 \in Nat
  BY DEF ServerOK, Servers
<1>2. /\ objects \in [Keys -> Object \cup {Absent}]
      /\ \A k \in Keys : objects[k] \in {s.objects[k], Absent}
  BY <1>1
<1> HIDE DEF objects
<1>3. t \in Servers /\ t.objects = objects /\ t.version = s.version + 1
  BY <1>1, <1>2 DEF Servers
<1> HIDE DEF t
<1>4. ASSUME NEW k \in Keys, t.objects[k] # Absent
      PROVE  t.objects[k].name = k[3] /\ t.objects[k].version <= t.version
  BY <1>1, <1>2, <1>3, <1>4, ServerAt, Objects
<1>5. ServerOK(t)
  BY <1>3, <1>4 DEF ServerOK
<1>6. Moved(s, t)
  BY <1>2, <1>3 DEF Moved
<1>7. Removed(s, keys) \in {s, t}
  BY DEF Removed, t, objects
<1>8. Moved(s, s)
  BY DEF Moved
<1> QED BY <1>5, <1>6, <1>7, <1>8

\* What an intent may hold: the body that its verb needs, or none for a patch.
IntentOK(i) ==
    /\ i.verb \in {"create", "update"} => i.body \in Object
    /\ i.verb = "patch" => i.body \in Patches \cup {NoBody}
    /\ i.verb \in Verbs

\* What a write stores is an object under its own name.
LEMMA WrittenFits ==
  ASSUME NEW s, ServerOK(s), NEW i, IntentOK(i), i.verb \in {"create", "update", "patch"},
         Verdict(s, i) = "ok"
  PROVE  LET key == KeyOf(i)
             o == Written(i, s.objects[key])
         IN key \in Keys /\ o \in Object /\ o.name = key[3]
<1> DEFINE key == KeyOf(i)
           old == s.objects[key]
<1>1. key \in Keys /\ i.body # NoBody /\ (i.verb = "create" \/ old # Absent)
  BY DEF Verdict
<1>2. CASE i.verb = "create"
  <2>1. i.body \in Object
    BY <1>2 DEF IntentOK
  <2>2. key[3] = i.body.name
    BY <1>2 DEF KeyOf
  <2>3. Written(i, old) = [i.body EXCEPT !.status = NoStatus]
    BY <1>2 DEF Written
  <2>4. [i.body EXCEPT !.status = NoStatus] \in Object
        /\ [i.body EXCEPT !.status = NoStatus].name = i.body.name
    BY <2>1 DEF Object
  <2> QED BY <1>1, <2>2, <2>3, <2>4
<1>3. CASE i.verb # "create"
  <2>1. old \in Object /\ old.name = key[3]
    BY <1>1, <1>3, ServerAt
  <2>2. i.body \in Object \/ i.body \in Patches
    BY <1>1 DEF IntentOK
  <2>3. i.body.status \in Statuses \cup {NoStatus} /\ i.body.spec \in Specs
    BY <2>2, Objects DEF Patches
  <2> HIDE DEF old
  <2>4. Written(i, old) = [old EXCEPT !.status = i.body.status]
        \/ Written(i, old) = [old EXCEPT !.spec = i.body.spec]
    BY <1>3 DEF Written
  <2>5. /\ [old EXCEPT !.status = i.body.status] \in Object
        /\ [old EXCEPT !.status = i.body.status].name = old.name
        /\ [old EXCEPT !.spec = i.body.spec] \in Object
        /\ [old EXCEPT !.spec = i.body.spec].name = old.name
    BY <2>1, <2>3 DEF Object
  <2>6. Written(i, old) \in Object /\ Written(i, old).name = key[3]
    BY <2>1, <2>4, <2>5
  <2> QED BY <1>1, <2>6 DEF old
<1> QED BY <1>2, <1>3

\* And so does everything an intent may ask for, or it changes nothing.
LEMMA EffectMoves ==
  ASSUME NEW s, ServerOK(s), NEW i, IntentOK(i)
  PROVE  ServerOK(Effect(s, i).server) /\ Moved(s, Effect(s, i).server)
<1>1. Moved(s, s)
  BY DEF Moved
<1>2. ASSUME Verdict(s, i) = "ok"
      PROVE  ServerOK(Changed(s, i)) /\ Moved(s, Changed(s, i))
  <2>1. CASE i.verb \in {"get", "list"}
    BY <1>1, <2>1 DEF Changed
  <2>2. CASE i.verb \in {"create", "update", "patch"}
    <3>1. Changed(s, i) = Stored(s, KeyOf(i), Written(i, s.objects[KeyOf(i)]))
      BY <2>2 DEF Changed
    <3> QED BY <1>2, <2>2, <3>1, WrittenFits, StoredMoves
  <2>3. CASE i.verb = "delete"
    <3>1. Changed(s, i) = Removed(s, {KeyOf(i)})
      BY <2>3 DEF Changed
    <3> QED BY <3>1, RemovedMoves
  <2>4. CASE i.verb = "deletecollection"
    <3>1. Changed(s, i) = Removed(s, Selected(i))
      BY <2>4 DEF Changed
    <3> QED BY <3>1, RemovedMoves
  <2> QED BY <2>1, <2>2, <2>3, <2>4 DEF IntentOK, Verbs
<1>3. Effect(s, i).server = s \/ (Verdict(s, i) = "ok" /\ Effect(s, i).server = Changed(s, i))
  BY DEF Effect
<1> QED BY <1>1, <1>2, <1>3

\* A dry run and a read have no effect.
LEMMA EffectHarmless ==
  ASSUME NEW s, NEW i, i.dry \/ i.verb \in {"get", "list"}
  PROVE  Effect(s, i).server = s
<1>1. i.verb \in {"get", "list"} => Changed(s, i) = s
  BY DEF Changed
<1> QED BY <1>1 DEF Effect

\* An update takes effect on the version that it carries only.
LEMMA EffectUpdate ==
  ASSUME NEW s, NEW i, i.verb = "update", Effect(s, i).server # s
  PROVE  /\ KeyOf(i) \in Keys /\ s.objects[KeyOf(i)] # Absent
         /\ s.objects[KeyOf(i)].version = i.body.version
<1>1. Verdict(s, i) = "ok"
  BY DEF Effect
<1> QED BY <1>1 DEF Verdict

\* A read that is answered shows the object that is there.
LEMMA EffectGet ==
  ASSUME NEW s, NEW i, i.verb = "get", Effect(s, i).answer.code = "ok"
  PROVE  /\ KeyOf(i) \in Keys /\ s.objects[KeyOf(i)] # Absent
         /\ Effect(s, i).answer.found = {s.objects[KeyOf(i)]}
<1>1. Verdict(s, i) = "ok"
  BY DEF Effect
<1>2. KeyOf(i) \in Keys /\ s.objects[KeyOf(i)] # Absent
  BY <1>1 DEF Verdict
<1>3. Effect(s, i).answer.found = Found(s, i)
  BY <1>1 DEF Effect
<1>4. Found(s, i) = {s.objects[KeyOf(i)]} \ {Absent}
  BY DEF Found
<1> QED BY <1>2, <1>3, <1>4

\* What has been read stays what its version stands for.
LEMMA AsReadStays ==
  ASSUME NEW s, ServerOK(s), NEW t, ServerOK(t), Moved(s, t), NEW key, NEW o,
         AsRead(s, key, o)
  PROVE  AsRead(t, key, o)
<1>1. key \in Keys /\ o \in Object /\ o.version \in Nat /\ o.version <= s.version
      /\ s.version \in Nat
  BY Objects DEF AsRead, ServerOK, Servers
<1>2. CASE t = s
  BY <1>2
<1>3. CASE t # s
  <2>1. t.version = s.version + 1
    BY <1>3 DEF Moved
  <2>2. \/ t.objects[key] \in {s.objects[key], Absent}
        \/ t.objects[key].version = t.version
    BY <1>1, <1>3 DEF Moved
  <2>3. o.version <= t.version /\ o.version # t.version
    BY <1>1, <2>1
  <2> QED BY <1>1, <2>2, <2>3 DEF AsRead
<1> QED BY <1>2, <1>3

--------------------------------------------------------------------------------
(* Lemmas about requests. *)

\* The verbs of HTTP.
Method(op) ==
    CASE op = "create" -> "POST"
      [] op \in {"replace", "replaceStatus"} -> "PUT"
      [] op \in {"patch", "patchStatus"} -> "PATCH"
      [] op \in {"delete", "deleteCollection"} -> "DELETE"
      [] OTHER -> "GET"

\* What the operations of ts-axios and ts-fetch have in common.
Shape(o, op, kind) ==
    /\ o.path = Path(op, kind, "{namespace}", "{name}") /\ o.method = Method(op)

\* An operation of ts-axios has a parameter for all that a program may mention, but
\* for the name of what it creates, and sends on what it is given.
Parameters(o) == {o.params[i] : i \in DOMAIN o.params}
AxiosShape(o, op, kind) ==
    /\ Shape(o, op, kind)
    /\ (Where(op) \cup Optional(op)) \ (IF op = "create" THEN {"name"} ELSE {})
        \subseteq Parameters(o)
    /\ HasBody(op) => "body" \in o.required /\ o.type # "none"
    /\ {"dryRun", "labelSelector"} \cap Optional(op) \subseteq o.query

\* An operation of ts-fetch insists on the body of what it creates or replaces, and
\* sends no selector and no patch.
FetchShape(o, op, kind) ==
    /\ Shape(o, op, kind)
    /\ op \in {"create", "replace", "replaceStatus"} => "body" \in o.required /\ o.type # "none"
    /\ op \in {"patch", "patchStatus"} => o.type = "none"
    /\ {"dryRun"} \cap Optional(op) \subseteq o.query /\ "labelSelector" \notin o.query

\* What is appended comes last, and nothing else moves.
LEMMA AppendedTo ==
  ASSUME NEW S, NEW s \in Seq(S), NEW v \in S
  PROVE  /\ Append(s, v) \in Seq(S) /\ Len(Append(s, v)) = Len(s) + 1
         /\ \A i \in 1..Len(s) : Append(s, v)[i] = s[i]
         /\ Append(s, v)[Len(s) + 1] = v
<1>1. Append(s, v) \in Seq(S)
  OBVIOUS
<1>2. Len(Append(s, v)) = Len(s) + 1
  OBVIOUS
<1>3. \A i \in 1..Len(s) : Append(s, v)[i] = s[i]
  OBVIOUS
<1>4. Append(s, v)[Len(s) + 1] = v
  OBVIOUS
<1> QED BY <1>1, <1>2, <1>3, <1>4

\* Appending to a sequence of four.
LEMMA Appended ==
  ASSUME NEW w, NEW x, NEW y, NEW z, NEW v
  PROVE  Append(<<w, x, y, z>>, v) = <<w, x, y, z, v>>
<1> DEFINE S == {w, x, y, z, v}
           s == <<w, x, y, z>>
           t == <<w, x, y, z, v>>
           longer == Append(s, v)
<1>1. s \in Seq(S) /\ v \in S
  OBVIOUS
<1>2. t \in Seq(S)
  OBVIOUS
<1>3. s[1] = t[1] /\ s[2] = t[2] /\ s[3] = t[3] /\ s[4] = t[4] /\ t[5] = v
  OBVIOUS
<1>4. Len(s) = 4 /\ Len(t) = 5
  OBVIOUS
<1> HIDE DEF S, s, t
<1>5. /\ longer \in Seq(S) /\ Len(longer) = Len(s) + 1
      /\ \A i \in 1..Len(s) : longer[i] = s[i]
      /\ longer[Len(s) + 1] = v
  BY <1>1, AppendedTo, Zenon
<1> HIDE DEF longer
<1>6. /\ Len(longer) = 5 /\ \A i \in 1..4 : longer[i] = s[i]
      /\ longer[5] = v
  BY <1>4, <1>5
<1>7. \A i \in 1..5 : longer[i] = t[i]
  <2>1. \A i \in 1..5 : i \in 1..4 \/ i = 5
    OBVIOUS
  <2>2. \A i \in 1..4 : i = 1 \/ i = 2 \/ i = 3 \/ i = 4
    OBVIOUS
  <2> QED BY <1>3, <1>6, <2>1, <2>2
<1>8. longer = t
  BY <1>2, <1>4, <1>5, <1>6, <1>7, SeqEqual
<1> QED BY <1>8 DEF longer, s, t

\* The paths that the two clients write are the same.
LEMMA Paths ==
  ASSUME NEW op, NEW kind
  PROVE  LET path == Path(op, kind, "{namespace}", "{name}") IN
         /\ op = "listForAllNamespaces" => path = <<kind>>
         /\ op \in {"list", "create", "deleteCollection"} =>
              path = A!collection(kind) /\ path = F!collection(kind)
         /\ op \in {"read", "replace", "patch", "delete"} =>
              path = A!object(kind) /\ path = F!object(kind)
         /\ op \in {"readStatus", "replaceStatus", "patchStatus"} =>
              path = Append(A!object(kind), "status") /\ path = Append(F!object(kind), "status")
<1>1. Append(<<"namespaces", "{namespace}", kind, "{name}">>, "status")
        = <<"namespaces", "{namespace}", kind, "{name}", "status">>
  BY Appended
<1>2. /\ A!collection(kind) = <<"namespaces", "{namespace}", kind>>
      /\ F!collection(kind) = <<"namespaces", "{namespace}", kind>>
      /\ A!object(kind) = <<"namespaces", "{namespace}", kind, "{name}">>
      /\ F!object(kind) = <<"namespaces", "{namespace}", kind, "{name}">>
  BY DEF A!collection, F!collection, A!object, F!object
<1>3. CASE op = "listForAllNamespaces"
  BY <1>3 DEF Path
<1>4. CASE op \in {"list", "create", "deleteCollection"}
  BY <1>2, <1>4 DEF Path
<1>5. CASE op \in {"read", "replace", "patch", "delete"}
  BY <1>2, <1>5 DEF Path
<1>6. CASE op \in {"readStatus", "replaceStatus", "patchStatus"}
  BY <1>1, <1>2, <1>6 DEF Path
<1> QED BY <1>3, <1>4, <1>5, <1>6

\* The query parameters that matter are among those of ts-axios.
LEMMA AxiosQueries ==
  "dryRun" \in A!writeQuery /\ "dryRun" \in A!deleteQuery /\ "labelSelector" \in A!listQuery
BY DEF A!writeQuery, A!deleteQuery, A!listQuery

\* All operations of ts-axios have that shape.
LEMMA AxiosOperation ==
  ASSUME NEW op \in EveryOperation, NEW kind
  PROVE  AxiosShape(operationOf("axios", op, kind), op, kind)
<1> DEFINE o == operationOf("axios", op, kind)
<1>1. CASE op = "create"
  <2>1. o = A!create(kind)
    BY <1>1 DEF operationOf
  <2>2. o.path = A!collection(kind) /\ o.method = "POST"
    BY <2>1 DEF A!create
  <2>3. Shape(o, op, kind)
    BY <1>1, <2>2, Paths DEF Shape, Method
  <2>4. {"namespace", "body", "dryRun"} \subseteq Parameters(o)
    <3>1. /\ 1 \in DOMAIN o.params /\ o.params[1] = "namespace"
          /\ 2 \in DOMAIN o.params /\ o.params[2] = "body"
          /\ 4 \in DOMAIN o.params /\ o.params[4] = "dryRun"
      BY <2>1 DEF A!create
    <3> QED BY <3>1 DEF Parameters
  <2>5. "body" \in o.required /\ o.type # "none"
    BY <2>1 DEF A!create
  <2>6. o.query = A!writeQuery
    BY <2>1 DEF A!create
  <2> QED BY <1>1, <2>3, <2>4, <2>5, <2>6, AxiosQueries
         DEF AxiosShape, Where, Optional, HasBody, Named, Writes
<1>2. CASE op = "deleteCollection"
  <2>1. o = A!deleteCollection(kind)
    BY <1>2 DEF operationOf
  <2>2. o.path = A!collection(kind) /\ o.method = "DELETE"
    BY <2>1 DEF A!deleteCollection
  <2>3. Shape(o, op, kind)
    BY <1>2, <2>2, Paths DEF Shape, Method
  <2>4. {"namespace", "labelSelector"} \subseteq Parameters(o)
    <3>1. /\ 1 \in DOMAIN o.params /\ o.params[1] = "namespace"
          /\ 6 \in DOMAIN o.params /\ o.params[6] = "labelSelector"
      BY <2>1 DEF A!deleteCollection, A!listParams
    <3> QED BY <3>1 DEF Parameters
  <2>5. o.query = A!listQuery
    BY <2>1 DEF A!deleteCollection
  <2> QED BY <1>2, <2>3, <2>4, <2>5, AxiosQueries
         DEF AxiosShape, Where, Optional, HasBody, Named, Writes
<1>3. CASE op = "delete"
  <2>1. o = A!delete(kind)
    BY <1>3 DEF operationOf
  <2>2. o.path = A!object(kind) /\ o.method = "DELETE"
    BY <2>1 DEF A!delete
  <2>3. Shape(o, op, kind)
    BY <1>3, <2>2, Paths DEF Shape, Method
  <2>4. {"name", "namespace", "dryRun"} \subseteq Parameters(o)
    <3>1. /\ 1 \in DOMAIN o.params /\ o.params[1] = "name"
          /\ 2 \in DOMAIN o.params /\ o.params[2] = "namespace"
          /\ 4 \in DOMAIN o.params /\ o.params[4] = "dryRun"
      BY <2>1 DEF A!delete
    <3> QED BY <3>1 DEF Parameters
  <2>5. o.query = A!deleteQuery
    BY <2>1 DEF A!delete
  <2> QED BY <1>3, <2>3, <2>4, <2>5, AxiosQueries
         DEF AxiosShape, Where, Optional, HasBody, Named, Writes
<1>4. CASE op = "list"
  <2>1. o = A!list(kind)
    BY <1>4 DEF operationOf
  <2>2. o.path = A!collection(kind) /\ o.method = "GET"
    BY <2>1 DEF A!list
  <2>3. Shape(o, op, kind)
    BY <1>4, <2>2, Paths DEF Shape, Method
  <2>4. {"namespace", "labelSelector"} \subseteq Parameters(o)
    <3>1. /\ 1 \in DOMAIN o.params /\ o.params[1] = "namespace"
          /\ 6 \in DOMAIN o.params /\ o.params[6] = "labelSelector"
      BY <2>1 DEF A!list, A!listParams
    <3> QED BY <3>1 DEF Parameters
  <2>5. o.query = A!listQuery
    BY <2>1 DEF A!list
  <2> QED BY <1>4, <2>3, <2>4, <2>5, AxiosQueries
         DEF AxiosShape, Where, Optional, HasBody, Named, Writes
<1>5. CASE op = "listForAllNamespaces"
  <2>1. o = A!listForAllNamespaces(kind)
    BY <1>5 DEF operationOf
  <2>2. o.path = <<kind>> /\ o.method = "GET"
    BY <2>1 DEF A!listForAllNamespaces
  <2>3. Shape(o, op, kind)
    BY <1>5, <2>2, Paths DEF Shape, Method
  <2>4. {"labelSelector"} \subseteq Parameters(o)
    <3>1. /\ 4 \in DOMAIN o.params /\ o.params[4] = "labelSelector"
      BY <2>1 DEF A!listForAllNamespaces
    <3> QED BY <3>1 DEF Parameters
  <2>5. o.query = A!listQuery
    BY <2>1 DEF A!listForAllNamespaces
  <2> QED BY <1>5, <2>3, <2>4, <2>5, AxiosQueries
         DEF AxiosShape, Where, Optional, HasBody, Named, Writes
<1>6. CASE op = "patch"
  <2>1. o = A!patch(kind)
    BY <1>6 DEF operationOf
  <2>2. o.path = A!object(kind) /\ o.method = "PATCH"
    BY <2>1 DEF A!patch
  <2>3. Shape(o, op, kind)
    BY <1>6, <2>2, Paths DEF Shape, Method
  <2>4. {"name", "namespace", "body", "dryRun"} \subseteq Parameters(o)
    <3>1. /\ 1 \in DOMAIN o.params /\ o.params[1] = "name"
          /\ 2 \in DOMAIN o.params /\ o.params[2] = "namespace"
          /\ 3 \in DOMAIN o.params /\ o.params[3] = "body"
          /\ 5 \in DOMAIN o.params /\ o.params[5] = "dryRun"
      BY <2>1 DEF A!patch
    <3> QED BY <3>1 DEF Parameters
  <2>5. "body" \in o.required /\ o.type # "none"
    BY <2>1 DEF A!patch
  <2>6. o.query = A!writeQuery \cup {"force"}
    BY <2>1 DEF A!patch
  <2> QED BY <1>6, <2>3, <2>4, <2>5, <2>6, AxiosQueries
         DEF AxiosShape, Where, Optional, HasBody, Named, Writes
<1>7. CASE op = "patchStatus"
  <2>1. o = A!patchStatus(kind)
    BY <1>7 DEF operationOf
  <2>2. o.path = Append(A!object(kind), "status") /\ o.method = "PATCH"
    BY <2>1 DEF A!patchStatus, A!patch
  <2>3. Shape(o, op, kind)
    BY <1>7, <2>2, Paths DEF Shape, Method
  <2>4. {"name", "namespace", "body", "dryRun"} \subseteq Parameters(o)
    <3>1. /\ 1 \in DOMAIN o.params /\ o.params[1] = "name"
          /\ 2 \in DOMAIN o.params /\ o.params[2] = "namespace"
          /\ 3 \in DOMAIN o.params /\ o.params[3] = "body"
          /\ 5 \in DOMAIN o.params /\ o.params[5] = "dryRun"
      BY <2>1 DEF A!patchStatus, A!patch
    <3> QED BY <3>1 DEF Parameters
  <2>5. "body" \in o.required /\ o.type # "none"
    BY <2>1 DEF A!patchStatus, A!patch
  <2>6. o.query = A!writeQuery \cup {"force"}
    BY <2>1 DEF A!patchStatus, A!patch
  <2> QED BY <1>7, <2>3, <2>4, <2>5, <2>6, AxiosQueries
         DEF AxiosShape, Where, Optional, HasBody, Named, Writes
<1>8. CASE op = "read"
  <2>1. o = A!read(kind)
    BY <1>8 DEF operationOf
  <2>2. o.path = A!object(kind) /\ o.method = "GET"
    BY <2>1 DEF A!read
  <2>3. Shape(o, op, kind)
    BY <1>8, <2>2, Paths DEF Shape, Method
  <2>4. {"name", "namespace"} \subseteq Parameters(o)
    <3>1. /\ 1 \in DOMAIN o.params /\ o.params[1] = "name"
          /\ 2 \in DOMAIN o.params /\ o.params[2] = "namespace"
      BY <2>1 DEF A!read
    <3> QED BY <3>1 DEF Parameters
  <2> QED BY <1>8, <2>3, <2>4, AxiosQueries
         DEF AxiosShape, Where, Optional, HasBody, Named, Writes
<1>9. CASE op = "readStatus"
  <2>1. o = A!readStatus(kind)
    BY <1>9 DEF operationOf
  <2>2. o.path = Append(A!object(kind), "status") /\ o.method = "GET"
    BY <2>1 DEF A!readStatus, A!read
  <2>3. Shape(o, op, kind)
    BY <1>9, <2>2, Paths DEF Shape, Method
  <2>4. {"name", "namespace"} \subseteq Parameters(o)
    <3>1. /\ 1 \in DOMAIN o.params /\ o.params[1] = "name"
          /\ 2 \in DOMAIN o.params /\ o.params[2] = "namespace"
      BY <2>1 DEF A!readStatus, A!read
    <3> QED BY <3>1 DEF Parameters
  <2> QED BY <1>9, <2>3, <2>4, AxiosQueries
         DEF AxiosShape, Where, Optional, HasBody, Named, Writes
<1>10. CASE op = "replace"
  <2>1. o = A!replace(kind)
    BY <1>10 DEF operationOf
  <2>2. o.path = A!object(kind) /\ o.method = "PUT"
    BY <2>1 DEF A!replace
  <2>3. Shape(o, op, kind)
    BY <1>10, <2>2, Paths DEF Shape, Method
  <2>4. {"name", "namespace", "body", "dryRun"} \subseteq Parameters(o)
    <3>1. /\ 1 \in DOMAIN o.params /\ o.params[1] = "name"
          /\ 2 \in DOMAIN o.params /\ o.params[2] = "namespace"
          /\ 3 \in DOMAIN o.params /\ o.params[3] = "body"
          /\ 5 \in DOMAIN o.params /\ o.params[5] = "dryRun"
      BY <2>1 DEF A!replace
    <3> QED BY <3>1 DEF Parameters
  <2>5. "body" \in o.required /\ o.type # "none"
    BY <2>1 DEF A!replace
  <2>6. o.query = A!writeQuery
    BY <2>1 DEF A!replace
  <2> QED BY <1>10, <2>3, <2>4, <2>5, <2>6, AxiosQueries
         DEF AxiosShape, Where, Optional, HasBody, Named, Writes
<1>11. CASE op = "replaceStatus"
  <2>1. o = A!replaceStatus(kind)
    BY <1>11 DEF operationOf
  <2>2. o.path = Append(A!object(kind), "status") /\ o.method = "PUT"
    BY <2>1 DEF A!replaceStatus, A!replace
  <2>3. Shape(o, op, kind)
    BY <1>11, <2>2, Paths DEF Shape, Method
  <2>4. {"name", "namespace", "body", "dryRun"} \subseteq Parameters(o)
    <3>1. /\ 1 \in DOMAIN o.params /\ o.params[1] = "name"
          /\ 2 \in DOMAIN o.params /\ o.params[2] = "namespace"
          /\ 3 \in DOMAIN o.params /\ o.params[3] = "body"
          /\ 5 \in DOMAIN o.params /\ o.params[5] = "dryRun"
      BY <2>1 DEF A!replaceStatus, A!replace
    <3> QED BY <3>1 DEF Parameters
  <2>5. "body" \in o.required /\ o.type # "none"
    BY <2>1 DEF A!replaceStatus, A!replace
  <2>6. o.query = A!writeQuery
    BY <2>1 DEF A!replaceStatus, A!replace
  <2> QED BY <1>11, <2>3, <2>4, <2>5, <2>6, AxiosQueries
         DEF AxiosShape, Where, Optional, HasBody, Named, Writes
<1> QED BY <1>1, <1>2, <1>3, <1>4, <1>5, <1>6, <1>7, <1>8, <1>9, <1>10, <1>11 DEF EveryOperation

\* All operations of ts-fetch have theirs.
LEMMA FetchOperation ==
  ASSUME NEW op \in EveryOperation, NEW kind
  PROVE  FetchShape(operationOf("fetch", op, kind), op, kind)
<1> DEFINE o == operationOf("fetch", op, kind)
<1>1. CASE op = "create"
  <2>1. o = F!create(kind)
    BY <1>1 DEF operationOf
  <2>2. o.path = F!collection(kind) /\ o.method = "POST"
    BY <2>1 DEF F!create
  <2>3. Shape(o, op, kind)
    BY <1>1, <2>2, Paths DEF Shape, Method
  <2>4. "body" \in o.required /\ o.type # "none"
    BY <2>1 DEF F!create
  <2>5. o.query = {"dryRun", "fieldValidation"}
    BY <2>1 DEF F!create
  <2> QED BY <1>1, <2>3, <2>4, <2>5
         DEF FetchShape, Optional, HasBody, Named, Writes
<1>2. CASE op = "deleteCollection"
  <2>1. o = F!deleteCollection(kind)
    BY <1>2 DEF operationOf
  <2>2. o.path = F!collection(kind) /\ o.method = "DELETE"
    BY <2>1 DEF F!deleteCollection
  <2>3. Shape(o, op, kind)
    BY <1>2, <2>2, Paths DEF Shape, Method
  <2>4. o.query = {}
    BY <2>1 DEF F!deleteCollection
  <2> QED BY <1>2, <2>3, <2>4
         DEF FetchShape, Optional, HasBody, Named, Writes
<1>3. CASE op = "delete"
  <2>1. o = F!delete(kind)
    BY <1>3 DEF operationOf
  <2>2. o.path = F!object(kind) /\ o.method = "DELETE"
    BY <2>1 DEF F!delete
  <2>3. Shape(o, op, kind)
    BY <1>3, <2>2, Paths DEF Shape, Method
  <2>4. o.query = {"dryRun"}
    BY <2>1 DEF F!delete
  <2> QED BY <1>3, <2>3, <2>4
         DEF FetchShape, Optional, HasBody, Named, Writes
<1>4. CASE op = "list"
  <2>1. o = F!list(kind)
    BY <1>4 DEF operationOf
  <2>2. o.path = F!collection(kind) /\ o.method = "GET"
    BY <2>1 DEF F!list
  <2>3. Shape(o, op, kind)
    BY <1>4, <2>2, Paths DEF Shape, Method
  <2>4. o.query = {}
    BY <2>1 DEF F!list
  <2> QED BY <1>4, <2>3, <2>4
         DEF FetchShape, Optional, HasBody, Named, Writes
<1>5. CASE op = "listForAllNamespaces"
  <2>1. o = F!listForAllNamespaces(kind)
    BY <1>5 DEF operationOf
  <2>2. o.path = <<kind>> /\ o.method = "GET"
    BY <2>1 DEF F!listForAllNamespaces
  <2>3. Shape(o, op, kind)
    BY <1>5, <2>2, Paths DEF Shape, Method
  <2>4. o.query = {}
    BY <2>1 DEF F!listForAllNamespaces
  <2> QED BY <1>5, <2>3, <2>4
         DEF FetchShape, Optional, HasBody, Named, Writes
<1>6. CASE op = "patch"
  <2>1. o = F!patch(kind)
    BY <1>6 DEF operationOf
  <2>2. o.path = F!object(kind) /\ o.method = "PATCH"
    BY <2>1 DEF F!patch
  <2>3. Shape(o, op, kind)
    BY <1>6, <2>2, Paths DEF Shape, Method
  <2>4. o.type = "none"
    BY <2>1 DEF F!patch
  <2>5. o.query = {"dryRun", "fieldValidation"}
    BY <2>1 DEF F!patch
  <2> QED BY <1>6, <2>3, <2>4, <2>5
         DEF FetchShape, Optional, HasBody, Named, Writes
<1>7. CASE op = "patchStatus"
  <2>1. o = F!patchStatus(kind)
    BY <1>7 DEF operationOf
  <2>2. o.path = Append(F!object(kind), "status") /\ o.method = "PATCH"
    BY <2>1 DEF F!patchStatus, F!patch
  <2>3. Shape(o, op, kind)
    BY <1>7, <2>2, Paths DEF Shape, Method
  <2>4. o.type = "none"
    BY <2>1 DEF F!patchStatus, F!patch
  <2>5. o.query = {"dryRun", "fieldValidation"}
    BY <2>1 DEF F!patchStatus, F!patch
  <2> QED BY <1>7, <2>3, <2>4, <2>5
         DEF FetchShape, Optional, HasBody, Named, Writes
<1>8. CASE op = "read"
  <2>1. o = F!read(kind)
    BY <1>8 DEF operationOf
  <2>2. o.path = F!object(kind) /\ o.method = "GET"
    BY <2>1 DEF F!read
  <2>3. Shape(o, op, kind)
    BY <1>8, <2>2, Paths DEF Shape, Method
  <2>4. o.query = {}
    BY <2>1 DEF F!read
  <2> QED BY <1>8, <2>3, <2>4
         DEF FetchShape, Optional, HasBody, Named, Writes
<1>9. CASE op = "readStatus"
  <2>1. o = F!readStatus(kind)
    BY <1>9 DEF operationOf
  <2>2. o.path = Append(F!object(kind), "status") /\ o.method = "GET"
    BY <2>1 DEF F!readStatus, F!read
  <2>3. Shape(o, op, kind)
    BY <1>9, <2>2, Paths DEF Shape, Method
  <2>4. o.query = {}
    BY <2>1 DEF F!readStatus, F!read
  <2> QED BY <1>9, <2>3, <2>4
         DEF FetchShape, Optional, HasBody, Named, Writes
<1>10. CASE op = "replace"
  <2>1. o = F!replace(kind)
    BY <1>10 DEF operationOf
  <2>2. o.path = F!object(kind) /\ o.method = "PUT"
    BY <2>1 DEF F!replace
  <2>3. Shape(o, op, kind)
    BY <1>10, <2>2, Paths DEF Shape, Method
  <2>4. "body" \in o.required /\ o.type # "none"
    BY <2>1 DEF F!replace
  <2>5. o.query = {"dryRun", "fieldValidation"}
    BY <2>1 DEF F!replace
  <2> QED BY <1>10, <2>3, <2>4, <2>5
         DEF FetchShape, Optional, HasBody, Named, Writes
<1>11. CASE op = "replaceStatus"
  <2>1. o = F!replaceStatus(kind)
    BY <1>11 DEF operationOf
  <2>2. o.path = Append(F!object(kind), "status") /\ o.method = "PUT"
    BY <2>1 DEF F!replaceStatus, F!replace
  <2>3. Shape(o, op, kind)
    BY <1>11, <2>2, Paths DEF Shape, Method
  <2>4. "body" \in o.required /\ o.type # "none"
    BY <2>1 DEF F!replaceStatus, F!replace
  <2>5. o.query = {"dryRun", "fieldValidation"}
    BY <2>1 DEF F!replaceStatus, F!replace
  <2> QED BY <1>11, <2>3, <2>4, <2>5
         DEF FetchShape, Optional, HasBody, Named, Writes
<1> QED BY <1>1, <1>2, <1>3, <1>4, <1>5, <1>6, <1>7, <1>8, <1>9, <1>10, <1>11 DEF EveryOperation

\* What the server reads in the path and the method of a request.
LEMMA Decoded ==
  ASSUME NEW r, NEW op \in EveryOperation, NEW kind, NEW ns, NEW name,
         kind # "namespaces", r.path = Path(op, kind, ns, name), r.method = Method(op)
  PROVE  LET d == Decode(r) IN
         /\ d.verb = Meaning(op) /\ d.kind = kind
         /\ d.namespace = (IF op = "listForAllNamespaces" THEN "all" ELSE ns)
         /\ d.name = (IF Named(op) /\ op # "create" THEN name ELSE "none")
         /\ d.body = (IF HasBody(op) THEN r.body ELSE NoBody)
<1>1. CASE op = "listForAllNamespaces"
  <2>1. r.path[1] = kind /\ r.path[1] # "namespaces" /\ Len(r.path) = 1 /\ r.method = "GET"
    BY <1>1 DEF Path, Method
  <2>2. Decode(r).verb = "list" /\ Decode(r).kind = kind
    BY <2>1 DEF Decode, VerbOf
  <2>3. Decode(r).namespace = "all" /\ Decode(r).name = "none" /\ Decode(r).body = NoBody
    BY <2>1 DEF Decode
  <2> QED BY <1>1, <2>2, <2>3 DEF Meaning, Named, HasBody
<1>2. CASE op \in {"list", "create", "deleteCollection"}
  <2>1. r.path = <<"namespaces", ns, kind>>
    BY <1>2 DEF Path, Method
  <2> QED BY <1>2, <2>1 DEF Decode, VerbOf, Meaning, Named, HasBody, Method
<1>3. CASE op \in {"read", "replace", "patch", "delete"}
  <2>1. r.path = <<"namespaces", ns, kind, name>>
    BY <1>3 DEF Path, Method
  <2> QED BY <1>3, <2>1 DEF Decode, VerbOf, Meaning, Named, HasBody, Method
<1>4. CASE op \in {"readStatus", "replaceStatus", "patchStatus"}
  <2>1. r.path = <<"namespaces", ns, kind, name, "status">>
    BY <1>4 DEF Path, Method
  <2> QED BY <1>4, <2>1 DEF Decode, VerbOf, Meaning, Named, HasBody, Method
<1> QED BY <1>1, <1>2, <1>3, <1>4 DEF EveryOperation

\* The subresource is told by the length of the path.
LEMMA DecodedStatus ==
  ASSUME NEW r, NEW op \in EveryOperation, NEW kind, NEW ns, NEW name,
         r.path = Path(op, kind, ns, name)
  PROVE  Decode(r).status = (op \in {"readStatus", "replaceStatus", "patchStatus"})
<1>1. Len(r.path) \in Nat
      /\ (Len(r.path) > 4 <=> op \in {"readStatus", "replaceStatus", "patchStatus"})
  BY DEF Path, EveryOperation
<1>2. Decode(r).status = (Len(r.path) > 4)
  BY Zenon DEF Decode
<1>3. (Len(r.path) > 4) = (op \in {"readStatus", "replaceStatus", "patchStatus"})
  BY <1>1, SMT
<1> QED BY <1>2, <1>3, Zenon

\* The arguments by position are the arguments by name, of those that the operation
\* has a parameter for.
LEMMA PassedIs ==
  ASSUME NEW o, NEW args
  PROVE  DOMAIN A!Passed(o, ByPosition(o, args)) = Parameters(o) \cap DOMAIN args
BY DEF A!Passed, ByPosition, Parameters

\* Each of them has the value that the program has given it by name.
LEMMA PassedAt ==
  ASSUME NEW o, NEW args, NEW x \in Parameters(o) \cap DOMAIN args
  PROVE  A!Passed(o, ByPosition(o, args))[x] = args[x]
<1> DEFINE mentioned == {j \in DOMAIN o.params : o.params[j] \in DOMAIN args}
           values == ByPosition(o, args)
           position == CHOOSE i \in DOMAIN o.params : o.params[i] = x
<1>1. DOMAIN values = mentioned /\ \A i \in mentioned : values[i] = args[o.params[i]]
  BY DEF ByPosition
<1>2. position \in DOMAIN o.params /\ o.params[position] = x
  BY DEF Parameters
<1>3. position \in mentioned /\ x \in {o.params[i] : i \in mentioned}
  BY <1>2
<1>4. A!Passed(o, values)[x] = values[position]
  BY <1>1, <1>3 DEF A!Passed
<1> QED BY <1>1, <1>2, <1>3, <1>4

\* Tuples by their elements.
LEMMA Single ==
  ASSUME NEW f, NEW a
  PROVE  /\ f = <<a>> => DOMAIN f = 1..1 /\ f[1] = a
         /\ f = [i \in 1..1 |-> f[i]] /\ f[1] = a => f = <<a>>
<1>1. f = <<a>> => DOMAIN f = 1..1 /\ f[1] = a
  OBVIOUS
<1>2. f = [i \in 1..1 |-> f[i]] => f = <<f[1]>>
  OBVIOUS
<1> QED BY <1>1, <1>2

\* The same for three.
LEMMA Triple ==
  ASSUME NEW f, NEW a, NEW b, NEW c
  PROVE  /\ f = <<a, b, c>> =>
              DOMAIN f = 1..3 /\ f[1] = a /\ f[2] = b /\ f[3] = c
         /\ f = [i \in 1..3 |-> f[i]] /\ f[1] = a /\ f[2] = b /\ f[3] = c =>
              f = <<a, b, c>>
<1>1. f = <<a, b, c>> =>
        DOMAIN f = 1..3 /\ f[1] = a /\ f[2] = b /\ f[3] = c
  OBVIOUS
<1>2. f = [i \in 1..3 |-> f[i]] => f = <<f[1], f[2], f[3]>>
  OBVIOUS
<1> QED BY <1>1, <1>2

\* For four.
LEMMA Quadruple ==
  ASSUME NEW f, NEW a, NEW b, NEW c, NEW d
  PROVE  /\ f = <<a, b, c, d>> =>
              DOMAIN f = 1..4 /\ f[1] = a /\ f[2] = b /\ f[3] = c /\ f[4] = d
         /\ f = [i \in 1..4 |-> f[i]] /\ f[1] = a /\ f[2] = b /\ f[3] = c /\ f[4] = d =>
              f = <<a, b, c, d>>
<1>1. f = <<a, b, c, d>> =>
        DOMAIN f = 1..4 /\ f[1] = a /\ f[2] = b /\ f[3] = c /\ f[4] = d
  OBVIOUS
<1>2. f = [i \in 1..4 |-> f[i]] => f = <<f[1], f[2], f[3], f[4]>>
  OBVIOUS
<1> QED BY <1>1, <1>2

\* For five.
LEMMA Quintuple ==
  ASSUME NEW f, NEW a, NEW b, NEW c, NEW d, NEW e
  PROVE  /\ f = <<a, b, c, d, e>> =>
              DOMAIN f = 1..5 /\ f[1] = a /\ f[2] = b /\ f[3] = c /\ f[4] = d /\ f[5] = e
         /\ f = [i \in 1..5 |-> f[i]] /\ f[1] = a /\ f[2] = b /\ f[3] = c /\ f[4] = d /\ f[5] = e =>
              f = <<a, b, c, d, e>>
<1>1. f = <<a, b, c, d, e>> =>
        DOMAIN f = 1..5 /\ f[1] = a /\ f[2] = b /\ f[3] = c /\ f[4] = d /\ f[5] = e
  OBVIOUS
<1>2. f = [i \in 1..5 |-> f[i]] => f = <<f[1], f[2], f[3], f[4], f[5]>>
  OBVIOUS
<1> QED BY <1>1, <1>2

\* What the clients make of a word of a path.
AxiosWord(args, w) ==
    CASE w = "{name}" -> args["name"]
      [] w = "{namespace}" -> args["namespace"]
      [] OTHER -> w
FetchWord(args, w) == IF w = "{name}" THEN args["name"] ELSE w

\* ts-axios goes over a path word by word.
LEMMA AxiosWords ==
  ASSUME NEW o, NEW args
  PROVE  LET path == A!pathOf(o, args) IN
         /\ path = [i \in DOMAIN o.path |-> path[i]]
         /\ \A i \in DOMAIN o.path : path[i] = AxiosWord(args, o.path[i])
<1>1. A!pathOf(o, args) = [i \in DOMAIN o.path |-> A!pathOf(o, args)[i]]
  BY DEF A!pathOf
<1>2. ASSUME NEW i \in DOMAIN o.path
      PROVE  A!pathOf(o, args)[i] = AxiosWord(args, o.path[i])
  BY DEF A!pathOf, AxiosWord
<1> QED BY <1>1, <1>2

\* So the path of an operation, written out, becomes that of a request.
LEMMA AxiosTuples ==
  ASSUME NEW o, NEW args, NEW a, NEW b, NEW c, NEW d, NEW e
  PROVE  LET path == A!pathOf(o, args)
             w(x) == AxiosWord(args, x)
         IN /\ o.path = <<a>> => path = <<w(a)>>
            /\ o.path = <<a, b, c>> => path = <<w(a), w(b), w(c)>>
            /\ o.path = <<a, b, c, d>> => path = <<w(a), w(b), w(c), w(d)>>
            /\ o.path = <<a, b, c, d, e>> => path = <<w(a), w(b), w(c), w(d), w(e)>>
<1> DEFINE path == A!pathOf(o, args)
<1>1. /\ path = [i \in DOMAIN o.path |-> path[i]]
      /\ \A i \in DOMAIN o.path : path[i] = AxiosWord(args, o.path[i])
  BY AxiosWords
<1> HIDE DEF path
<1>2. o.path = <<a>> => path = <<AxiosWord(args, a)>>
  BY <1>1, Single
<1>3. o.path = <<a, b, c>> => path = <<AxiosWord(args, a), AxiosWord(args, b), AxiosWord(args, c)>>
  BY <1>1, Triple
<1>4. o.path = <<a, b, c, d>> =>
        path = <<AxiosWord(args, a), AxiosWord(args, b), AxiosWord(args, c), AxiosWord(args, d)>>
  BY <1>1, Quadruple
<1>5. o.path = <<a, b, c, d, e>> =>
        path = <<AxiosWord(args, a), AxiosWord(args, b), AxiosWord(args, c), AxiosWord(args, d),
                 AxiosWord(args, e)>>
  BY <1>1, Quintuple
<1> QED BY <1>2, <1>3, <1>4, <1>5 DEF path

\* The path of every operation of ts-axios names what the arguments name.
LEMMA AxiosPath ==
  ASSUME NEW o, NEW op \in EveryOperation, NEW kind \in Kinds, NEW args, Shape(o, op, kind)
  PROVE  A!pathOf(o, args) = Path(op, kind, args["namespace"], args["name"])
<1> DEFINE root == "namespaces"
           space == "{namespace}"
           name == "{name}"
           status == "status"
<1>1. /\ AxiosWord(args, kind) = kind /\ AxiosWord(args, root) = "namespaces"
      /\ AxiosWord(args, space) = args["namespace"]
      /\ AxiosWord(args, name) = args["name"] /\ AxiosWord(args, status) = "status"
  BY WordsAssumption DEF AxiosWord, WordsAssumption
<1>2. CASE op = "listForAllNamespaces"
  <2>1. o.path = <<kind>>
    BY <1>2 DEF Shape, Path
  <2>2. A!pathOf(o, args) = <<AxiosWord(args, kind)>>
    BY <2>1, AxiosTuples
  <2> QED BY <1>1, <1>2, <2>2 DEF Path
<1>3. CASE op \in {"list", "create", "deleteCollection"}
  <2>1. o.path = <<root, space, kind>>
    BY <1>3 DEF Shape, Path
  <2> HIDE DEF root, space
  <2>2. A!pathOf(o, args) = <<AxiosWord(args, root), AxiosWord(args, space), AxiosWord(args, kind)>>
    BY <2>1, AxiosTuples
  <2> QED BY <1>1, <1>3, <2>2 DEF Path
<1>4. CASE op \in {"read", "replace", "patch", "delete"}
  <2>1. o.path = <<root, space, kind, name>>
    BY <1>4 DEF Shape, Path
  <2> HIDE DEF root, space, name
  <2>2. A!pathOf(o, args) = <<AxiosWord(args, root), AxiosWord(args, space), AxiosWord(args, kind),
                               AxiosWord(args, name)>>
    BY <2>1, AxiosTuples
  <2> QED BY <1>1, <1>4, <2>2 DEF Path
<1>5. CASE op \in {"readStatus", "replaceStatus", "patchStatus"}
  <2>1. o.path = <<root, space, kind, name, status>>
    BY <1>5 DEF Shape, Path
  <2> HIDE DEF root, space, name, status
  <2>2. A!pathOf(o, args) = <<AxiosWord(args, root), AxiosWord(args, space), AxiosWord(args, kind),
                               AxiosWord(args, name), AxiosWord(args, status)>>
    BY <2>1, AxiosTuples
  <2> QED BY <1>1, <1>5, <2>2 DEF Path
<1> QED BY <1>2, <1>3, <1>4, <1>5 DEF EveryOperation

\* ts-fetch goes over a path word by word.
LEMMA FetchWords ==
  ASSUME NEW o, NEW args
  PROVE  LET path == F!pathOf(o, args) IN
         /\ path = [i \in DOMAIN o.path |-> path[i]]
         /\ \A i \in DOMAIN o.path : path[i] = FetchWord(args, o.path[i])
<1>1. F!pathOf(o, args) = [i \in DOMAIN o.path |-> F!pathOf(o, args)[i]]
  BY DEF F!pathOf
<1>2. ASSUME NEW i \in DOMAIN o.path
      PROVE  F!pathOf(o, args)[i] = FetchWord(args, o.path[i])
  BY DEF F!pathOf, FetchWord
<1> QED BY <1>1, <1>2

\* So the path of an operation, written out, becomes that of a request.
LEMMA FetchTuples ==
  ASSUME NEW o, NEW args, NEW a, NEW b, NEW c, NEW d, NEW e
  PROVE  LET path == F!pathOf(o, args)
             w(x) == FetchWord(args, x)
         IN /\ o.path = <<a>> => path = <<w(a)>>
            /\ o.path = <<a, b, c>> => path = <<w(a), w(b), w(c)>>
            /\ o.path = <<a, b, c, d>> => path = <<w(a), w(b), w(c), w(d)>>
            /\ o.path = <<a, b, c, d, e>> => path = <<w(a), w(b), w(c), w(d), w(e)>>
<1> DEFINE path == F!pathOf(o, args)
<1>1. /\ path = [i \in DOMAIN o.path |-> path[i]]
      /\ \A i \in DOMAIN o.path : path[i] = FetchWord(args, o.path[i])
  BY FetchWords
<1> HIDE DEF path
<1>2. o.path = <<a>> => path = <<FetchWord(args, a)>>
  BY <1>1, Single
<1>3. o.path = <<a, b, c>> => path = <<FetchWord(args, a), FetchWord(args, b), FetchWord(args, c)>>
  BY <1>1, Triple
<1>4. o.path = <<a, b, c, d>> =>
        path = <<FetchWord(args, a), FetchWord(args, b), FetchWord(args, c), FetchWord(args, d)>>
  BY <1>1, Quadruple
<1>5. o.path = <<a, b, c, d, e>> =>
        path = <<FetchWord(args, a), FetchWord(args, b), FetchWord(args, c), FetchWord(args, d),
                 FetchWord(args, e)>>
  BY <1>1, Quintuple
<1> QED BY <1>2, <1>3, <1>4, <1>5 DEF path

\* The path of every operation of ts-fetch names what the arguments name, but for the
\* namespace, which stays as it is written.
LEMMA FetchPath ==
  ASSUME NEW o, NEW op \in EveryOperation, NEW kind \in Kinds, NEW args, Shape(o, op, kind)
  PROVE  F!pathOf(o, args) = Path(op, kind, "{namespace}", args["name"])
<1> DEFINE root == "namespaces"
           space == "{namespace}"
           name == "{name}"
           status == "status"
<1>1. /\ FetchWord(args, kind) = kind /\ FetchWord(args, root) = "namespaces"
      /\ FetchWord(args, space) = "{namespace}"
      /\ FetchWord(args, name) = args["name"] /\ FetchWord(args, status) = "status"
  BY WordsAssumption DEF FetchWord, WordsAssumption
<1>2. CASE op = "listForAllNamespaces"
  <2>1. o.path = <<kind>>
    BY <1>2 DEF Shape, Path
  <2>2. F!pathOf(o, args) = <<FetchWord(args, kind)>>
    BY <2>1, FetchTuples
  <2> QED BY <1>1, <1>2, <2>2 DEF Path
<1>3. CASE op \in {"list", "create", "deleteCollection"}
  <2>1. o.path = <<root, space, kind>>
    BY <1>3 DEF Shape, Path
  <2> HIDE DEF root, space
  <2>2. F!pathOf(o, args) = <<FetchWord(args, root), FetchWord(args, space), FetchWord(args, kind)>>
    BY <2>1, FetchTuples
  <2> QED BY <1>1, <1>3, <2>2 DEF Path
<1>4. CASE op \in {"read", "replace", "patch", "delete"}
  <2>1. o.path = <<root, space, kind, name>>
    BY <1>4 DEF Shape, Path
  <2> HIDE DEF root, space, name
  <2>2. F!pathOf(o, args) = <<FetchWord(args, root), FetchWord(args, space), FetchWord(args, kind),
                               FetchWord(args, name)>>
    BY <2>1, FetchTuples
  <2> QED BY <1>1, <1>4, <2>2 DEF Path
<1>5. CASE op \in {"readStatus", "replaceStatus", "patchStatus"}
  <2>1. o.path = <<root, space, kind, name, status>>
    BY <1>5 DEF Shape, Path
  <2> HIDE DEF root, space, name, status
  <2>2. F!pathOf(o, args) = <<FetchWord(args, root), FetchWord(args, space), FetchWord(args, kind),
                               FetchWord(args, name), FetchWord(args, status)>>
    BY <2>1, FetchTuples
  <2> QED BY <1>1, <1>5, <2>2 DEF Path
<1> QED BY <1>2, <1>3, <1>4, <1>5 DEF EveryOperation

\* What of a call the request and its meaning depend on.
Same(c, d) == d.client = c.client /\ d.op = c.op /\ d.kind = c.kind /\ d.args = c.args
\* Two calls that agree on it are as good, and mean the same.
LEMMA SameCall ==
  ASSUME NEW c, NEW d, Same(c, d)
  PROVE  /\ ArgsOK(c) => ArgsOK(d)
         /\ IntentOf(d) = IntentOf(c)
         /\ \A s : BodyOK(s, c) => BodyOK(s, d)
         /\ Harmless(d) <=> Harmless(c)
<1>1. ArgsOK(c) => ArgsOK(d)
  BY DEF Same, ArgsOK
<1>2. IntentOf(d) = IntentOf(c)
  BY DEF Same, IntentOf
<1>3. ASSUME NEW s, BodyOK(s, c) PROVE BodyOK(s, d)
  BY <1>3 DEF Same, BodyOK
<1>4. Harmless(d) <=> Harmless(c)
  BY DEF Same, Harmless
<1> QED BY <1>1, <1>2, <1>3, <1>4

\* A request that is made of the arguments as a call means them, and arrives, is
\* understood.
Made(r, c) ==
    LET axios == c.client = "axios" IN
    /\ r.path = Path(c.op, c.kind, IF axios THEN c.args["namespace"] ELSE "{namespace}",
                     c.args["name"])
    /\ r.method = Method(c.op)
    /\ "dryRun" \in DOMAIN r.query <=> "dryRun" \in DOMAIN c.args
    /\ "labelSelector" \in DOMAIN r.query <=> axios /\ "labelSelector" \in DOMAIN c.args
    /\ "labelSelector" \in DOMAIN r.query =>
        r.query["labelSelector"] = c.args["labelSelector"]
    /\ HasBody(c.op) =>
        r.body = IF axios \/ c.op \notin {"patch", "patchStatus"} THEN c.args["body"] ELSE NoBody

\* The server reads in such a request what the call means.
LEMMA Understood ==
  ASSUME NEW c, ArgsOK(c), NEW r, Made(r, c)
  PROVE  /\ Decode(r) = IntentOf(c)
         /\ r.method \in {"POST", "PUT"} => r.body \in Object
<1> DEFINE d == Decode(r)
           i == IntentOf(c)
<1>1. c.op \in EveryOperation /\ c.kind \in Kinds /\ c.kind # "namespaces"
      /\ c.client \in {"axios", "fetch"}
  BY WordsAssumption DEF ArgsOK, WordsAssumption
<1>2. /\ d.verb = Meaning(c.op) /\ d.kind = c.kind
      /\ d.namespace = (IF c.op = "listForAllNamespaces" THEN "all"
                        ELSE IF c.client = "axios" THEN c.args["namespace"] ELSE "{namespace}")
      /\ d.name = (IF Named(c.op) /\ c.op # "create" THEN c.args["name"] ELSE "none")
      /\ d.status = (c.op \in {"readStatus", "replaceStatus", "patchStatus"})
      /\ d.body = (IF HasBody(c.op) THEN r.body ELSE NoBody)
  <2> DEFINE namespace == IF c.client = "axios" THEN c.args["namespace"] ELSE "{namespace}"
             name == c.args["name"]
  <2>1. r.path = Path(c.op, c.kind, namespace, name) /\ r.method = Method(c.op)
    BY Zenon DEF Made
  <2> HIDE DEF namespace, name
  <2>2. /\ d.verb = Meaning(c.op) /\ d.kind = c.kind
        /\ d.namespace = (IF c.op = "listForAllNamespaces" THEN "all" ELSE namespace)
        /\ d.name = (IF Named(c.op) /\ c.op # "create" THEN name ELSE "none")
        /\ d.body = (IF HasBody(c.op) THEN r.body ELSE NoBody)
    BY <1>1, <2>1, Decoded
  <2>3. d.status = (c.op \in {"readStatus", "replaceStatus", "patchStatus"})
    BY <1>1, <2>1, DecodedStatus
  <2> QED BY <2>2, <2>3, Zenon DEF namespace, name
<1>3. d.dry = ("dryRun" \in DOMAIN c.args)
  <2>1. d.dry = ("dryRun" \in DOMAIN r.query)
    BY Zenon DEF Decode
  <2>2. "dryRun" \in DOMAIN r.query <=> "dryRun" \in DOMAIN c.args
    BY Zenon DEF Made
  <2>3. ("dryRun" \in DOMAIN r.query) = ("dryRun" \in DOMAIN c.args)
    BY <2>2, SMT
  <2> QED BY <2>1, <2>3, Zenon
<1>4. d.selector = (IF c.client = "axios" /\ "labelSelector" \in DOMAIN c.args
                    THEN c.args["labelSelector"] ELSE "none")
  BY DEF Decode, Made
<1>5. i.verb = d.verb /\ i.kind = d.kind /\ i.name = d.name
  BY <1>2 DEF IntentOf
<1>6. i.namespace = d.namespace
  BY <1>2 DEF IntentOf
<1>7. i.status = d.status /\ i.dry = d.dry
  BY <1>2, <1>3 DEF IntentOf
<1>8. i.selector = d.selector
  BY <1>4 DEF IntentOf
<1>9. HasBody(c.op) <=> Meaning(c.op) \in {"create", "update", "patch"}
  BY <1>1 DEF HasBody, Meaning, EveryOperation
<1>10. Meaning(c.op) = "patch" <=> c.op \in {"patch", "patchStatus"}
  BY <1>1 DEF Meaning, EveryOperation
<1>11. i.body = (IF Meaning(c.op) \in {"create", "update"}
                    \/ (c.client = "axios" /\ Meaning(c.op) = "patch")
                 THEN c.args["body"] ELSE NoBody)
  BY DEF IntentOf
<1>12. i.body = d.body
  BY <1>2, <1>9, <1>10, <1>11 DEF Made
<1>13. d = [verb |-> d.verb, kind |-> d.kind, namespace |-> d.namespace, name |-> d.name,
            status |-> d.status, dry |-> d.dry, selector |-> d.selector, body |-> d.body]
  BY DEF Decode
<1>14. i = [verb |-> i.verb, kind |-> i.kind, namespace |-> i.namespace, name |-> i.name,
            status |-> i.status, dry |-> i.dry, selector |-> i.selector, body |-> i.body]
  BY DEF IntentOf
<1>15. ASSUME r.method \in {"POST", "PUT"} PROVE r.body \in Object
  <2>1. c.op \in {"create", "replace", "replaceStatus"}
    BY <1>1, <1>15 DEF Made, Method, EveryOperation
  <2> QED BY <2>1 DEF Made, ArgsOK, HasBody
<1> HIDE DEF d, i
<1>16. d = i
  BY <1>5, <1>6, <1>7, <1>8, <1>12, <1>13, <1>14, Zenon
<1> QED BY <1>15, <1>16 DEF d, i

\* The query of ts-axios has what is passed under the same name.
LEMMA AxiosQuery ==
  ASSUME NEW o, NEW args, NEW x \in {"dryRun", "labelSelector"}
  PROVE  LET query == A!searchParams(o, args) IN
         /\ x \in DOMAIN query <=> x \in o.query /\ x \in DOMAIN args
         /\ x \in DOMAIN query => query[x] = args[x]
<1> DEFINE set == o.query \cap DOMAIN args
           query == A!searchParams(o, args)
<1>1. A!queryName(x) = x /\ \A p : A!queryName(p) = x => p = x
  BY DEF A!queryName
<1>2. DOMAIN query = {A!queryName(p) : p \in set}
  BY DEF A!searchParams
<1>3. x \in DOMAIN query <=> x \in set
  BY <1>1, <1>2
<1>4. ASSUME x \in DOMAIN query PROVE query[x] = args[x]
  <2>1. query[x] = args[CHOOSE p \in set : A!queryName(p) = x]
    BY <1>2, <1>4 DEF A!searchParams
  <2>2. (CHOOSE p \in set : A!queryName(p) = x) = x
    BY <1>1, <1>3, <1>4
  <2> QED BY <2>1, <2>2
<1> QED BY <1>3, <1>4

\* Every optional argument but the body is a query parameter.
LEMMA Extras ==
  ASSUME NEW c, ArgsOK(c)
  PROVE  \A x \in {"dryRun", "labelSelector", "body"} \cap DOMAIN c.args : x \in Optional(c.op)
<1>1. \A x \in {"dryRun", "labelSelector", "body"} : x \notin Where(c.op)
  BY DEF Where
<1> QED BY <1>1 DEF ArgsOK

\* A request of ts-axios is made as the call means it.
LEMMA AxiosRequest ==
  ASSUME NEW c, ArgsOK(c), CalledOK(c), c.client = "axios"
  PROVE  Made(A!requestOf(operationOf("axios", c.op, c.kind), c.path, c.passed), c)
<1> DEFINE o == operationOf("axios", c.op, c.kind)
           r == A!requestOf(o, c.path, c.passed)
<1>1. c.op \in EveryOperation /\ AxiosShape(o, c.op, c.kind)
  BY AxiosOperation DEF ArgsOK
<1> HIDE DEF o
<1>2. /\ r.path = c.path /\ r.method = o.method /\ r.query = A!searchParams(o, c.passed)
      /\ r.body = A!serialized(o, c.passed)
  BY DEF A!requestOf
<1>3. r.method = Method(c.op)
  BY <1>1, <1>2 DEF AxiosShape, Shape
<1>4. r.path = Path(c.op, c.kind, c.args["namespace"], c.args["name"])
  BY <1>2 DEF CalledOK
<1>5. ASSUME NEW x \in {"dryRun", "labelSelector"}
      PROVE  /\ x \in DOMAIN r.query <=> x \in DOMAIN c.args
             /\ x \in DOMAIN r.query => r.query[x] = c.args[x]
  <2>1. x \in DOMAIN c.passed <=> x \in DOMAIN c.args
    BY DEF CalledOK
  <2>2. x \in DOMAIN c.args => x \in o.query
    BY <1>1, Extras DEF AxiosShape
  <2>3. x \in DOMAIN c.passed => c.passed[x] = c.args[x]
    BY DEF CalledOK
  <2>4. /\ x \in DOMAIN r.query <=> x \in o.query /\ x \in DOMAIN c.passed
        /\ x \in DOMAIN r.query => r.query[x] = c.passed[x]
    BY <1>2, AxiosQuery
  <2> QED BY <2>1, <2>2, <2>3, <2>4
<1>6. ASSUME HasBody(c.op) PROVE r.body = c.args["body"]
  <2>1. "body" \in DOMAIN c.args
    BY <1>6 DEF ArgsOK, HasBody
  <2>2. "body" \in DOMAIN c.passed /\ c.passed["body"] = c.args["body"]
    BY <2>1 DEF CalledOK
  <2>3. o.type # "none"
    BY <1>1, <1>6 DEF AxiosShape
  <2> QED BY <1>2, <2>2, <2>3 DEF A!serialized
<1>7. /\ "dryRun" \in DOMAIN r.query <=> "dryRun" \in DOMAIN c.args
      /\ "labelSelector" \in DOMAIN r.query <=> "labelSelector" \in DOMAIN c.args
      /\ "labelSelector" \in DOMAIN r.query => r.query["labelSelector"] = c.args["labelSelector"]
  BY <1>5
<1> HIDE DEF r
<1> QED BY <1>3, <1>4, <1>6, <1>7 DEF Made, r, o

\* So is a request of ts-fetch.
LEMMA FetchRequest ==
  ASSUME NEW c, ArgsOK(c), CalledOK(c), c.client = "fetch"
  PROVE  Made(F!requestOf(operationOf("fetch", c.op, c.kind), c.passed), c)
<1> DEFINE o == operationOf("fetch", c.op, c.kind)
           r == F!requestOf(o, c.passed)
<1>1. c.op \in EveryOperation /\ c.kind \in Kinds /\ FetchShape(o, c.op, c.kind)
  BY FetchOperation DEF ArgsOK
<1> HIDE DEF o
<1>2. /\ r.path = F!pathOf(o, c.passed) /\ r.method = o.method
      /\ DOMAIN r.query = o.query \cap DOMAIN c.passed
      /\ r.body = IF o.type = "none" THEN [noBody |-> TRUE] ELSE c.passed["body"]
  BY DEF F!requestOf
<1>3. r.method = Method(c.op)
  BY <1>1, <1>2 DEF FetchShape, Shape
<1>4. r.path = Path(c.op, c.kind, "{namespace}", c.args["name"])
  <2>1. r.path = Path(c.op, c.kind, "{namespace}", c.passed["name"])
    <3>1. Shape(o, c.op, c.kind)
      BY <1>1 DEF FetchShape
    <3>2. F!pathOf(o, c.passed) = Path(c.op, c.kind, "{namespace}", c.passed["name"])
      BY <1>1, <3>1, FetchPath, Zenon
    <3> QED BY <1>2, <3>2
  <2>2. CASE c.op \in {"create", "list", "deleteCollection", "listForAllNamespaces"}
    BY <2>1, <2>2 DEF Path
  <2>3. CASE c.op \notin {"create", "list", "deleteCollection", "listForAllNamespaces"}
    <3>1. "name" \in DOMAIN c.args /\ DOMAIN c.passed = DOMAIN c.args
      BY <2>3 DEF ArgsOK, Where, Named, CalledOK
    <3> QED BY <2>1, <3>1 DEF CalledOK
  <2> QED BY <2>2, <2>3
<1>5. "dryRun" \in DOMAIN r.query <=> "dryRun" \in DOMAIN c.args
  <2>1. "dryRun" \in DOMAIN c.passed <=> "dryRun" \in DOMAIN c.args
    BY DEF CalledOK
  <2>2. "dryRun" \in DOMAIN c.args => "dryRun" \in o.query
    BY <1>1, Extras DEF FetchShape
  <2> QED BY <1>2, <2>1, <2>2
<1>6. "labelSelector" \notin DOMAIN r.query
  BY <1>1, <1>2 DEF FetchShape
<1>7. ASSUME c.op \in {"create", "replace", "replaceStatus"} PROVE r.body = c.args["body"]
  <2>1. "body" \in DOMAIN c.passed /\ c.passed["body"] = c.args["body"]
    BY <1>7 DEF ArgsOK, CalledOK
  <2>2. o.type # "none"
    BY <1>1, <1>7 DEF FetchShape
  <2> QED BY <1>2, <2>1, <2>2
<1>8. ASSUME c.op \in {"patch", "patchStatus"} PROVE r.body = NoBody
  BY <1>1, <1>2, <1>8 DEF FetchShape, NoBody
<1> HIDE DEF r
<1> QED BY <1>3, <1>4, <1>5, <1>6, <1>7, <1>8 DEF Made, r, o, HasBody

\* A call means something.
LEMMA Meant ==
  ASSUME NEW c, ArgsOK(c)
  PROVE  LET i == IntentOf(c) IN
         /\ IntentOK(i)
         /\ i.verb = Meaning(c.op) /\ i.kind = c.kind
         /\ i.dry = ("dryRun" \in DOMAIN c.args)
         /\ i.verb \in {"get", "list"} <=> ~Writes(c.op)
         /\ c.op \in {"read", "readStatus"} => i.verb = "get"
         /\ c.op \in {"replace", "replaceStatus"} => i.verb = "update" /\ i.body = c.args["body"]
<1> DEFINE i == IntentOf(c)
<1>1. c.op \in EveryOperation
  BY DEF ArgsOK
<1>2. i.verb = Meaning(c.op) /\ i.kind = c.kind
  BY DEF IntentOf
<1>3. i.dry = ("dryRun" \in DOMAIN c.args)
  BY Zenon DEF IntentOf
<1>4. i.body = (IF Meaning(c.op) \in {"create", "update"}
                    \/ (c.client = "axios" /\ Meaning(c.op) = "patch")
                 THEN c.args["body"] ELSE NoBody)
  BY DEF IntentOf
<1>5. i.verb \in Verbs /\ (i.verb \in {"get", "list"} <=> ~Writes(c.op))
      /\ (c.op \in {"read", "readStatus"} => i.verb = "get")
      /\ (c.op \in {"replace", "replaceStatus"} => i.verb = "update")
  BY <1>1, <1>2 DEF Meaning, Writes, EveryOperation, Verbs
<1>6. i.verb \in {"create", "update"} => i.body \in Object
  <2>1. Meaning(c.op) \in {"create", "update"} => c.op \in {"create", "replace", "replaceStatus"}
    BY <1>1 DEF Meaning, EveryOperation
  <2> HIDE DEF i
  <2> QED BY <1>2, <1>4, <2>1 DEF ArgsOK
<1>7. i.verb = "patch" => i.body \in Patches \cup {NoBody}
  <2>1. Meaning(c.op) = "patch" => c.op \in {"patch", "patchStatus"}
    BY <1>1 DEF Meaning, EveryOperation
  <2> HIDE DEF i
  <2> QED BY <1>2, <1>4, <2>1 DEF ArgsOK
<1>8. IntentOK(i)
  BY <1>5, <1>6, <1>7 DEF IntentOK
<1>9. c.op \in {"replace", "replaceStatus"} => i.body = c.args["body"]
  BY <1>2, <1>4, <1>5
<1> HIDE DEF i
<1>10. /\ IntentOK(i)
       /\ i.verb = Meaning(c.op) /\ i.kind = c.kind
       /\ i.verb \in {"get", "list"} <=> ~Writes(c.op)
       /\ c.op \in {"read", "readStatus"} => i.verb = "get"
       /\ c.op \in {"replace", "replaceStatus"} => i.verb = "update" /\ i.body = c.args["body"]
  BY <1>2, <1>5, <1>8, <1>9
<1> QED BY <1>3, <1>10, Zenon DEF i

\* What is known of a call stays true when the server goes on.
LEMMA BodyStays ==
  ASSUME NEW s, ServerOK(s), NEW t, ServerOK(t), Moved(s, t), NEW c, ArgsOK(c), BodyOK(s, c)
  PROVE  BodyOK(t, c)
<1> DEFINE key == <<c.kind, c.args["namespace"], c.args["name"]>>
           body == c.args["body"]
<1> SUFFICES ASSUME c.op \in {"replace", "replaceStatus"} PROVE BodyOK(t, c)
  BY DEF BodyOK
<1>1. key \in Keys
  BY DEF ArgsOK, Where, Named, Keys
<1>2. body \in Object /\ body.version \in Nat
  BY Objects DEF ArgsOK
<1>3. /\ body.version <= s.version
      /\ s.objects[key] # Absent /\ s.objects[key].version = body.version =>
          /\ c.op = "replace" => s.objects[key].status = body.status
          /\ c.op = "replaceStatus" => s.objects[key].spec = body.spec
  BY DEF BodyOK
<1>4. s.version \in Nat /\ t.version \in Nat
  BY DEF ServerOK, Servers
<1> HIDE DEF key, body
<1>5. /\ body.version <= t.version
      /\ t.objects[key] # Absent /\ t.objects[key].version = body.version =>
          /\ c.op = "replace" => t.objects[key].status = body.status
          /\ c.op = "replaceStatus" => t.objects[key].spec = body.spec
  <2>1. CASE t = s
    BY <1>3, <2>1
  <2>2. CASE t # s
    <3>1. t.version = s.version + 1
      BY <2>2 DEF Moved
    <3>2. \/ t.objects[key] \in {s.objects[key], Absent}
          \/ t.objects[key].version = t.version
      BY <1>1, <2>2 DEF Moved
    <3>3. body.version <= t.version /\ body.version # t.version
      BY <1>2, <1>3, <1>4, <3>1
    <3> QED BY <1>3, <3>2, <3>3
  <2> QED BY <2>1, <2>2
<1> QED BY <1>5 DEF BodyOK, key, body

\* So with all that is known of the call.
LEMMA CallStays ==
  ASSUME NEW s, ServerOK(s), NEW t, ServerOK(t), Moved(s, t), NEW c, CallOK(s, c)
  PROVE  CallOK(t, c)
<1>1. CASE c = Idle
  BY <1>1 DEF CallOK
<1>2. CASE c # Idle
  <2>1. c.phase \in {"called", "sent", "served"} /\ ArgsOK(c) /\ BodyOK(s, c)
        /\ (c.phase = "called" => CalledOK(c)) /\ (c.phase = "sent" => RequestOK(c))
        /\ (c.phase = "served" => RequestOK(c) /\ AnswerOK(s, c))
    BY <1>2 DEF CallOK
  <2>2. BodyOK(t, c)
    BY <2>1, BodyStays
  <2>3. AnswerOK(s, c) => AnswerOK(t, c)
    BY AsReadStays DEF AnswerOK
  <2> QED BY <2>1, <2>2, <2>3 DEF CallOK
<1> QED BY <1>1, <1>2

\* And with what its program remembers.
LEMMA MemoryStays ==
  ASSUME NEW s, ServerOK(s), NEW t, ServerOK(t), Moved(s, t), NEW m, MemoryOK(s, m)
  PROVE  MemoryOK(t, m)
BY AsReadStays DEF MemoryOK

\* A call that is under way.
LEMMA UnderWay ==
  ASSUME NEW s, NEW c, CallOK(s, c), c.phase # "idle"
  PROVE  /\ c.phase \in {"called", "sent", "served"} /\ ArgsOK(c) /\ BodyOK(s, c)
         /\ c.phase = "called" => CalledOK(c)
         /\ c.phase = "sent" => RequestOK(c)
         /\ c.phase = "served" => RequestOK(c) /\ AnswerOK(s, c)
BY DEF CallOK, Idle

--------------------------------------------------------------------------------
(* The invariant. *)

\* A step that changes one call, or the server for all of them.
LEMMA OneCall ==
  ASSUME IInv, NEW p \in Programs, NEW c, NEW t, ServerOK(t), Moved(server, t), CallOK(t, c)
  PROVE  LET after == [calls EXCEPT ![p] = c]
         IN DOMAIN after = Programs /\ \A q \in Programs : CallOK(t, after[q])
<1> DEFINE after == [calls EXCEPT ![p] = c]
<1>1. DOMAIN after = Programs
  BY DEF IInv
<1>2. ASSUME NEW q \in Programs PROVE CallOK(t, after[q])
  <2>1. CASE q = p
    <3>1. after[q] = c
      BY <2>1 DEF IInv
    <3> QED BY <3>1
  <2>2. CASE q # p
    <3>1. after[q] = calls[q]
      BY <2>2 DEF IInv
    <3>2. CallOK(server, calls[q])
      BY DEF IInv
    <3> QED BY <3>1, <3>2, CallStays DEF IInv
  <2> QED BY <2>1, <2>2
<1> QED BY <1>1, <1>2

\* A step of the server leaves what is known of calls, memories and late requests.
LEMMA OnlyServer ==
  ASSUME IInv, NEW t, ServerOK(t), Moved(server, t)
  PROVE  /\ \A p \in Programs : CallOK(t, calls[p]) /\ MemoryOK(t, memory[p])
         /\ \A late \in adrift : BodyOK(t, late.call)
<1>1. ServerOK(server)
  BY DEF IInv
<1>2. ASSUME NEW p \in Programs PROVE CallOK(t, calls[p]) /\ MemoryOK(t, memory[p])
  BY <1>1, CallStays, MemoryStays DEF IInv
<1>3. ASSUME NEW late \in adrift PROVE BodyOK(t, late.call)
  BY <1>1, BodyStays DEF IInv, LateOK
<1> QED BY <1>2, <1>3

\* The invariant holds at the start.
LEMMA Starts == Init => IInv
<1> SUFFICES ASSUME Init PROVE IInv
  OBVIOUS
<1>1. PICK present \in Initially :
        server = [objects |-> [k \in Keys |->
                    IF k \in present
                    THEN [name |-> k[3], spec |-> CHOOSE s \in Specs : TRUE, status |-> NoStatus,
                          version |-> 1]
                    ELSE Absent],
                  version |-> 1]
  BY DEF Init
<1> DEFINE new(k) == [name |-> k[3], spec |-> CHOOSE s \in Specs : TRUE, status |-> NoStatus,
                      version |-> 1]
<1>2. ASSUME NEW k \in Keys PROVE new(k) \in Object /\ new(k).name = k[3] /\ new(k).version = 1
  <2>1. (CHOOSE s \in Specs : TRUE) \in Specs
    BY SpecsAssumption DEF SpecsAssumption
  <2>2. k[3] \in Names
    BY DEF Keys
  <2> QED BY <2>1, <2>2 DEF Object
<1>3. /\ server.version = 1
      /\ server = [objects |-> server.objects, version |-> server.version]
      /\ server.objects = [k \in Keys |-> IF k \in present THEN new(k) ELSE Absent]
  BY <1>1
<1> HIDE DEF new
<1>4. ServerOK(server)
  BY <1>2, <1>3 DEF ServerOK, Servers
<1>5. DOMAIN calls = Programs /\ \A p \in Programs : CallOK(server, calls[p])
  BY DEF Init, CallOK
<1>6. DOMAIN memory = Programs /\ \A p \in Programs : MemoryOK(server, memory[p])
  BY DEF Init, MemoryOK
<1>7. Counted
  BY ClientsAssumption DEF ClientsAssumption, Init, Counted
<1> QED BY <1>4, <1>5, <1>6, <1>7 DEF Init, IInv

\* The arguments that a program passes.
LEMMA Given ==
  ASSUME NEW p, NEW op, NEW key, NEW args \in GivenTo(p, op, key)
  PROVE  /\ Where(op) \subseteq DOMAIN args /\ DOMAIN args \subseteq Where(op) \cup Optional(op)
         /\ "namespace" \in DOMAIN args => args["namespace"] = key[2]
         /\ "name" \in DOMAIN args => args["name"] = key[3]
         /\ "labelSelector" \in DOMAIN args => args["labelSelector"] = "labelled"
         /\ "body" \in DOMAIN args => HasBody(op) /\ args["body"] \in Bodies(p, op, key)
<1>1. PICK more \in SUBSET Optional(op), body \in Bodies(p, op, key) :
        args = Arguments(Where(op) \cup more, key, body)
  <2> DEFINE chosen(more, body) == Arguments(Where(op) \cup more, key, body)
             choices == SUBSET Optional(op)
             bodies == Bodies(p, op, key)
  <2>1. GivenTo(p, op, key) = {chosen(more, body) : more \in choices, body \in bodies}
    BY DEF GivenTo
  <2> HIDE DEF chosen, choices, bodies
  <2>2. \E more \in choices, body \in bodies : args = chosen(more, body)
    BY <2>1
  <2> QED BY <2>2 DEF chosen, choices, bodies
<1>2. DOMAIN args = Where(op) \cup more
  BY <1>1, Zenon DEF Arguments
<1>3. /\ "namespace" \in DOMAIN args => args["namespace"] = key[2]
      /\ "name" \in DOMAIN args => args["name"] = key[3]
      /\ "labelSelector" \in DOMAIN args => args["labelSelector"] = "labelled"
      /\ "body" \in DOMAIN args => args["body"] = body
  BY <1>1, <1>2 DEF Arguments
<1>4. "body" \in Optional(op) => HasBody(op)
  BY DEF Optional
<1>5. "body" \notin Where(op)
  BY DEF Where
<1> QED BY <1>2, <1>3, <1>4, <1>5

\* A body that a program passes: the object to be made, a patch, or what it has read
\* with one part changed.
LEMMA GivenBody ==
  ASSUME IInv, NEW p \in Programs, NEW op, NEW key \in Keys,
         op \in {"replace", "replaceStatus"} => memory[p] # Nothing /\ memory[p].key = key,
         NEW body \in Bodies(p, op, key)
  PROVE  /\ op \in {"create", "replace", "replaceStatus"} => body \in Object
         /\ op = "create" => body.name = key[3]
         /\ op \in {"patch", "patchStatus"} => body \in Patches
         /\ op \in {"replace", "replaceStatus"} =>
              /\ body.version <= server.version
              /\ server.objects[key] # Absent /\ server.objects[key].version = body.version =>
                  /\ op = "replace" => server.objects[key].status = body.status
                  /\ op = "replaceStatus" => server.objects[key].spec = body.spec
<1>1. CASE op = "create"
  <2>1. PICK s \in Specs :
          body = [name |-> key[3], spec |-> s, status |-> NoStatus, version |-> 0]
    BY <1>1 DEF Bodies
  <2>2. key[3] \in Names
    BY DEF Keys
  <2>3. body \in Object /\ body.name = key[3]
    BY <2>1, <2>2 DEF Object
  <2> QED BY <1>1, <2>3
<1>2. CASE op \in {"patch", "patchStatus"}
  BY <1>2 DEF Bodies, Patches
<1>3. CASE op = "replace"
  <2> DEFINE o == memory[p].object
  <2>1. AsRead(server, key, o)
    BY <1>3 DEF IInv, MemoryOK
  <2>2. PICK s \in Specs : body = [o EXCEPT !.spec = s]
    BY <1>3 DEF Bodies
  <2> HIDE DEF o
  <2>3. o \in Object
    BY <2>1 DEF AsRead
  <2>4. body \in Object /\ body.version = o.version /\ body.status = o.status
    BY <2>2, <2>3 DEF Object
  <2> QED BY <1>3, <2>1, <2>4 DEF AsRead
<1>4. CASE op = "replaceStatus"
  <2> DEFINE o == memory[p].object
  <2>1. AsRead(server, key, o)
    BY <1>4 DEF IInv, MemoryOK
  <2>2. PICK s \in Statuses : body = [o EXCEPT !.status = s]
    BY <1>4 DEF Bodies
  <2> HIDE DEF o
  <2>3. o \in Object
    BY <2>1 DEF AsRead
  <2>4. body \in Object /\ body.version = o.version /\ body.spec = o.spec
    BY <2>2, <2>3 DEF Object
  <2> QED BY <1>4, <2>1, <2>4 DEF AsRead
<1> QED BY <1>1, <1>2, <1>3, <1>4

\* A call with these arguments, when the client does not refuse it.
LEMMA GivenArgs ==
  ASSUME IInv, NEW p \in Programs, NEW op \in EveryOperation, NEW key \in Keys,
         op \in {"replace", "replaceStatus"} => memory[p] # Nothing /\ memory[p].key = key,
         NEW args \in GivenTo(p, op, key), NEW c,
         c.client \in {"axios", "fetch"}, c.op = op, c.kind = key[1], c.args = args,
         op \in {"create", "replace", "replaceStatus"} => "body" \in DOMAIN args,
         op \in {"patch", "patchStatus"} /\ c.client = "axios" => "body" \in DOMAIN args
  PROVE  ArgsOK(c) /\ BodyOK(server, c)
<1>1. /\ Where(op) \subseteq DOMAIN args /\ DOMAIN args \subseteq Where(op) \cup Optional(op)
      /\ "namespace" \in DOMAIN args => args["namespace"] = key[2]
      /\ "name" \in DOMAIN args => args["name"] = key[3]
      /\ "labelSelector" \in DOMAIN args => args["labelSelector"] = "labelled"
      /\ "body" \in DOMAIN args => args["body"] \in Bodies(p, op, key)
  BY Given
<1>2. /\ key[1] \in Kinds /\ key[2] \in Namespaces /\ key[3] \in Names
      /\ key = <<key[1], key[2], key[3]>>
  BY DEF Keys
<1>3. op \in {"create", "replace", "replaceStatus"} => {"namespace", "name"} \subseteq DOMAIN args
  BY <1>1 DEF Where, Named
<1>4. "body" \in DOMAIN args =>
         /\ op \in {"create", "replace", "replaceStatus"} => args["body"] \in Object
         /\ op = "create" => args["body"].name = key[3]
         /\ op \in {"patch", "patchStatus"} => args["body"] \in Patches
         /\ op \in {"replace", "replaceStatus"} =>
              /\ args["body"].version <= server.version
              /\ server.objects[key] # Absent
                 /\ server.objects[key].version = args["body"].version =>
                  /\ op = "replace" => server.objects[key].status = args["body"].status
                  /\ op = "replaceStatus" => server.objects[key].spec = args["body"].spec
  BY <1>1, GivenBody
<1>5. ArgsOK(c)
  BY <1>1, <1>2, <1>3, <1>4 DEF ArgsOK
<1>6. ASSUME op \in {"replace", "replaceStatus"}
      PROVE  <<c.kind, c.args["namespace"], c.args["name"]>> = key
  BY <1>1, <1>2, <1>3, <1>6
<1>7. BodyOK(server, c)
  BY <1>4, <1>6 DEF BodyOK
<1> QED BY <1>5, <1>7

\* A step in which only one call changes.
LEMMA OnlyCall ==
  ASSUME IInv, NEW p \in Programs, NEW c, CallOK(server, c),
         calls' = [calls EXCEPT ![p] = c], UNCHANGED <<server, adrift, memory>>, Counted',
         losses' \in Nat, losses <= losses'
  PROVE  IInv'
<1>1. Moved(server, server) /\ ServerOK(server)
  BY DEF Moved, IInv
<1>2. DOMAIN calls' = Programs /\ \A q \in Programs : CallOK(server, calls'[q])
  BY <1>1, OneCall
<1>3. ASSUME NEW late \in adrift PROVE LateOK(late)'
  <2>1. LateOK(late)
    BY DEF IInv
  <2>2. losses \in Nat
    BY DEF IInv, Counted
  <2> QED BY <2>1, <2>2 DEF LateOK
<1>4. ServerOK(server)' /\ \A q \in Programs : MemoryOK(server, memory[q])'
  BY DEF IInv
<1> QED BY <1>2, <1>3, <1>4 DEF IInv

\* What a client has taken of a call.
LEMMA Takes ==
  ASSUME IInv, NEW p \in Programs, NEW client \in {"axios", "fetch"},
         NEW op \in EveryOperation, NEW key \in Keys,
         op \in {"replace", "replaceStatus"} => memory[p] # Nothing /\ memory[p].key = key,
         NEW args \in GivenTo(p, op, key)
  PROVE  CallOK(server, Taken(client, op, key, args))
<1> DEFINE c == Taken(client, op, key, args)
           o == operationOf(client, op, key[1])
           given == A!Passed(o, ByPosition(o, args))
           passed == IF client = "axios" THEN given ELSE args
           path == IF client = "axios" THEN A!pathOf(o, passed) ELSE NotYet
<1> SUFFICES ASSUME c # Idle PROVE CallOK(server, c)
  BY DEF CallOK
<1>1. /\ c = [phase |-> "called", client |-> client, op |-> op, kind |-> key[1], args |-> args,
              passed |-> passed, path |-> path]
      /\ o.required \subseteq DOMAIN passed
  BY DEF Taken, A!paramsExist, F!paramsExist
<1>2. key[1] \in Kinds
  BY DEF Keys
<1>3. /\ Where(op) \subseteq DOMAIN args /\ DOMAIN args \subseteq Where(op) \cup Optional(op)
  BY Given
<1>4. client = "axios" => AxiosShape(o, op, key[1])
  BY AxiosOperation
<1>5. client = "fetch" => FetchShape(o, op, key[1])
  BY FetchOperation
<1> HIDE DEF o
<1>6. given = A!Passed(o, ByPosition(o, args))
  OBVIOUS
<1> HIDE DEF given
<1>7. DOMAIN given = Parameters(o) \cap DOMAIN args
  BY <1>6, PassedIs
<1>8. ASSUME NEW x \in Parameters(o) \cap DOMAIN args PROVE given[x] = args[x]
  BY <1>6, PassedAt, SMT
<1>9. /\ DOMAIN args \ {"name"} \subseteq DOMAIN passed /\ DOMAIN passed \subseteq DOMAIN args
      /\ op # "create" => DOMAIN passed = DOMAIN args
      /\ \A x \in DOMAIN passed : passed[x] = args[x]
  <2>1. CASE client = "axios"
    BY <1>3, <1>4, <1>7, <1>8, <2>1 DEF AxiosShape
  <2>2. CASE client # "axios"
    BY <2>2
  <2> QED BY <2>1, <2>2
<1>10. "body" \in o.required => "body" \in DOMAIN args
  BY <1>1, <1>9
<1>11. /\ op \in {"create", "replace", "replaceStatus"} => "body" \in DOMAIN args
       /\ op \in {"patch", "patchStatus"} /\ client = "axios" => "body" \in DOMAIN args
  BY <1>4, <1>5, <1>10 DEF AxiosShape, FetchShape, HasBody
<1>12. client = "axios" => path = Path(op, key[1], args["namespace"], args["name"])
  <2> SUFFICES ASSUME client = "axios"
               PROVE  A!pathOf(o, passed) = Path(op, key[1], args["namespace"], args["name"])
    OBVIOUS
  <2>1. Shape(o, op, key[1])
    BY <1>4 DEF AxiosShape
  <2> HIDE DEF passed
  <2>2. A!pathOf(o, passed) = Path(op, key[1], passed["namespace"], passed["name"])
    BY <1>2, <2>1, AxiosPath, Zenon
  <2>3. CASE op = "listForAllNamespaces"
    BY <2>2, <2>3 DEF Path
  <2>4. CASE op \in {"list", "create", "deleteCollection"}
    <3>1. "namespace" \in DOMAIN passed
      BY <1>3, <1>9, <2>4 DEF Where, Named
    <3> QED BY <1>9, <2>2, <2>4, <3>1 DEF Path
  <2>5. CASE op \notin {"list", "create", "deleteCollection", "listForAllNamespaces"}
    <3>1. {"namespace", "name"} \subseteq DOMAIN passed
      BY <1>3, <1>9, <2>5 DEF Where, Named
    <3> QED BY <1>9, <2>2, <3>1
  <2> QED BY <2>3, <2>4, <2>5
<1> HIDE DEF passed, path, c
<1>13. /\ c.phase = "called" /\ c.client = client /\ c.op = op /\ c.kind = key[1]
       /\ c.args = args /\ c.passed = passed /\ c.path = path
       /\ c = [phase |-> "called", client |-> c.client, op |-> c.op, kind |-> c.kind,
               args |-> c.args, passed |-> c.passed, path |-> c.path]
  BY <1>1
<1>14. ArgsOK(c) /\ BodyOK(server, c)
  BY <1>11, <1>13, GivenArgs
<1>15. CalledOK(c)
  BY <1>9, <1>12, <1>13 DEF CalledOK
<1> QED BY <1>13, <1>14, <1>15 DEF CallOK

\* A call that is made keeps the invariant.
LEMMA CallKeeps == ASSUME IInv, NEW p \in Programs, Call(p) PROVE IInv'
<1>1. PICK client \in Clients, op \in Operations, key \in Keys :
        /\ op \in {"replace", "replaceStatus"} => memory[p] # Nothing /\ memory[p].key = key
        /\ \E args \in GivenTo(p, op, key) :
            calls' = [calls EXCEPT ![p] = Taken(client, op, key, args)]
  BY DEF Call
<1>2. PICK args \in GivenTo(p, op, key) :
        calls' = [calls EXCEPT ![p] = Taken(client, op, key, args)]
  BY <1>1
<1>3. client \in {"axios", "fetch"} /\ op \in EveryOperation
  BY ClientsAssumption DEF ClientsAssumption
<1>4. CallOK(server, Taken(client, op, key, args))
  BY <1>1, <1>3, Takes
<1>5. Counted' /\ losses' \in Nat /\ losses <= losses' /\ UNCHANGED <<server, adrift, memory>>
  BY ClientsAssumption DEF ClientsAssumption, Call, IInv, Counted
<1> QED BY <1>2, <1>4, <1>5, OnlyCall, Zenon

\* The object that is passed as the body changes: nothing of the call that its request
\* depends on but the spec of the body.
LEMMA ChangeBodyKeeps == ASSUME IInv, NEW p \in Programs, ChangeBody(p) PROVE IInv'
<1> DEFINE c == calls[p]
<1>1. c.phase = "called" /\ c.op \in {"create", "replace"}
      /\ UNCHANGED <<server, adrift, memory, made, losses, writes>>
  BY DEF ChangeBody, counters
<1>2. PICK s \in Specs :
        calls' = [calls EXCEPT ![p].args["body"].spec = s, ![p].passed["body"].spec = s]
  BY DEF ChangeBody
<1>3. ArgsOK(c) /\ BodyOK(server, c) /\ CalledOK(c)
  BY <1>1, UnderWay DEF IInv
<1> DEFINE body == [c.args["body"] EXCEPT !.spec = s]
           args == [c.args EXCEPT !["body"] = body]
           passed == [c.passed EXCEPT !["body"] = [c.passed["body"] EXCEPT !.spec = s]]
           with == [c EXCEPT !.args = args]
           d == [with EXCEPT !.passed = passed]
<1>4. calls' = [calls EXCEPT ![p] = d]
  BY <1>2
<1>5. /\ "body" \in DOMAIN c.args /\ "body" \in DOMAIN c.passed
      /\ c.passed["body"] = c.args["body"] /\ c.args["body"] \in Object
  BY <1>1, <1>3 DEF ArgsOK, CalledOK
<1>6. /\ body \in Object /\ body.name = c.args["body"].name
      /\ body.status = c.args["body"].status /\ body.version = c.args["body"].version
  BY <1>5 DEF Object
<1>7. /\ DOMAIN args = DOMAIN c.args /\ args["body"] = body
      /\ \A x \in DOMAIN c.args : x # "body" => args[x] = c.args[x]
  BY <1>5
<1>8. /\ DOMAIN passed = DOMAIN c.passed /\ passed["body"] = body
      /\ \A x \in DOMAIN c.passed : x # "body" => passed[x] = c.passed[x]
  BY <1>5
<1>9. c = [phase |-> "called", client |-> c.client, op |-> c.op, kind |-> c.kind,
           args |-> c.args, passed |-> c.passed, path |-> c.path]
  BY <1>3 DEF CalledOK
<1> HIDE DEF body, args, passed, c
<1>10. /\ d.phase = "called" /\ d.client = c.client /\ d.op = c.op /\ d.kind = c.kind
       /\ d.args = args /\ d.passed = passed /\ d.path = c.path
       /\ d = [phase |-> "called", client |-> d.client, op |-> d.op, kind |-> d.kind,
               args |-> d.args, passed |-> d.passed, path |-> d.path]
  <2>1. with = [phase |-> "called", client |-> c.client, op |-> c.op, kind |-> c.kind,
                args |-> args, passed |-> c.passed, path |-> c.path]
    BY <1>9
  <2> HIDE DEF with
  <2>2. d = [phase |-> "called", client |-> c.client, op |-> c.op, kind |-> c.kind,
             args |-> args, passed |-> passed, path |-> c.path]
    BY <2>1
  <2> QED BY <2>2
<1> HIDE DEF d
<1>11. {"namespace", "name"} \subseteq DOMAIN c.args
  BY <1>1, <1>3 DEF ArgsOK, Where, Named
<1>12. args["namespace"] = c.args["namespace"] /\ args["name"] = c.args["name"]
  BY <1>7, <1>11
<1>13. ArgsOK(d)
  BY <1>1, <1>3, <1>5, <1>6, <1>7, <1>10, <1>12 DEF ArgsOK
<1>14. BodyOK(server, d)
  BY <1>1, <1>3, <1>6, <1>7, <1>10, <1>12 DEF BodyOK
<1>15. CalledOK(d)
  BY <1>3, <1>7, <1>8, <1>10, <1>12 DEF CalledOK
<1>16. CallOK(server, d)
  BY <1>10, <1>13, <1>14, <1>15 DEF CallOK
<1>17. Counted' /\ losses' \in Nat /\ losses <= losses'
  BY <1>1 DEF IInv, Counted
<1> QED BY <1>1, <1>4, <1>16, <1>17, OnlyCall, Zenon

\* The request asks for what the call means.
LEMMA Requested ==
  ASSUME NEW c, ArgsOK(c), CalledOK(c)
  PROVE  LET operation == operationOf(c.client, c.op, c.kind)
             request == IF c.client = "axios"
                        THEN A!requestOf(operation, c.path, c.passed)
                        ELSE F!requestOf(operation, c.passed)
         IN /\ Decode(request) = IntentOf(c)
            /\ request.method \in {"POST", "PUT"} => request.body \in Object
<1>1. CASE c.client = "axios"
  BY <1>1, AxiosRequest, Understood
<1>2. CASE c.client = "fetch"
  BY <1>2, FetchRequest, Understood
<1> QED BY <1>1, <1>2 DEF ArgsOK

\* A request that is made of the arguments keeps it.
LEMMA SendKeeps == ASSUME IInv, NEW p \in Programs, Send(p) PROVE IInv'
<1> DEFINE c == calls[p]
           operation == operationOf(c.client, c.op, c.kind)
           request == IF c.client = "axios"
                      THEN A!requestOf(operation, c.path, c.passed)
                      ELSE F!requestOf(operation, c.passed)
           d == [phase |-> "sent", client |-> c.client, op |-> c.op, kind |-> c.kind,
                 args |-> c.args, request |-> request]
<1>1. c.phase = "called" /\ UNCHANGED <<server, adrift, memory, made, losses, writes>>
      /\ calls' = [calls EXCEPT ![p] = d]
  BY DEF Send, counters
<1>2. ArgsOK(c) /\ BodyOK(server, c) /\ CalledOK(c)
  BY <1>1, UnderWay DEF IInv
<1>3. /\ Decode(request) = IntentOf(c)
      /\ request.method \in {"POST", "PUT"} => request.body \in Object
  BY <1>2, Requested
<1> HIDE DEF request, c
<1>4. Same(c, d) /\ d.phase = "sent" /\ d.request = request
  BY DEF Same
<1> HIDE DEF d
<1>5. ArgsOK(d) /\ BodyOK(server, d) /\ RequestOK(d)
  BY <1>2, <1>3, <1>4, SameCall DEF RequestOK
<1>6. CallOK(server, d)
  BY <1>4, <1>5 DEF CallOK
<1>7. Counted' /\ losses' \in Nat /\ losses <= losses'
  BY <1>1 DEF IInv, Counted
<1> QED BY <1>1, <1>6, <1>7, OnlyCall, Zenon

\* Serving a request is what the call means.
LEMMA Answers ==
  ASSUME NEW s, ServerOK(s), NEW c, ArgsOK(c), BodyOK(s, c), RequestOK(c)
  PROVE  LET effect == Effect(s, Decode(c.request)) IN
         /\ effect = Effect(s, IntentOf(c))
         /\ ServerOK(effect.server) /\ Moved(s, effect.server)
         /\ c.op \in {"read", "readStatus"} /\ effect.answer.code = "ok" =>
              /\ effect.answer.found # {}
              /\ \A o \in effect.answer.found : AsRead(effect.server, KeyOf(IntentOf(c)), o)
<1> DEFINE i == IntentOf(c)
           effect == Effect(s, i)
<1>1. Effect(s, Decode(c.request)) = effect
  BY DEF RequestOK
<1>2. IntentOK(i) /\ (c.op \in {"read", "readStatus"} => i.verb = "get")
  BY Meant
<1> HIDE DEF i
<1>3. ServerOK(effect.server) /\ Moved(s, effect.server)
  BY <1>2, EffectMoves
<1>4. ASSUME c.op \in {"read", "readStatus"}, effect.answer.code = "ok"
      PROVE  /\ effect.answer.found # {}
             /\ \A o \in effect.answer.found : AsRead(effect.server, KeyOf(i), o)
  <2>1. /\ KeyOf(i) \in Keys /\ s.objects[KeyOf(i)] # Absent
        /\ effect.answer.found = {s.objects[KeyOf(i)]}
    BY <1>2, <1>4, EffectGet
  <2>2. /\ s.objects[KeyOf(i)] \in Object
        /\ s.objects[KeyOf(i)].version <= s.version
    BY <2>1, ServerAt
  <2>3. AsRead(s, KeyOf(i), s.objects[KeyOf(i)])
    BY <2>1, <2>2 DEF AsRead
  <2> HIDE DEF effect
  <2>4. AsRead(effect.server, KeyOf(i), s.objects[KeyOf(i)])
    BY <1>3, <2>3, AsReadStays
  <2> QED BY <2>1, <2>4
<1> HIDE DEF effect
<1>5. /\ Effect(s, Decode(c.request)) = effect
      /\ ServerOK(effect.server) /\ Moved(s, effect.server)
      /\ c.op \in {"read", "readStatus"} /\ effect.answer.code = "ok" =>
              /\ effect.answer.found # {}
              /\ \A o \in effect.answer.found : AsRead(effect.server, KeyOf(i), o)
  BY <1>1, <1>3, <1>4
<1> QED BY <1>5, Zenon DEF effect, i

\* What is late stays understood while the server goes on.
LEMMA LateStays ==
  ASSUME IInv, ServerOK(server'), Moved(server, server'), NEW late \in adrift,
         adrift' \subseteq adrift, losses' = losses
  PROVE  LateOK(late)'
<1>1. LateOK(late)
  BY DEF IInv
<1>2. BodyOK(server', late.call)
  BY <1>1, OnlyServer
<1> QED BY <1>1, <1>2 DEF LateOK

\* A request that is served keeps it: what is answered is what is there then.
LEMMA ServeKeeps == ASSUME IInv, NEW p \in Programs, Serve(p) PROVE IInv'
<1> DEFINE c == calls[p]
           effect == Effect(server, Decode(c.request))
           d == [phase |-> "served", client |-> c.client, op |-> c.op, kind |-> c.kind,
                 args |-> c.args, request |-> c.request, answer |-> effect.answer]
<1>1. /\ c.phase = "sent" /\ UNCHANGED <<adrift, memory, made, losses, writes>>
      /\ server' = effect.server /\ calls' = [calls EXCEPT ![p] = d]
  BY DEF Serve, counters
<1>2. ServerOK(server) /\ ArgsOK(c) /\ BodyOK(server, c) /\ RequestOK(c)
  BY <1>1, UnderWay DEF IInv
<1>3. /\ ServerOK(effect.server) /\ Moved(server, effect.server)
      /\ c.op \in {"read", "readStatus"} /\ effect.answer.code = "ok" =>
           /\ effect.answer.found # {}
           /\ \A o \in effect.answer.found : AsRead(effect.server, KeyOf(IntentOf(c)), o)
  BY <1>2, Answers
<1> HIDE DEF effect, c
<1>4. Same(c, d) /\ d.phase = "served" /\ d.request = c.request /\ d.answer = effect.answer
  BY DEF Same
<1> HIDE DEF d
<1>5. BodyOK(effect.server, c)
  BY <1>2, <1>3, BodyStays
<1>6. ArgsOK(d) /\ IntentOf(d) = IntentOf(c) /\ BodyOK(effect.server, d)
  BY <1>2, <1>4, <1>5, SameCall
<1>7. RequestOK(d)
  BY <1>2, <1>4, <1>6 DEF RequestOK
<1>8. AnswerOK(effect.server, d)
  BY <1>3, <1>4, <1>6 DEF AnswerOK, Same
<1>9. CallOK(effect.server, d)
  BY <1>4, <1>6, <1>7, <1>8 DEF CallOK
<1>10. DOMAIN calls' = Programs /\ \A q \in Programs : CallOK(server', calls'[q])
  BY <1>1, <1>3, <1>9, OneCall
<1>11. \A q \in Programs : MemoryOK(server', memory[q])
  BY <1>1, <1>3, OnlyServer
<1>12. \A late \in adrift : LateOK(late)'
  BY <1>1, <1>3, LateStays
<1>13. Counted' /\ ServerOK(server') /\ DOMAIN memory' = Programs
  BY <1>1, <1>3 DEF IInv, Counted
<1> QED BY <1>1, <1>10, <1>11, <1>12, <1>13 DEF IInv

\* An answer that arrives keeps it: what is remembered is what was answered.
LEMMA ReturnKeeps == ASSUME IInv, NEW p \in Programs, Return(p) PROVE IInv'
<1> DEFINE c == calls[p]
           o == CHOOSE o \in c.answer.found : TRUE
           m == [key |-> KeyOf(Decode(c.request)), object |-> o]
<1>1. /\ c.phase = "served" /\ UNCHANGED <<server, adrift, made, losses, writes>>
      /\ calls' = [calls EXCEPT ![p] = Idle]
  BY DEF Return, counters
<1>2. \/ memory' = memory
      \/ /\ c.op \in {"read", "readStatus"} /\ c.answer.code = "ok"
         /\ memory' = [memory EXCEPT ![p] = m]
  BY DEF Return
<1>3. RequestOK(c) /\ AnswerOK(server, c) /\ ServerOK(server)
  BY <1>1, UnderWay DEF IInv
<1>4. ASSUME c.op \in {"read", "readStatus"}, c.answer.code = "ok" PROVE MemoryOK(server, m)
  <2>1. o \in c.answer.found /\ AsRead(server, KeyOf(IntentOf(c)), o)
    BY <1>3, <1>4 DEF AnswerOK
  <2> HIDE DEF o
  <2>2. m.key = KeyOf(IntentOf(c)) /\ m.object = o
    BY <1>3 DEF RequestOK
  <2> QED BY <2>1, <2>2 DEF MemoryOK
<1> HIDE DEF m, c
<1>5. DOMAIN memory' = Programs /\ \A q \in Programs : MemoryOK(server, memory'[q])
  <2>1. CASE memory' = memory
    BY <2>1 DEF IInv
  <2>2. CASE memory' # memory
    <3>1. MemoryOK(server, m) /\ memory' = [memory EXCEPT ![p] = m]
      BY <1>2, <1>4, <2>2
    <3>2. DOMAIN memory = Programs /\ \A q \in Programs : MemoryOK(server, memory[q])
      BY DEF IInv
    <3> QED BY <3>1, <3>2
  <2> QED BY <2>1, <2>2
<1>6. Moved(server, server) /\ CallOK(server, Idle)
  BY DEF Moved, CallOK
<1>7. DOMAIN calls' = Programs /\ \A q \in Programs : CallOK(server, calls'[q])
  BY <1>1, <1>3, <1>6, OneCall
<1>8. \A late \in adrift : LateOK(late)'
  BY <1>1, <1>3, <1>6, LateStays
<1>9. Counted'
  BY <1>1 DEF IInv, Counted
<1> QED BY <1>1, <1>3, <1>5, <1>7, <1>8, <1>9 DEF IInv

\* A request that is lost, or is late from now on, keeps it: its number is new.
LEMMA LoseRequestKeeps == ASSUME IInv, NEW p \in Programs, LoseRequest(p) PROVE IInv'
<1>1. PICK new : new = [by |-> p, no |-> losses, call |-> calls[p]]
  OBVIOUS
<1>2. /\ calls[p].phase = "sent" /\ losses < MaxLosses /\ losses' = losses + 1
      /\ UNCHANGED <<server, memory, made, writes>> /\ adrift' \in {adrift, adrift \cup {new}}
      /\ calls' = [calls EXCEPT ![p] = Idle]
  BY <1>1 DEF LoseRequest
<1>3. losses \in Nat /\ losses' \in Nat /\ losses <= losses' /\ Counted'
  BY <1>2, ClientsAssumption DEF IInv, Counted, ClientsAssumption
<1>4. ServerOK(server) /\ Moved(server, server) /\ CallOK(server, Idle)
  BY DEF Moved, CallOK, IInv
<1>5. DOMAIN calls' = Programs /\ \A q \in Programs : CallOK(server, calls'[q])
  BY <1>2, <1>4, OneCall
<1>6. ArgsOK(calls[p]) /\ BodyOK(server, calls[p]) /\ RequestOK(calls[p])
  BY <1>2, UnderWay DEF IInv
<1>7. /\ new = [by |-> new.by, no |-> new.no, call |-> new.call]
      /\ new.by = p /\ new.no = losses /\ new.call = calls[p]
  BY <1>1
<1>8. ASSUME NEW late \in adrift PROVE LateOK(late)'
  <2>1. LateOK(late)
    BY DEF IInv
  <2>2. late.no \in Nat /\ late.no < losses
    BY <2>1 DEF LateOK
  <2>3. \A other \in adrift' : other.no = late.no => other = late
    BY <1>2, <1>3, <1>7, <2>1, <2>2 DEF LateOK
  <2> QED BY <1>2, <1>3, <2>1, <2>2, <2>3 DEF LateOK
<1>9. ASSUME new \in adrift' PROVE LateOK(new)'
  <2>1. \A other \in adrift : other.no # losses
    BY <1>3 DEF IInv, LateOK
  <2>2. \A other \in adrift' : other.no = new.no => other = new
    BY <1>2, <1>7, <2>1
  <2> QED BY <1>2, <1>3, <1>6, <1>7, <2>2 DEF LateOK
<1>10. \A late \in adrift' : LateOK(late)'
  BY <1>2, <1>8, <1>9
<1> QED BY <1>2, <1>3, <1>4, <1>5, <1>10 DEF IInv

\* A response that is lost keeps it.
LEMMA LoseResponseKeeps == ASSUME IInv, NEW p \in Programs, LoseResponse(p) PROVE IInv'
<1>1. /\ losses < MaxLosses /\ losses' = losses + 1
      /\ UNCHANGED <<server, adrift, memory, made, writes>>
      /\ calls' = [calls EXCEPT ![p] = Idle]
  BY DEF LoseResponse
<1>2. losses' \in Nat /\ losses <= losses' /\ Counted'
  BY <1>1, ClientsAssumption DEF IInv, Counted, ClientsAssumption
<1>3. CallOK(server, Idle)
  BY DEF CallOK
<1> QED BY <1>1, <1>2, <1>3, OnlyCall, Zenon

\* A late request that is served keeps it.
LEMMA ServeLateKeeps == ASSUME IInv, ServeLate PROVE IInv'
<1>1. PICK late \in adrift : /\ server' = Effect(server, Decode(late.call.request)).server
                             /\ adrift' = adrift \ {late}
  BY DEF ServeLate
<1>2. UNCHANGED <<calls, memory, made, losses, writes>>
  BY DEF ServeLate, counters
<1>3. ServerOK(server) /\ ArgsOK(late.call) /\ BodyOK(server, late.call) /\ RequestOK(late.call)
  BY DEF IInv, LateOK
<1>4. ServerOK(server') /\ Moved(server, server')
  BY <1>1, <1>3, Answers
<1>5. \A p \in Programs : CallOK(server', calls[p]) /\ MemoryOK(server', memory[p])
  BY <1>4, OnlyServer
<1>6. \A other \in adrift' : LateOK(other)'
  BY <1>1, <1>2, <1>4, LateStays
<1>7. Counted' /\ DOMAIN calls' = Programs /\ DOMAIN memory' = Programs
  BY <1>2 DEF IInv, Counted
<1> QED BY <1>2, <1>4, <1>5, <1>6, <1>7 DEF IInv

\* The operator keeps it.
LEMMA OperatorWritesKeeps == ASSUME IInv, OperatorWrites PROVE IInv'
<1>1. PICK key \in Keys : \E o \in {server.objects[key]} \ {Absent} : \E s \in Statuses :
        server' = Stored(server, key, [o EXCEPT !.status = s])
  BY DEF OperatorWrites
<1>2. PICK o \in {server.objects[key]} \ {Absent}, s \in Statuses :
        server' = Stored(server, key, [o EXCEPT !.status = s])
  BY <1>1
<1>3. UNCHANGED <<calls, adrift, memory, made, losses>> /\ writes' = writes + 1
      /\ writes < MaxWrites
  BY DEF OperatorWrites
<1>4. ServerOK(server)
  BY DEF IInv
<1>5. o \in Object /\ o.name = key[3]
  BY <1>4, ServerAt
<1>6. [o EXCEPT !.status = s] \in Object /\ [o EXCEPT !.status = s].name = key[3]
  BY <1>5 DEF Object
<1>7. ServerOK(server') /\ Moved(server, server')
  BY <1>2, <1>4, <1>6, StoredMoves
<1>8. \A p \in Programs : CallOK(server', calls[p]) /\ MemoryOK(server', memory[p])
  BY <1>7, OnlyServer
<1>9. \A late \in adrift' : LateOK(late)'
  BY <1>3, <1>7, LateStays
<1>10. Counted' /\ DOMAIN calls' = Programs /\ DOMAIN memory' = Programs
  BY <1>3, ClientsAssumption DEF IInv, Counted, ClientsAssumption
<1> QED BY <1>3, <1>7, <1>8, <1>9, <1>10 DEF IInv

\* The invariant is inductive.
LEMMA Keeps == IInv /\ [Next]_vars => IInv'
<1> SUFFICES ASSUME IInv, [Next]_vars PROVE IInv'
  OBVIOUS
<1>1. ASSUME NEW p \in Programs, Call(p) PROVE IInv'
  BY <1>1, CallKeeps
<1>2. ASSUME NEW p \in Programs, ChangeBody(p) PROVE IInv'
  BY <1>2, ChangeBodyKeeps
<1>3. ASSUME NEW p \in Programs, Send(p) PROVE IInv'
  BY <1>3, SendKeeps
<1>4. ASSUME NEW p \in Programs, Serve(p) PROVE IInv'
  BY <1>4, ServeKeeps
<1>5. ASSUME NEW p \in Programs, Return(p) PROVE IInv'
  BY <1>5, ReturnKeeps
<1>6. ASSUME NEW p \in Programs, LoseRequest(p) PROVE IInv'
  BY <1>6, LoseRequestKeeps
<1>7. ASSUME NEW p \in Programs, LoseResponse(p) PROVE IInv'
  BY <1>7, LoseResponseKeeps
<1>8. CASE ServeLate
  BY <1>8, ServeLateKeeps
<1>9. CASE OperatorWrites
  BY <1>9, OperatorWritesKeeps
<1>10. CASE UNCHANGED vars
  BY <1>10 DEF vars, IInv, Counted, LateOK
<1> QED BY <1>1, <1>2, <1>3, <1>4, <1>5, <1>6, <1>7, <1>8, <1>9, <1>10 DEF Next

\* In every state of every behaviour: the objects at the server are under their own
\* names, requests that need a body have an object, what is remembered is an object.
THEOREM TypeCorrect == Spec => []TypeOK
<1>1. Init => IInv
  BY Starts
<1>2. IInv /\ [Next]_vars => IInv'
  BY Keeps
<1>3. IInv => TypeOK
  <2> SUFFICES ASSUME IInv PROVE TypeOK
    OBVIOUS
  <2>1. ASSUME NEW k \in Keys, server.objects[k] # Absent
        PROVE  server.objects[k] \in Object /\ server.objects[k].name = k[3]
    BY <2>1, ServerAt DEF IInv
  <2>2. ASSUME NEW p \in InFlight, calls[p].request.method \in {"POST", "PUT"}
        PROVE  calls[p].request.body \in Object
    BY <2>2, UnderWay DEF IInv, InFlight, RequestOK
  <2>3. ASSUME NEW p \in Programs, memory[p] # Nothing
        PROVE  memory[p].key \in Keys /\ memory[p].object \in Object
    BY <2>3 DEF IInv, MemoryOK, AsRead
  <2> QED BY <2>1, <2>2, <2>3 DEF TypeOK, IInv, Counted
<1> QED BY <1>1, <1>2, <1>3, PTL DEF Spec

\* A replacement takes effect under the key that its arguments name.
LEMMA ReplaceKey ==
  ASSUME NEW c, ArgsOK(c), c.op \in {"replace", "replaceStatus"}, KeyOf(IntentOf(c)) \in Keys
  PROVE  KeyOf(IntentOf(c)) = <<c.kind, c.args["namespace"], c.args["name"]>>
<1> DEFINE i == IntentOf(c)
<1>1. i.verb = "update" /\ i.kind = c.kind
  BY Meant
<1>2. /\ i.name = c.args["name"]
      /\ i.namespace = (IF c.client = "axios" THEN c.args["namespace"] ELSE "{namespace}")
  BY DEF IntentOf, Named
<1> HIDE DEF i
<1>3. KeyOf(i) = <<c.kind, i.namespace, c.args["name"]>>
  BY <1>1, <1>2 DEF KeyOf
<1>4. i.namespace \in Namespaces
  BY <1>3 DEF Keys, i
<1>5. i.namespace # "{namespace}"
  BY <1>4, WordsAssumption DEF WordsAssumption
<1> QED BY <1>2, <1>3, <1>5 DEF i

\* A request that changes something at the server is no dry run and no read, and a
\* replacement that does finds what its program had read.
LEMMA Changes ==
  ASSUME NEW s, ServerOK(s), NEW c, ArgsOK(c), BodyOK(s, c), RequestOK(c),
         Effect(s, Decode(c.request)).server # s
  PROVE  LET key == KeyOf(IntentOf(c)) IN
         /\ ~Harmless(c)
         /\ c.op = "replace" => s.objects[key].status = c.args["body"].status
         /\ c.op = "replaceStatus" => s.objects[key].spec = c.args["body"].spec
<1> DEFINE i == IntentOf(c)
<1>1. Effect(s, i).server # s
  BY DEF RequestOK
<1>2. i.verb \in {"get", "list"} <=> ~Writes(c.op)
  BY Meant
<1>3. i.dry = ("dryRun" \in DOMAIN c.args)
  BY Meant, Zenon
<1>4. c.op \in {"replace", "replaceStatus"} => i.verb = "update" /\ i.body = c.args["body"]
  BY Meant
<1>5. KeyOf(i) \in Keys /\ c.op \in {"replace", "replaceStatus"} =>
        KeyOf(i) = <<c.kind, c.args["namespace"], c.args["name"]>>
  BY ReplaceKey
<1> HIDE DEF i
<1>6. ~("dryRun" \in DOMAIN c.args)
  BY <1>1, <1>3, EffectHarmless, Zenon
<1>7. Writes(c.op)
  BY <1>1, <1>2, EffectHarmless
<1>8. ASSUME c.op \in {"replace", "replaceStatus"}
      PROVE  /\ c.op = "replace" => s.objects[KeyOf(i)].status = c.args["body"].status
             /\ c.op = "replaceStatus" => s.objects[KeyOf(i)].spec = c.args["body"].spec
  <2>1. /\ KeyOf(i) \in Keys /\ s.objects[KeyOf(i)] # Absent
        /\ s.objects[KeyOf(i)].version = i.body.version
    BY <1>1, <1>4, <1>8, EffectUpdate
  <2> QED BY <1>4, <1>5, <1>8, <2>1 DEF BodyOK
<1> QED BY <1>6, <1>7, <1>8 DEF Harmless, i

\* Which requests a step may serve.
Served == {calls[p] : p \in {q \in Programs : calls[q].phase = "sent"}}
          \cup {late.call : late \in adrift}
\* The server changes when the operator writes, a request is served, or a late one is.
LEMMA ServerSteps ==
  ASSUME IInv, [Next]_vars, server' # server
  PROVE  \/ /\ writes' # writes /\ calls' = calls /\ adrift' = adrift
         \/ \E p \in Programs :
              /\ calls[p].phase = "sent" /\ adrift' = adrift
              /\ server' = Effect(server, Decode(calls[p].request)).server
              /\ \A q \in Programs : q # p => calls'[q] = calls[q]
         \/ \E late \in adrift :
              /\ adrift' = adrift \ {late} /\ calls' = calls
              /\ server' = Effect(server, Decode(late.call.request)).server
<1>1. ASSUME NEW p \in Programs, Serve(p)
      PROVE  /\ calls[p].phase = "sent" /\ adrift' = adrift
             /\ server' = Effect(server, Decode(calls[p].request)).server
             /\ \A q \in Programs : q # p => calls'[q] = calls[q]
  BY <1>1 DEF Serve, IInv
<1>2. ASSUME ServeLate
      PROVE  \E late \in adrift :
              /\ adrift' = adrift \ {late} /\ calls' = calls
              /\ server' = Effect(server, Decode(late.call.request)).server
  BY <1>2 DEF ServeLate
<1>3. ASSUME OperatorWrites PROVE writes' # writes /\ calls' = calls /\ adrift' = adrift
  BY <1>3 DEF OperatorWrites, IInv, Counted
<1>4. ASSUME NEW p \in Programs,
             Call(p) \/ ChangeBody(p) \/ Send(p) \/ Return(p) \/ LoseRequest(p) \/ LoseResponse(p)
      PROVE  server' = server
  BY <1>4 DEF Call, ChangeBody, Send, Return, LoseRequest, LoseResponse
<1>5. UNCHANGED vars => server' = server
  BY DEF vars
<1> QED BY <1>1, <1>2, <1>3, <1>4, <1>5 DEF Next

\* Whatever changes the server is the operator, or a request that is no read and has
\* no dryRun.
THEOREM DryRunsChangeNothing == Spec => DryRunChangesNothing
<1>1. ASSUME IInv, [Next]_vars, server' # server, writes' = writes
      PROVE  \E call \in Served : ~Harmless(call)
  <2>1. CASE \E p \in Programs :
              /\ calls[p].phase = "sent"
              /\ server' = Effect(server, Decode(calls[p].request)).server
    <3>1. PICK p \in Programs :
              /\ calls[p].phase = "sent"
              /\ server' = Effect(server, Decode(calls[p].request)).server
      BY <2>1
    <3>2. ~Harmless(calls[p])
      BY <1>1, <3>1, UnderWay, Changes DEF IInv
    <3> QED BY <3>1, <3>2 DEF Served
  <2>2. CASE \E late \in adrift : server' = Effect(server, Decode(late.call.request)).server
    <3>1. PICK late \in adrift : server' = Effect(server, Decode(late.call.request)).server
      BY <2>2
    <3>2. ~Harmless(late.call)
      BY <1>1, <3>1, Changes DEF IInv, LateOK
    <3> QED BY <3>1, <3>2 DEF Served
  <2> QED BY <1>1, <2>1, <2>2, ServerSteps
<1>2. IInv /\ [Next]_vars =>
        [server' # server /\ writes' = writes => \E call \in Served : ~Harmless(call)]_vars
  BY <1>1
<1>3. Init => IInv
  BY Starts
<1>4. IInv /\ [Next]_vars => IInv'
  BY Keeps
<1> QED BY <1>2, <1>3, <1>4, PTL DEF Spec, DryRunChangesNothing, Served

\* The calls that a step serves.
Taking ==
    {calls[p] : p \in {q \in Programs : calls[q].phase = "sent" /\ calls'[q].phase = "served"}}
        \cup {late.call : late \in adrift \ adrift'}

\* A replacement, at once or late, never overwrites what its program had not read.
THEOREM NoUpdateLost == Spec => NoLostUpdate
<1> DEFINE Kept(call) ==
             LET key == KeyOf(IntentOf(call)) IN
             server' # server =>
               /\ call.op = "replace" => server.objects[key].status = call.args["body"].status
               /\ call.op = "replaceStatus" => server.objects[key].spec = call.args["body"].spec
<1>1. ASSUME IInv, [Next]_vars, NEW call \in Taking PROVE Kept(call)
  <2> SUFFICES ASSUME server' # server PROVE Kept(call)
    OBVIOUS
  <2>1. CASE writes' # writes /\ calls' = calls /\ adrift' = adrift
    BY <2>1 DEF Taking
  <2>2. ASSUME NEW p \in Programs, calls[p].phase = "sent", adrift' = adrift,
               server' = Effect(server, Decode(calls[p].request)).server,
               \A q \in Programs : q # p => calls'[q] = calls[q]
        PROVE  Kept(call)
    <3>1. call = calls[p]
      BY <2>2 DEF Taking
    <3> QED BY <1>1, <2>2, <3>1, UnderWay, Changes DEF IInv
  <2>3. ASSUME NEW late \in adrift, adrift' = adrift \ {late}, calls' = calls,
               server' = Effect(server, Decode(late.call.request)).server
        PROVE  Kept(call)
    <3>1. call = late.call
      BY <2>3 DEF Taking
    <3> QED BY <1>1, <2>3, <3>1, Changes DEF IInv, LateOK
  <2> QED BY <1>1, <2>1, <2>2, <2>3, ServerSteps
<1>2. IInv /\ [Next]_vars => [\A call \in Taking : Kept(call)]_vars
  BY <1>1
<1>3. Init => IInv
  BY Starts
<1>4. IInv /\ [Next]_vars => IInv'
  BY Keeps
<1> QED BY <1>2, <1>3, <1>4, PTL DEF Spec, NoLostUpdate, Taking

--------------------------------------------------------------------------------
(* The promise of ApiStore. *)

\* What the server does of an intent is said in the same words there.
LEMMA SameServer ==
  /\ Promise!Keys = Keys /\ Promise!Object = Object /\ Promise!Absent = Absent
  /\ Promise!Idle = Idle
  /\ \A s, i : Promise!Effect(s, i) = Effect(s, i)
  /\ \A s, k, o : Promise!Stored(s, k, o) = Stored(s, k, o)
<1>1. Promise!Absent = Absent /\ Promise!NoBody = NoBody /\ Promise!NoStatus = NoStatus
      /\ Promise!Idle = Idle /\ Promise!Keys = Keys
  BY DEF Promise!Absent, Absent, Promise!NoBody, NoBody, Promise!NoStatus, NoStatus,
         Promise!Idle, Idle, Promise!Keys, Keys
<1>2. Promise!Object = Object
  BY <1>1 DEF Promise!Object, Object
<1>3. ASSUME NEW i PROVE Promise!KeyOf(i) = KeyOf(i)
  BY DEF Promise!KeyOf, KeyOf
<1>4. ASSUME NEW i PROVE Promise!Selected(i) = Selected(i)
  BY <1>1 DEF Promise!Selected, Selected
<1>5. ASSUME NEW i, NEW o PROVE Promise!Written(i, o) = Written(i, o)
  BY <1>1 DEF Promise!Written, Written
<1>6. ASSUME NEW s, NEW i PROVE Promise!Verdict(s, i) = Verdict(s, i)
  BY <1>1, <1>3 DEF Promise!Verdict, Verdict
<1>7. ASSUME NEW s, NEW k, NEW o PROVE Promise!Stored(s, k, o) = Stored(s, k, o)
  BY <1>1 DEF Promise!Stored, Stored
<1>8. ASSUME NEW s, NEW keys PROVE Promise!Removed(s, keys) = Removed(s, keys)
  BY <1>1 DEF Promise!Removed, Removed
<1>9. ASSUME NEW s, NEW i PROVE Promise!Changed(s, i) = Changed(s, i)
  BY <1>3, <1>4, <1>5, <1>7, <1>8, Zenon DEF Promise!Changed, Changed
<1>10. ASSUME NEW s, NEW i PROVE Promise!Found(s, i) = Found(s, i)
  BY <1>1, <1>3, <1>4 DEF Promise!Found, Found
<1>11. ASSUME NEW s, NEW i PROVE Promise!Effect(s, i) = Effect(s, i)
  BY <1>6, <1>9, <1>10, Zenon DEF Promise!Effect, Effect
<1> QED BY <1>1, <1>2, <1>7, <1>11

\* What a call means is one of the intents.
LEMMA Intended ==
  ASSUME NEW c, ArgsOK(c)
  PROVE  IntentOf(c) \in Promise!Intents
<1> DEFINE i == IntentOf(c)
<1>1. i.verb \in Verbs /\ i.kind \in Kinds
  BY Meant DEF IntentOK, ArgsOK
<1>2. i.namespace \in Namespaces \cup {"all", "{namespace}"}
  <2>1. c.op # "listForAllNamespaces" => c.args["namespace"] \in Namespaces
    BY DEF ArgsOK, Where
  <2> QED BY <2>1 DEF IntentOf
<1>3. i.name \in Names \cup {"none"}
  <2>1. Named(c.op) => c.args["name"] \in Names
    BY DEF ArgsOK, Where, Named
  <2> QED BY <2>1 DEF IntentOf
<1>4. i.status \in BOOLEAN /\ i.dry \in BOOLEAN
  <2>1. i.status = (c.op \in {"readStatus", "replaceStatus", "patchStatus"})
        /\ i.dry = ("dryRun" \in DOMAIN c.args)
    BY Zenon DEF IntentOf
  <2>2. (c.op \in {"readStatus", "replaceStatus", "patchStatus"}) \in BOOLEAN
        /\ ("dryRun" \in DOMAIN c.args) \in BOOLEAN
    BY SMT
  <2> QED BY <2>1, <2>2, Zenon
<1>5. i.selector \in {"none", "labelled"}
  BY DEF IntentOf, ArgsOK
<1>6. i.body \in {NoBody} \cup Object \cup [spec : Specs, status : Statuses]
  <2>1. IntentOK(i)
    BY Meant
  <2>2. i.verb \notin {"create", "update", "patch"} => i.body = NoBody
    BY DEF IntentOf
  <2> QED BY <2>1, <2>2 DEF IntentOK, Patches
<1>7. i = [verb |-> i.verb, kind |-> i.kind, namespace |-> i.namespace, name |-> i.name,
           status |-> i.status, dry |-> i.dry, selector |-> i.selector, body |-> i.body]
  BY DEF IntentOf
<1> HIDE DEF i
<1>8. Promise!Intents =
        [verb : Verbs, kind : Kinds, namespace : Namespaces \cup {"all", "{namespace}"},
         name : Names \cup {"none"}, status : BOOLEAN, dry : BOOLEAN,
         selector : {"none", "labelled"},
         body : {NoBody} \cup Object \cup [spec : Specs, status : Statuses]]
  BY SameServer DEF Promise!Intents, Promise!Verbs, Verbs, Promise!NoBody, NoBody
<1>9. i \in Promise!Intents
  BY <1>1, <1>2, <1>3, <1>4, <1>5, <1>6, <1>7, <1>8, Zenon
<1> QED BY <1>9 DEF i

\* A call seen as the promise sees it.
LEMMA AskedIs ==
  ASSUME NEW c
  PROVE  /\ c.phase \in {"idle", "called"} => AskedOf(c) = Idle
         /\ c.phase = "sent" => AskedOf(c) = [phase |-> "sent", intent |-> IntentOf(c)]
         /\ c.phase = "served" =>
              AskedOf(c) = [phase |-> "served", intent |-> IntentOf(c), answer |-> c.answer]
BY DEF AskedOf

\* One call changes, and so does what is asked by its program, or nothing that is asked.
LEMMA AskedMoves ==
  ASSUME IInv, NEW p \in Programs, NEW c, calls' = [calls EXCEPT ![p] = c]
  PROVE  /\ Asked \in [Programs -> {Asked[q] : q \in Programs}] /\ Asked[p] = AskedOf(calls[p])
         /\ Asked' = [Asked EXCEPT ![p] = AskedOf(c)]
         /\ AskedOf(c) = AskedOf(calls[p]) => Asked' = Asked
<1>1. Asked = [q \in Programs |-> AskedOf(calls[q])]
  BY DEF Asked
<1>2. Asked' = [q \in Programs |-> AskedOf(calls'[q])]
  BY DEF Asked
<1>3. \A q \in Programs : calls'[q] = IF q = p THEN c ELSE calls[q]
  BY DEF IInv
<1>4. Asked' = [q \in Programs |-> IF q = p THEN AskedOf(c) ELSE AskedOf(calls[q])]
  BY <1>2, <1>3
<1> QED BY <1>1, <1>4

\* What is late for the promise are the late requests.
LEMMA AdriftSame == ASSUME adrift' = adrift PROVE Adrift' = Adrift
BY DEF Adrift

\* The store that the promise starts with.
LEMMA StoreStarts == Init => Promise!StoreInit
<1> SUFFICES ASSUME Init PROVE Promise!StoreInit
  OBVIOUS
<1>1. server.objects \in [Keys -> Object \cup {Absent}]
  BY Starts DEF IInv, ServerOK, Servers
<1>2. \A p \in Programs : AskedOf(calls[p]) = Idle
  BY AskedIs DEF Init, Idle
<1>3. Asked = [p \in Programs |-> Idle]
  BY <1>2 DEF Asked
<1>4. Adrift = {}
  BY DEF Init, Adrift
<1> QED BY <1>1, <1>3, <1>4, SameServer DEF Promise!StoreInit

\* Each step is one of the promise, or none.
Unmoved == UNCHANGED <<server, Asked, Adrift>>

\* A call that is made asks for nothing yet.
LEMMA CallIsNone == ASSUME IInv, NEW p \in Programs, Call(p) PROVE Unmoved
<1>1. PICK client \in Clients, op \in Operations, key \in Keys :
        \E args \in GivenTo(p, op, key) :
            calls' = [calls EXCEPT ![p] = Taken(client, op, key, args)]
  BY DEF Call
<1>2. PICK args \in GivenTo(p, op, key) :
        calls' = [calls EXCEPT ![p] = Taken(client, op, key, args)]
  BY <1>1
<1>3. Taken(client, op, key, args).phase \in {"idle", "called"}
  BY DEF Taken, Idle
<1>4. calls[p].phase = "idle"
  BY DEF Call, Idle
<1>5. AskedOf(Taken(client, op, key, args)) = AskedOf(calls[p])
  BY <1>3, <1>4, AskedIs
<1>6. Asked' = Asked
  BY <1>2, <1>5, AskedMoves
<1>7. server' = server /\ adrift' = adrift
  BY DEF Call
<1> QED BY <1>6, <1>7, AdriftSame DEF Unmoved

\* Nor does a body that changes before its request is made.
LEMMA ChangeBodyIsNone == ASSUME IInv, NEW p \in Programs, ChangeBody(p) PROVE Unmoved
<1> DEFINE c == calls[p]
<1>1. /\ c.phase = "called" /\ c.op \in {"create", "replace"}
      /\ server' = server /\ adrift' = adrift
  BY DEF ChangeBody
<1>2. PICK s \in Specs :
        calls' = [calls EXCEPT ![p].args["body"].spec = s, ![p].passed["body"].spec = s]
  BY DEF ChangeBody
<1> DEFINE body == [c.args["body"] EXCEPT !.spec = s]
           args == [c.args EXCEPT !["body"] = body]
           passed == [c.passed EXCEPT !["body"] = [c.passed["body"] EXCEPT !.spec = s]]
           with == [c EXCEPT !.args = args]
           d == [with EXCEPT !.passed = passed]
<1>3. calls' = [calls EXCEPT ![p] = d]
  BY <1>2
<1>4. c = [phase |-> "called", client |-> c.client, op |-> c.op, kind |-> c.kind,
           args |-> c.args, passed |-> c.passed, path |-> c.path]
  BY <1>1, UnderWay DEF IInv, CalledOK
<1> HIDE DEF args, passed, c
<1>5. with.phase = "called" /\ "phase" \in DOMAIN with
  BY <1>4
<1> HIDE DEF with
<1>6. d.phase = "called"
  BY <1>5
<1> HIDE DEF d
<1>7. AskedOf(d) = AskedOf(c)
  BY <1>1, <1>6, AskedIs
<1>8. Asked' = Asked
  BY <1>3, <1>7, AskedMoves DEF c
<1> QED BY <1>1, <1>8, AdriftSame DEF Unmoved

\* The call asks when its request is made: for what its arguments are by then.
LEMMA SendIsAsk == ASSUME IInv, NEW p \in Programs, Send(p) PROVE Promise!Ask(p)
<1> DEFINE c == calls[p]
           operation == operationOf(c.client, c.op, c.kind)
           request == IF c.client = "axios"
                      THEN A!requestOf(operation, c.path, c.passed)
                      ELSE F!requestOf(operation, c.passed)
           d == [phase |-> "sent", client |-> c.client, op |-> c.op, kind |-> c.kind,
                 args |-> c.args, request |-> request]
<1>1. c.phase = "called" /\ server' = server /\ adrift' = adrift
      /\ calls' = [calls EXCEPT ![p] = d]
  BY DEF Send
<1>2. ArgsOK(c)
  BY <1>1, UnderWay DEF IInv
<1> HIDE DEF request
<1>3. Same(c, d) /\ d.phase = "sent"
  BY DEF Same
<1> HIDE DEF d
<1>4. AskedOf(d) = [phase |-> "sent", intent |-> IntentOf(c)]
  BY <1>3, AskedIs, SameCall
<1>5. IntentOf(c) \in Promise!Intents
  BY <1>2, Intended
<1>6. AskedOf(c) = Idle
  BY <1>1, AskedIs
<1>7. /\ Asked \in [Programs -> {Asked[q] : q \in Programs}] /\ Asked[p] = Idle
      /\ Asked' = [Asked EXCEPT ![p] = [phase |-> "sent", intent |-> IntentOf(c)]]
  BY <1>1, <1>4, <1>6, AskedMoves
<1>8. Asked'[p] = [phase |-> "sent", intent |-> IntentOf(c)]
  BY <1>7
<1>9. Adrift' = Adrift
  BY <1>1, AdriftSame
<1> HIDE DEF c
<1> QED BY <1>1, <1>5, <1>7, <1>8, <1>9, SameServer DEF Promise!Ask

\* It takes effect when its request is served.
LEMMA ServeIsTakeEffect == ASSUME IInv, NEW p \in Programs, Serve(p) PROVE Promise!TakeEffect(p)
<1> DEFINE c == calls[p]
           effect == Effect(server, Decode(c.request))
           d == [phase |-> "served", client |-> c.client, op |-> c.op, kind |-> c.kind,
                 args |-> c.args, request |-> c.request, answer |-> effect.answer]
<1>1. /\ c.phase = "sent" /\ adrift' = adrift
      /\ server' = effect.server /\ calls' = [calls EXCEPT ![p] = d]
  BY DEF Serve
<1>2. RequestOK(c)
  BY <1>1, UnderWay DEF IInv
<1>3. effect = Promise!Effect(server, IntentOf(c))
  BY <1>2, SameServer DEF RequestOK
<1> HIDE DEF effect
<1>4. Same(c, d) /\ d.phase = "served" /\ d.answer = effect.answer
  BY DEF Same
<1> HIDE DEF d
<1>5. AskedOf(d) = [phase |-> "served", intent |-> IntentOf(c), answer |-> effect.answer]
  BY <1>4, AskedIs, SameCall
<1>6. AskedOf(c) = [phase |-> "sent", intent |-> IntentOf(c)]
  BY <1>1, AskedIs
<1>7. /\ Asked[p] = AskedOf(c) /\ Asked' = [Asked EXCEPT ![p] = AskedOf(d)]
  BY <1>1, AskedMoves
<1>8. Adrift' = Adrift
  BY <1>1, AdriftSame
<1>9. Asked[p].phase = "sent" /\ Asked[p].intent = IntentOf(c)
  BY <1>6, <1>7
<1> HIDE DEF c
<1> QED BY <1>1, <1>3, <1>5, <1>7, <1>8, <1>9 DEF Promise!TakeEffect

\* A response that arrives answers it; one that is lost ends it too.
LEMMA ReturnIsAnswered ==
  ASSUME IInv, NEW p \in Programs, Return(p) \/ LoseResponse(p)
  PROVE  Promise!Answered(p)
<1>1. /\ calls[p].phase = "served" /\ server' = server /\ adrift' = adrift
      /\ calls' = [calls EXCEPT ![p] = Idle]
  BY DEF Return, LoseResponse
<1>2. AskedOf(Idle) = Idle
  BY AskedIs DEF Idle
<1>3. /\ Asked[p] = AskedOf(calls[p]) /\ Asked' = [Asked EXCEPT ![p] = Idle]
  BY <1>1, <1>2, AskedMoves
<1>4. Asked[p].phase = "served"
  BY <1>1, <1>3, AskedIs
<1>5. Adrift' = Adrift
  BY <1>1, AdriftSame
<1> QED BY <1>1, <1>3, <1>4, <1>5, SameServer DEF Promise!Answered

\* A request that is lost or late fails it.
LEMMA LoseRequestIsFailed ==
  ASSUME IInv, NEW p \in Programs, LoseRequest(p) PROVE Promise!Failed(p)
<1>1. /\ calls[p].phase = "sent" /\ server' = server /\ calls' = [calls EXCEPT ![p] = Idle]
      /\ adrift' \in {adrift, adrift \cup {[by |-> p, no |-> losses, call |-> calls[p]]}}
  BY DEF LoseRequest
<1>2. AskedOf(Idle) = Idle
  BY AskedIs DEF Idle
<1>3. /\ Asked[p] = AskedOf(calls[p]) /\ Asked' = [Asked EXCEPT ![p] = Idle]
  BY <1>1, <1>2, AskedMoves
<1>4. Asked[p].phase = "sent" /\ Asked[p].intent = IntentOf(calls[p])
  BY <1>1, <1>3, AskedIs
<1>5. CASE adrift' = adrift
  BY <1>1, <1>3, <1>4, <1>5, AdriftSame, SameServer DEF Promise!Failed
<1>6. CASE adrift' # adrift
  <2>1. PICK new : new = [by |-> p, no |-> losses, call |-> calls[p]]
    OBVIOUS
  <2>2. adrift' = adrift \cup {new}
    BY <1>1, <1>6, <2>1
  <2>3. Adrift' = Adrift \cup {AdriftOf(new)}
    BY <2>2 DEF Adrift
  <2>4. AdriftOf(new).by = p /\ AdriftOf(new).no = losses
        /\ AdriftOf(new).intent = IntentOf(calls[p])
    BY <2>1 DEF AdriftOf
  <2>5. AdriftOf(new) \notin Adrift
    <3>1. \A late \in adrift : AdriftOf(late).no # losses
      BY DEF IInv, Counted, LateOK, AdriftOf
    <3> QED BY <2>4, <3>1 DEF Adrift
  <2>6. AdriftOf(new) \in Adrift' \ Adrift
    BY <2>3, <2>5
  <2>7. \E call \in Adrift' \ Adrift :
          /\ call.by = p /\ call.intent = Asked[p].intent /\ Adrift' = Adrift \cup {call}
    BY <1>4, <2>3, <2>4, <2>6
  <2> QED BY <1>1, <1>3, <1>4, <2>7, SameServer DEF Promise!Failed
<1> QED BY <1>5, <1>6

\* A late request takes effect, and is gone.
LEMMA ServeLateIsTakeEffectLate == ASSUME IInv, ServeLate PROVE Promise!TakeEffectLate
<1>1. PICK late \in adrift : /\ server' = Effect(server, Decode(late.call.request)).server
                             /\ adrift' = adrift \ {late}
  BY DEF ServeLate
<1>2. Asked' = Asked
  BY DEF ServeLate, Asked
<1>3. RequestOK(late.call) /\ \A other \in adrift : other.no = late.no => other = late
  BY DEF IInv, LateOK
<1>4. AdriftOf(late).intent = IntentOf(late.call)
  BY DEF AdriftOf
<1>5. server' = Promise!Effect(server, AdriftOf(late).intent).server
  BY <1>1, <1>3, <1>4, SameServer DEF RequestOK
<1>6. \A other \in adrift : AdriftOf(other) = AdriftOf(late) => other = late
  BY <1>3 DEF AdriftOf
<1>7. Adrift' = Adrift \ {AdriftOf(late)} /\ AdriftOf(late) \in Adrift
  BY <1>1, <1>6 DEF Adrift
<1> QED BY <1>2, <1>5, <1>7 DEF Promise!TakeEffectLate

\* The operator is the one who writes elsewhere.
LEMMA OperatorWritesIsElseWritten == ASSUME IInv, OperatorWrites PROVE Promise!ElseWritten
<1>1. \E key \in Keys : \E o \in {server.objects[key]} \ {Absent} : \E s \in Statuses :
        server' = Stored(server, key, [o EXCEPT !.status = s])
  BY DEF OperatorWrites
<1>2. Asked' = Asked /\ Adrift' = Adrift
  BY DEF OperatorWrites, Asked, Adrift
<1>3. \E key \in Promise!Keys : \E o \in {server.objects[key]} \ {Promise!Absent} :
        \E s \in Statuses : server' = Promise!Stored(server, key, [o EXCEPT !.status = s])
  BY <1>1, SameServer
<1> QED BY <1>2, <1>3 DEF Promise!ElseWritten

\* All steps of the clients, the network and the server are steps of the promise.
LEMMA StoreSteps == IInv /\ [Next]_vars => [Promise!StoreNext]_(Promise!storeVars)
<1> SUFFICES ASSUME IInv, [Next]_vars
             PROVE  Promise!StoreNext \/ UNCHANGED Promise!storeVars
  OBVIOUS
<1>1. Unmoved => UNCHANGED Promise!storeVars
  BY DEF Unmoved, Promise!storeVars
<1>2. ASSUME NEW p \in Programs, Call(p) \/ ChangeBody(p) PROVE UNCHANGED Promise!storeVars
  BY <1>1, <1>2, CallIsNone, ChangeBodyIsNone
<1>3. ASSUME NEW p \in Programs,
             Send(p) \/ Serve(p) \/ Return(p) \/ LoseRequest(p) \/ LoseResponse(p)
      PROVE  Promise!StoreNext
  BY <1>3, SendIsAsk, ServeIsTakeEffect, ReturnIsAnswered, LoseRequestIsFailed
     DEF Promise!StoreNext
<1>4. CASE ServeLate
  BY <1>4, ServeLateIsTakeEffectLate DEF Promise!StoreNext
<1>5. CASE OperatorWrites
  BY <1>5, OperatorWritesIsElseWritten DEF Promise!StoreNext
<1>6. CASE UNCHANGED vars
  BY <1>6 DEF vars, Promise!storeVars, Asked, Adrift
<1> QED BY <1>2, <1>3, <1>4, <1>5, <1>6 DEF Next

\* The clients, the network and the server keep the promise: a call takes effect as its
\* arguments ask, once at most and at one moment, though its request is made in steps,
\* may be late, and passes by position, by path and by query what was given by name.
THEOREM PromiseKept == Spec => ImplementsStore
<1>1. Init => IInv
  BY Starts
<1>2. IInv /\ [Next]_vars => IInv'
  BY Keeps
<1>3. Init => Promise!StoreInit
  BY StoreStarts
<1>4. IInv /\ [Next]_vars => [Promise!StoreNext]_(Promise!storeVars)
  BY StoreSteps
<1> QED BY <1>1, <1>2, <1>3, <1>4, PTL DEF Spec, ImplementsStore, Promise!StoreSpec

================================================================================
