------------------------------- MODULE ModelTrip -------------------------------
(***************************************************************************)
(* A program keeps one document up to date through the client ts-fetch:    *)
(* it reads it (FromJSON), changes a field and writes the whole value back *)
(* (ToJSON), again and again.  Before it starts, the document may have     *)
(* lost a field, have a null or a text in its place, or have gained one    *)
(* that the model does not know.                                           *)
(***************************************************************************)
EXTENDS SdkModels, Naturals, FiniteSets, TLC

CONSTANTS
    Models,        \* the models to be checked
    MaxDeviations, \* bound: deviations of a document from a complete one
    MaxEdits,      \* bound: fields the program changes in one trip
    MaxTrips       \* bound: reads

ASSUME TripAssumption ==
    /\ Models \subseteq AllModels
    /\ MaxDeviations \in Nat /\ MaxEdits \in Nat /\ MaxTrips \in Nat

VARIABLES
    model,     \* the model of the document
    stored,    \* the document at the server
    held,      \* the value in the program, or Undefined
    edited,    \* the fields changed in this trip
    odd,       \* where the first document is not a complete one
    trips,     \* reads so far
    outcome    \* of the last step of the program

vars == <<model, stored, held, edited, odd, trips, outcome>>

\* A document with every field the model knows, lists with one element.
RECURSIVE Complete(_)
Complete(M) ==
    Obj([k \in {JsonName(M, f) : f \in Fields(M)} |->
        LET f == CHOOSE g \in Fields(M) : JsonName(M, g) = k IN
        CASE f \in M.plain -> Leaf("old")
          [] f \in M.dates -> DateText("then", FALSE)
          [] f \in DOMAIN M.one -> Complete(M.one[f])
          [] OTHER -> Arr(<<Complete(M.many[f])>>)])

(***************************************************************************)
(* Paths into a document, sequences of names and list positions.           *)
(***************************************************************************)
Below(v) == CASE Is(v, "obj") -> v.obj
              [] Is(v, "arr") -> v.arr
              [] OTHER -> <<>>

RECURSIVE Values(_)
\* The texts in v, each with its path; of a date, only which instant it is.
Values(v) ==
    CASE Is(v, "leaf") -> {[at |-> <<>>, is |-> v.leaf]}
      [] Is(v, "time") -> {[at |-> <<>>, is |-> v.time]}
      [] OTHER -> UNION {{[at |-> <<k>> \o x.at, is |-> x.is] : x \in Values(Below(v)[k])} :
                            k \in DOMAIN Below(v)}

RECURSIVE Knows(_, _)
\* The model has a field at the path, the names in the path being those of JSON.
Knows(M, path) ==
    \E f \in Fields(M) :
        /\ JsonName(M, f) = path[1]
        /\ CASE f \in DOMAIN M.one -> Len(path) > 1 /\ Knows(M.one[f], Tail(path))
             [] f \in DOMAIN M.many -> Len(path) > 2 /\ Knows(M.many[f], Tail(Tail(path)))
             [] OTHER -> TRUE

RECURSIVE PutAt(_, _, _)
PutAt(v, path, x) ==
    IF path = <<>> THEN x
    ELSE IF Is(v, "arr") THEN Arr([v.arr EXCEPT ![path[1]] = PutAt(@, Tail(path), x)])
    ELSE Object((path[1] :> PutAt(At(v, path[1]), Tail(path), x)) @@ Below(v))

\* The fields of a document of M and of the objects right in it, and a field
\* unknown to the model in each.
KnownPlaces(M) ==
    {<<JsonName(M, f)>> : f \in Fields(M)} \cup
    UNION {{<<JsonName(M, f), JsonName(M.one[f], g)>> : g \in Fields(M.one[f])} :
            f \in DOMAIN M.one} \cup
    UNION {{<<JsonName(M, f), 1, JsonName(M.many[f], g)>> : g \in Fields(M.many[f])} :
            f \in DOMAIN M.many}
UnknownPlaces(M) ==
    {<<"unknown">>} \cup {<<JsonName(M, f), "unknown">> : f \in DOMAIN M.one}
                    \cup {<<JsonName(M, f), 1, "unknown">> : f \in DOMAIN M.many}

-----------------------------------------------------------------------------
Init ==
    /\ model \in Models
    /\ stored = Complete(model) /\ odd = {}
    /\ held = Undefined /\ edited = <<>>
    /\ trips = 0 /\ outcome = "none"

\* The document has been written by another client, or by hand: a field is
\* missing or null, or there is one more.
Deviate ==
    /\ trips = 0 /\ Cardinality(odd) < MaxDeviations
    /\ \/ \E path \in KnownPlaces(model), x \in {Undefined, Null} :
            /\ stored' = PutAt(stored, path, x)
            /\ odd' = odd \cup {path}
       \/ \E path \in UnknownPlaces(model) :
            /\ stored' = PutAt(stored, path, Leaf("more"))
            /\ odd' = odd \cup {path}
    /\ UNCHANGED <<model, held, edited, trips, outcome>>

\* A read, the value() of its response.
Read ==
    /\ held = Undefined /\ trips < MaxTrips /\ outcome # "threw"
    /\ LET value == FromJSON(model, stored) IN
        /\ held' = IF value = Thrown THEN Undefined ELSE value
        /\ outcome' = IF value = Thrown THEN "threw" ELSE "read"
    /\ trips' = trips + 1 /\ edited' = <<>>
    /\ UNCHANGED <<model, stored, odd>>

\* The program sets or removes a field of the value, as its type allows.
NewValues(f) ==
    (CASE f \in model.plain -> {Leaf("new")}
       [] f \in model.dates -> {Date("now")}
       [] OTHER -> {}) \cup (IF f \in model.required THEN {} ELSE {Undefined})
Edit ==
    /\ held # Undefined /\ Cardinality(DOMAIN edited) < MaxEdits
    /\ \E f \in Fields(model) : \E x \in NewValues(f) :
        /\ held' = PutAt(held, <<f>>, x)
        /\ edited' = (f :> x) @@ edited
    /\ UNCHANGED <<model, stored, odd, trips, outcome>>

\* Variant: the value itself is the body.
WriteRaw ==
    /\ held # Undefined
    /\ stored' = held /\ outcome' = "wrote" /\ held' = Undefined
    /\ UNCHANGED <<model, edited, odd, trips>>
\* A create or replace with the value.
Write ==
    /\ held # Undefined
    /\ LET json == ToJSON(model, held) IN
        /\ stored' = IF json = Thrown THEN stored ELSE json
        /\ outcome' = IF json = Thrown THEN "threw" ELSE "wrote"
    /\ held' = Undefined
    /\ UNCHANGED <<model, edited, odd, trips>>

Next == Deviate \/ Read \/ Edit \/ Write
Spec == Init /\ [][Next]_vars

-----------------------------------------------------------------------------
\* What the program has in its hands has the fields of the model and no other,
\* and nothing is left of a document but what the model allows.
TypeOK ==
    /\ model \in AllModels
    /\ Is(stored, "obj") /\ (held # Undefined => DOMAIN held.obj \subseteq Fields(model))
    /\ DOMAIN edited \subseteq Fields(model)
    /\ odd \subseteq KnownPlaces(model) \cup UnknownPlaces(model)
    /\ trips \in 0..MaxTrips
    /\ outcome \in {"none", "read", "wrote", "threw"}
    /\ outcome = "wrote" => \A x \in Values(stored) : Knows(model, x.at)

\* The one place where a date is made out of nothing.
NoDateThere == \E f \in model.dates \cap model.required : At(stored, f) = Null

EditedValues ==
    {[at |-> <<JsonName(model, f)>>, is |-> IF f \in model.dates THEN "now" ELSE "new"] :
        f \in {g \in DOMAIN edited : edited[g] # Undefined}}

\* What a program writes back is what it read, as far as the model knows it,
\* with its own edits and nothing else: no field moves to another name, no
\* nested value or list element is lost, no instant shifts
\* (models/*.ts, FromJSON and ToJSON of the same model agree).
KeepsWhatItKnows ==
    [][Write /\ outcome' = "wrote" /\ ~NoDateThere =>
        Values(stored') =
            {x \in Values(stored) :
                Knows(model, x.at) /\ \A f \in DOMAIN edited : x.at[1] # JsonName(model, f)}
            \cup EditedValues]_vars

\* The losses of a trip happen in the first: from then on, reading and writing
\* back changes nothing, so clients of this kind do not go on eroding a document,
\* nor do they queue reconciles of it for ever.
SecondTripChangesNothing ==
    [][Write /\ trips > 1 /\ edited = <<>> => stored' = stored]_vars

\* A conversion throws only where a list or a date that the model requires is
\* not there; any other missing or null field is taken as it comes.
RequiredAt(M, path) ==
    \/ \E f \in M.required \cap (M.dates \cup DOMAIN M.many) : path = <<JsonName(M, f)>>
    \/ \E f \in DOMAIN M.one : path \in {<<JsonName(M, f), g>> :
            g \in M.one[f].required \cap (M.one[f].dates \cup DOMAIN M.one[f].many)}
    \/ \E f \in DOMAIN M.many : path \in {<<JsonName(M, f), 1, g>> :
            g \in M.many[f].required \cap (M.many[f].dates \cup DOMAIN M.many[f].many)}
ThrowsForRequiredOnly == outcome = "threw" => \E path \in odd : RequiredAt(model, path)

\* instanceOf, which no conversion calls, is a sufficient check of the value itself:
\* a document of which only fields of its own are missing, and none is null, is
\* read and written back when instanceOf accepts it.
InstanceOfWarns ==
    outcome = "threw" /\ (\A path \in odd : Len(path) = 1 /\ At(stored, path[1]) # Null)
        => ~InstanceOf(model, stored)
=============================================================================
