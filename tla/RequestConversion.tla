------------------------- MODULE RequestConversion -------------------------
(***************************************************************************)
(* The conversion of a Java AuthorizeRequest ("signed") or                 *)
(* AuthorizeRequestUnsigned into the Rust request, one Java getter at a    *)
(* time, while the application still holds, and may change, everything the *)
(* request is made of: the request itself, the builder that returned it,   *)
(* the token map or principal list it was given, and the entities and the  *)
(* context inside.                                                         *)
(* A principal list is an object of its own: the bridge keeps the one it   *)
(* got, which need not stay that of the request.  A CedarEntityMapping is  *)
(* modelled in the entity that has it.                                     *)
(***************************************************************************)
EXTENDS Naturals, Sequences, SequencesExt

CONSTANTS Entities,  \* EntityData objects
          Lists,     \* List objects, for principals
          Null,
          MaxEdits,  \* bound: changes the application makes
          MaxList    \* bound: length of a principal list

ASSUME RequestAssumption ==
    /\ Null \notin Entities \cup Lists
    /\ MaxEdits \in Nat /\ MaxList \in Nat \ {0}

TokenNames == {"access_token", "id_token", "userinfo_token"}
Texts == {"v1", "v2", Null}                    \* tokens, actions, ids
Jsons == {"json", "malformed", Null}
OptEntities == Entities \cup {Null}
OptLists == Lists \cup {Null}

VARIABLES
    kind,     \* "signed" or "unsigned"
    request,  \* the fields of the Java request
    lists,    \* lists[l]: the elements of List l
    heap,     \* heap[e]: the fields of EntityData e and of its mapping
    data,     \* the field of the Context object
    built,    \* the builder has returned the request
    pc,       \* where the converting thread is
    left,     \* names of the snapshot that getTokenNames made, to be read
    list,     \* the principal list that the bridge got
    count,    \* its size, as it was read
    ent,      \* the entity being converted
    part,     \* the Rust EntityData under construction
    rust,     \* the Rust request under construction
    edits,    \* changes the application made
    edited,   \* it made one since the call
    held      \* the tokens of the request since the call, and the elements of
              \* the list that the bridge got, since it did

java == <<kind, request, lists, heap, data, built>>
locals == <<left, list, count, ent, part>>
ghosts == <<edits, edited, held>>
vars == <<java, pc, locals, rust, ghosts>>

Tokens(r) ==
    IF r.tokens = Null THEN {} ELSE {<<n, r.tokens[n]>> : n \in DOMAIN r.tokens}

Elements(ls, l) == IF l = Null THEN {} ELSE ToSet(ls[l])

-----------------------------------------------------------------------------
(* Any object of the Java classes: a request that Java code may pass.         *)
FullEntity == [mapping |-> "m", id |-> "v1", type |-> "v1", attributes |-> "json"]
FullTokens(v) == [n \in TokenNames |-> v]
FullRequest(e, l) ==
    [tokens |-> FullTokens("v1"), principals |-> l,
     action |-> "v1", resource |-> e, context |-> "c"]

NoEntity == [id |-> Null, type |-> Null, attributes |-> Null]
NoRequest ==
    [tokens |-> <<>>, principals |-> <<>>, action |-> Null,
     resource |-> NoEntity, context |-> Null]

Init ==
    /\ kind \in {"signed", "unsigned"}
    /\ \E e \in Entities, l \in Lists :
          request = FullRequest(e, l) /\ lists = [k \in Lists |-> <<e>>]
    /\ heap = [e \in Entities |-> FullEntity] /\ data = "json"
    /\ built = FALSE
    /\ pc = "java"
    /\ left = {} /\ list = Null /\ count = 0 /\ ent = Null /\ part = NoEntity /\ rust = NoRequest
    /\ edits = 0 /\ edited = FALSE /\ held = {}

-----------------------------------------------------------------------------
(* The application: setters, builder methods, and changes of the map or list *)
(* that the request was given and did not copy.                              *)

Edit(r, ls, h, d) ==
    /\ edits < MaxEdits
    /\ request' = r /\ lists' = ls /\ heap' = h /\ data' = d
    /\ edits' = edits + 1
    /\ edited' = TRUE
    /\ held' = held \cup Tokens(r) \cup Elements(ls, list)
    /\ UNCHANGED <<kind, built, pc, locals, rust>>

EditRequest(f, v) == Edit([request EXCEPT ![f] = v], lists, heap, data)
EditList(l, x) == Edit(request, [lists EXCEPT ![l] = x], heap, data)
EditEntity(e, f, v) == Edit(request, lists, [heap EXCEPT ![e][f] = v], data)

AddToken ==
    /\ kind = "signed" /\ request.tokens # Null
    /\ \E n \in TokenNames \cup {"other", Null}, v \in Texts :
          EditRequest("tokens", [m \in DOMAIN request.tokens \cup {n} |->
                                    IF m = n THEN v ELSE request.tokens[m]])

(* Through the map that Builder.tokens keeps. *)
RemoveToken ==
    /\ kind = "signed" /\ request.tokens # Null
    /\ \E n \in DOMAIN request.tokens :
          EditRequest("tokens", [m \in DOMAIN request.tokens \ {n} |-> request.tokens[m]])

(* Null, or another map.  Nothing reads the old one any more. *)
SetTokens ==
    /\ kind = "signed"
    /\ \E t \in {Null, <<>>, FullTokens("v2")} : EditRequest("tokens", t)

SetAction == \E v \in Texts : EditRequest("action", v)
SetResource == \E e \in OptEntities : EditRequest("resource", e)
SetContext == \E c \in {"c", Null} : EditRequest("context", c)

(* addPrincipal throws when the request has no list. *)
AddPrincipal ==
    LET l == request.principals IN
    /\ kind = "unsigned" /\ l # Null
    /\ Len(lists[l]) < MaxList
    /\ \E e \in OptEntities : EditList(l, Append(lists[l], e))

(* Null, or another list: the bridge may still be reading the old one. *)
SetPrincipals ==
    kind = "unsigned" /\ \E l \in OptLists : EditRequest("principals", l)

(* Through the list that setPrincipals keeps, be it in the request or not. *)
ChangeList ==
    /\ kind = "unsigned"
    /\ \E l \in Lists :
          \/ lists[l] # <<>> /\ EditList(l, Tail(lists[l]))
          \/ /\ Len(lists[l]) < MaxList
             /\ \E e \in Entities : EditList(l, <<e>> \o lists[l])

(* The setters of EntityData and CedarEntityMapping. *)
SetEntity ==
    \E e \in Entities :
        \/ \E f \in {"id", "type"}, v \in Texts : EditEntity(e, f, v)
        \/ \E m \in {"m", Null} : EditEntity(e, "mapping", m)
        \/ \E v \in Jsons : EditEntity(e, "attributes", v)

SetData == \E v \in Jsons : Edit(request, lists, heap, v)

(* Builder.build returns the request it was building: it is not a copy. *)
Build ==
    /\ kind = "signed" /\ ~built
    /\ request.tokens # Null
    /\ \A n \in TokenNames : n \in DOMAIN request.tokens /\ request.tokens[n] # Null
    /\ Null \notin {request.action, request.resource, request.context}
    /\ built' = TRUE
    /\ UNCHANGED <<kind, request, lists, heap, data, pc, locals, rust, ghosts>>

-----------------------------------------------------------------------------
(* The bridge. *)

Goto(from, to) == pc = from /\ pc' = to

(* authorize, of a request that was built, or authorizeUnsigned. *)
Call ==
    /\ kind = "signed" => built
    /\ Goto("java", IF kind = "signed" THEN "tokenNames" ELSE "principals")
    /\ edited' = FALSE
    /\ held' = Tokens(request)
    /\ UNCHANGED <<java, locals, rust, edits>>

(* One call into Java.  require_some, ok_or_else or serde_json end the conversion    *)
(* when what it returns is not usable.                                       *)
Get(from, usable, to) ==
    /\ pc = from
    /\ pc' = IF usable THEN to ELSE "failed"
    /\ UNCHANGED <<java, edits, edited>>

(* getTokenNames copies the keys; it throws when the map is null. *)
GetTokenNames ==
    /\ Get("tokenNames", request.tokens # Null, "tokens")
    /\ left' = IF request.tokens = Null THEN {} ELSE DOMAIN request.tokens
    /\ UNCHANGED <<list, count, ent, part, rust, held>>

(* Faulty variant: a token whose value is null is inserted all the same. *)
GetToken_NullKept ==
    \E n \in left :
        /\ Get("tokens", request.tokens # Null, "tokens")
        /\ left' = left \ {n}
        /\ rust' = [rust EXCEPT !.tokens =
                      [m \in DOMAIN @ \cup {n} |->
                          IF m # n THEN @[m]
                          ELSE IF request.tokens # Null /\ n \in DOMAIN request.tokens
                          THEN request.tokens[n] ELSE Null]]
        /\ UNCHANGED <<list, count, ent, part, held>>

GetToken ==
    \E n \in left :
        LET v == IF request.tokens # Null /\ n \in DOMAIN request.tokens
                 THEN request.tokens[n] ELSE Null
        IN /\ Get("tokens", n # Null /\ v # Null, "tokens")
           /\ left' = left \ {n}
           /\ rust' = [rust EXCEPT !.tokens =
                         [m \in DOMAIN @ \cup {n} |-> IF m = n THEN v ELSE @[m]]]
           /\ UNCHANGED <<list, count, ent, part, held>>

EndTokens ==
    /\ Get("tokens", TRUE, "action")
    /\ left = {}
    /\ UNCHANGED <<locals, rust, held>>

(* The list is the caller's, and may be missing.                             *)
GetPrincipals ==
    /\ Get("principals", request.principals # Null, "size")
    /\ list' = request.principals
    /\ held' = held \cup Elements(lists, request.principals)
    /\ UNCHANGED <<left, count, ent, part, rust>>

(* Faulty variant: one index more than the list has. *)
GetSize_OneMore ==
    /\ Get("size", TRUE, "principal")
    /\ count' = Len(lists[list]) + 1
    /\ UNCHANGED <<left, list, ent, part, rust, held>>

(* Its size is read once. *)
GetSize ==
    /\ Get("size", TRUE, "principal")
    /\ count' = Len(lists[list])
    /\ UNCHANGED <<left, list, ent, part, rust, held>>

(* Faulty variants: the list is read from its end; it is fetched anew for     *)
(* every element.                                                            *)
GetPrincipal_FromEnd ==
    LET i == count - Len(rust.principals)
        e == IF i \in DOMAIN lists[list] THEN lists[list][i] ELSE Null
    IN /\ i > 0
       /\ Get("principal", e # Null, "mapping")
       /\ ent' = e
       /\ UNCHANGED <<left, list, count, part, rust, held>>

GetPrincipal_Refetch ==
    LET i == Len(rust.principals) + 1
        l == IF request.principals = Null THEN <<>> ELSE lists[request.principals]
        e == IF i <= Len(l) THEN l[i] ELSE Null
    IN /\ i <= count
       /\ Get("principal", e # Null, "mapping")
       /\ ent' = e
       /\ UNCHANGED <<left, list, count, part, rust, held>>

(* List.get(i) throws when the list has become shorter. *)
GetPrincipal ==
    LET i == Len(rust.principals) + 1
        e == IF i <= Len(lists[list]) THEN lists[list][i] ELSE Null
    IN /\ i <= count
       /\ Get("principal", e # Null, "mapping")
       /\ ent' = e
       /\ UNCHANGED <<left, list, count, part, rust, held>>

EndPrincipals ==
    /\ Get("principal", TRUE, "action")
    /\ Len(rust.principals) = count
    /\ UNCHANGED <<locals, rust, held>>

GetAction ==
    /\ Get("action", request.action # Null, "resource")
    /\ rust' = [rust EXCEPT !.action = request.action]
    /\ UNCHANGED <<locals, held>>

GetResource ==
    /\ Get("resource", request.resource # Null, "mapping")
    /\ ent' = request.resource
    /\ UNCHANGED <<left, list, count, part, rust, held>>

(* as_cedarling_entity_data, for a principal or for the resource. *)
GetMapping ==
    /\ Get("mapping", heap[ent].mapping # Null, "id")
    /\ UNCHANGED <<locals, rust, held>>

GetEntityField(f, to) ==
    /\ Get(f, heap[ent][f] # Null, to)
    /\ part' = [part EXCEPT ![f] = heap[ent][f]]
    /\ UNCHANGED <<left, list, count, ent, rust, held>>

GetAttributes ==
    LET entity == [part EXCEPT !.attributes = heap[ent].attributes]
        isPrincipal == rust.action = Null
    IN /\ Get("attributes", heap[ent].attributes = "json",
              IF isPrincipal THEN "principal" ELSE "context")
       /\ rust' = IF isPrincipal
                  THEN [rust EXCEPT !.principals = Append(@, <<ent, entity>>)]
                  ELSE [rust EXCEPT !.resource = entity]
       /\ UNCHANGED <<locals, held>>

GetContext ==
    /\ Get("context", request.context # Null, "data")
    /\ UNCHANGED <<locals, rust, held>>

GetData ==
    /\ Get("data", data = "json", "converted")
    /\ rust' = [rust EXCEPT !.context = data]
    /\ UNCHANGED <<locals, held>>

-----------------------------------------------------------------------------
Application ==
    \/ AddToken \/ RemoveToken \/ SetTokens \/ SetAction \/ SetResource
    \/ SetContext \/ AddPrincipal \/ SetPrincipals \/ ChangeList
    \/ SetEntity \/ SetData \/ Build

Bridge ==
    \/ GetTokenNames \/ GetToken \/ EndTokens
    \/ GetPrincipals \/ GetSize \/ GetPrincipal \/ EndPrincipals
    \/ GetAction \/ GetResource \/ GetMapping
    \/ GetEntityField("id", "type") \/ GetEntityField("type", "attributes")
    \/ GetAttributes \/ GetContext \/ GetData

(* The conversion is over, or nobody calls with a request that is not built. *)
Terminated ==
    /\ pc \in {"converted", "failed"} \/ (kind = "signed" /\ ~built)
    /\ UNCHANGED vars

Next == Application \/ Call \/ Bridge \/ Terminated

Spec == Init /\ [][Next]_vars

-----------------------------------------------------------------------------
TypeOK ==
    /\ kind \in {"signed", "unsigned"}
    /\ request.action \in Texts /\ request.resource \in OptEntities
    /\ request.principals \in OptLists
    /\ lists \in [Lists -> Seq(OptEntities)]
    /\ heap \in [Entities -> [mapping : {"m", Null}, id : Texts, type : Texts,
                              attributes : Jsons]]
    /\ data \in Jsons
    /\ left \subseteq TokenNames \cup {"other", Null}
    /\ list \in OptLists /\ count \in 0 .. MaxList
    /\ ent \in OptEntities
    /\ edits \in 0 .. MaxEdits

(* What the conversion of a request that nobody changes should give.          *)
EntityOf(e) ==
    [id |-> heap[e].id, type |-> heap[e].type, attributes |-> heap[e].attributes]

EntityUsable(e) ==
    /\ e # Null
    /\ heap[e].mapping # Null /\ heap[e].id # Null /\ heap[e].type # Null
    /\ heap[e].attributes = "json"

Usable ==
    /\ IF kind = "signed"
       THEN /\ request.tokens # Null
            /\ \A n \in DOMAIN request.tokens : n # Null /\ request.tokens[n] # Null
       ELSE /\ request.principals # Null
            /\ \A i \in DOMAIN lists[request.principals] :
                  EntityUsable(lists[request.principals][i])
    /\ request.action # Null /\ request.context # Null
    /\ EntityUsable(request.resource)
    /\ data = "json"

(* A request that nobody changes during the call is converted as a whole, in  *)
(* the order of its list, and rejected exactly when some part is missing or   *)
(* does not parse (authorize_request.rs:146, authorize_request_unsigned.rs:127). *)
FaithfulUnlessEdited ==
    ~edited =>
        /\ pc = "failed" => ~Usable
        /\ pc = "converted" =>
              /\ Usable
              /\ kind = "signed" => rust.tokens = request.tokens
              /\ kind = "unsigned" =>
                    LET l == lists[request.principals] IN
                    rust.principals = [i \in DOMAIN l |-> <<l[i], EntityOf(l[i])>>]
              /\ rust.action = request.action
              /\ rust.resource = EntityOf(request.resource)
              /\ rust.context = data

(* Whatever the application changes meanwhile, the engine is never given a    *)
(* request with a null or unparsable part: each value is checked after it is  *)
(* read and not read again (require_some, util.rs:223).                       *)
EngineSeesNoNull ==
    pc = "converted" =>
        /\ \A n \in DOMAIN rust.tokens : n # Null /\ rust.tokens[n] # Null
        /\ rust.action # Null /\ rust.context = "json"
        /\ \A e \in {rust.resource} \cup {rust.principals[i][2] : i \in DOMAIN rust.principals} :
              e.id # Null /\ e.type # Null /\ e.attributes = "json"

(* ... every token it is given was in the request at some moment of the call, *)
(* under its name (authorize_request.rs:177-193), and all principals were in  *)
(* one list, the one that the request had when the bridge asked for it:       *)
(* replacing that list never makes a mixture of two                           *)
(* (authorize_request_unsigned.rs:156-168).                                   *)
NothingInvented ==
    pc = "converted" =>
        /\ \A n \in DOMAIN rust.tokens : <<n, rust.tokens[n]>> \in held
        /\ \A i \in DOMAIN rust.principals : rust.principals[i][1] \in held

-----------------------------------------------------------------------------
(* The inductive invariant behind the last two, for any changes.              *)

(* The shape of the requests, and what the Rust one has is usable.            *)
Fields == {"tokens", "principals", "action", "resource", "context"}

ShapeInv ==
    /\ DOMAIN request = Fields /\ DOMAIN rust = Fields
    /\ \A l \in Lists : Len(lists[l]) <= MaxList
    /\ request.tokens # Null =>
          /\ DOMAIN request.tokens \subseteq TokenNames \cup {"other", Null}
          /\ request.tokens \in [DOMAIN request.tokens -> Texts]
    /\ rust.tokens \in [DOMAIN rust.tokens -> Texts]
    /\ rust.principals \in Seq(OptEntities \X [id : Texts, type : Texts, attributes : Jsons])
    /\ part \in [id : Texts, type : Texts, attributes : Jsons]

ReadsEntity == pc \in {"mapping", "id", "type", "attributes"}

Whole(e) == e.id # Null /\ e.type # Null /\ e.attributes = "json"

(* What was read before the current step was there, and was not null.         *)
ReadInv ==
    pc # "failed" =>
        /\ pc = "java" => rust = NoRequest /\ list = Null
        /\ pc \in {"size", "principal"} \/ (ReadsEntity /\ rust.action = Null) => list # Null
        /\ \A n \in DOMAIN rust.tokens : n # Null /\ rust.tokens[n] # Null
        /\ \A i \in DOMAIN rust.principals : Whole(rust.principals[i][2])
        /\ ReadsEntity => ent \in Entities
        /\ pc \in {"type", "attributes"} => part.id # Null
        /\ pc = "attributes" => part.type # Null
        /\ pc \in {"resource", "context", "data", "converted"} => rust.action # Null
        /\ pc \in {"context", "data", "converted"} => Whole(rust.resource)
        /\ pc = "converted" => rust.context = "json"

(* What the Rust request has, and what it may still get, was held.            *)
HeldInv ==
    pc \notin {"java", "failed"} =>
        /\ Tokens(request) \cup Elements(lists, list) \subseteq held
        /\ \A n \in DOMAIN rust.tokens : <<n, rust.tokens[n]>> \in held
        /\ \A i \in DOMAIN rust.principals : rust.principals[i][1] \in held
        /\ ReadsEntity /\ rust.action = Null => ent \in held

RequestInv == TypeOK /\ ShapeInv /\ ReadInv /\ HeldInv

-----------------------------------------------------------------------------
(* The inductive invariant behind FaithfulUnlessEdited: as long as nothing is *)
(* changed, what has been read is what is there, and it was usable.           *)
ReadsPrincipal == ReadsEntity /\ rust.action = Null

TokensRead ==
    /\ kind = "signed"
    /\ pc = "tokenNames" => DOMAIN rust.tokens = {}
    /\ pc # "tokenNames" =>
          /\ request.tokens # Null
          /\ pc = "tokens" => left \subseteq DOMAIN request.tokens
          /\ DOMAIN rust.tokens =
                DOMAIN request.tokens \ (IF pc = "tokens" THEN left ELSE {})
    /\ \A n \in DOMAIN rust.tokens :
          n # Null /\ rust.tokens[n] # Null /\ rust.tokens[n] = request.tokens[n]
    /\ pc \notin {"principals", "size", "principal"} /\ ~ReadsPrincipal

PrincipalsRead ==
    LET done == Len(rust.principals)  all == lists[list] IN
    /\ kind = "unsigned"
    /\ pc = "principals" => done = 0
    /\ pc # "principals" =>
          /\ list = request.principals /\ list # Null
          /\ pc # "size" => count = Len(all)
          /\ done <= Len(all)
          /\ \A i \in 1 .. done :
                EntityUsable(all[i]) /\ rust.principals[i] = <<all[i], EntityOf(all[i])>>
          /\ pc = "size" => done = 0
          /\ ReadsPrincipal => done < Len(all) /\ ent = all[done + 1]
          /\ pc \in {"size", "principal"} \/ ReadsPrincipal \/ done = Len(all)
    /\ pc \notin {"tokenNames", "tokens"}

EntityRead ==
    /\ ReadsEntity /\ rust.action # Null => ent = request.resource
    /\ pc \in {"id", "type", "attributes"} => heap[ent].mapping # Null
    /\ pc \in {"type", "attributes"} => part.id = heap[ent].id
    /\ pc = "attributes" => part.type = heap[ent].type

RestRead ==
    /\ pc \in {"tokenNames", "tokens", "principals", "size", "principal"} => rust.action = Null
    /\ rust.action # Null => rust.action = request.action
    /\ pc \in {"context", "data", "converted"} =>
          EntityUsable(request.resource) /\ rust.resource = EntityOf(request.resource)
    /\ pc \in {"data", "converted"} => request.context # Null
    /\ pc = "converted" => data = "json" /\ rust.context = data

FaithInv ==
    ~edited =>
        /\ pc = "failed" => ~Usable
        /\ pc \notin {"java", "failed"} =>
              (TokensRead \/ PrincipalsRead) /\ EntityRead /\ RestRead

(* "In order to prevent ill formed objects, authorization requests are         *)
(* instantiated using a Builder" (AuthorizeRequest.java:41).                  *)
BuiltIsWellFormed ==
    built =>
        /\ request.tokens # Null
        /\ \A n \in TokenNames : n \in DOMAIN request.tokens /\ request.tokens[n] # Null
        /\ Null \notin {request.action, request.resource, request.context}
=============================================================================
