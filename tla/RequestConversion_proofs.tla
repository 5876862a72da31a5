---------------------- MODULE RequestConversion_proofs ----------------------
(***************************************************************************)
(* Proofs about module RequestConversion, for any entities, any number of  *)
(* changes and lists of any length: what the engine is given has no null   *)
(* in it, its tokens were in the request at some moment of the call, its   *)
(* principals in the one list that was asked for; a request that nobody    *)
(* changes arrives whole (FaithInv).                                       *)
(***************************************************************************)
EXTENDS RequestConversion, TLAPS

(* A Java request that the setters allow. *)
Allowed(r) ==
    /\ DOMAIN r = Fields
    /\ r.action \in Texts /\ r.resource \in OptEntities
    /\ r.principals \in OptLists
    /\ r.tokens # Null =>
          /\ DOMAIN r.tokens \subseteq TokenNames \cup {"other", Null}
          /\ r.tokens \in [DOMAIN r.tokens -> Texts]

(* The contents of the lists, and of the entities. *)
AllowedLists(ls) ==
    /\ ls \in [Lists -> Seq(OptEntities)]
    /\ \A l \in Lists : Len(ls[l]) <= MaxList

Heaps == [Entities -> [mapping : {"m", Null}, id : Texts, type : Texts, attributes : Jsons]]

LEMMA InvInit == Init => RequestInv
<1> SUFFICES ASSUME Init PROVE RequestInv
  OBVIOUS
<1> USE RequestAssumption DEF Init, FullRequest, FullEntity, NoEntity, NoRequest
<1>1. PICK e \in Entities, l \in Lists :
         request = FullRequest(e, l) /\ lists = [k \in Lists |-> <<e>>]
  OBVIOUS
<1>2. TypeOK
  <2>1. <<e>> \in Seq(OptEntities)
    BY DEF OptEntities
  <2> QED
    BY <1>1, <2>1 DEF TypeOK, Texts, Jsons, OptEntities, OptLists
<1>3. ShapeInv
  BY <1>1 DEF ShapeInv, Fields, FullTokens, TokenNames, Texts, Jsons, OptEntities
<1>4. ReadInv /\ HeldInv
  BY DEF ReadInv, HeldInv, ReadsEntity
<1> QED
  BY <1>2, <1>3, <1>4 DEF RequestInv

-----------------------------------------------------------------------------
(* No change of the application disturbs the invariant. *)
LEMMA EditKeeps ==
    ASSUME RequestInv, NEW r, NEW ls, NEW h \in Heaps, NEW d \in Jsons,
           Allowed(r), AllowedLists(ls), Edit(r, ls, h, d)
    PROVE  RequestInv'
<1> USE RequestAssumption DEF RequestInv, Edit, Allowed, AllowedLists, Heaps, locals
<1>1. TypeOK'
  BY DEF TypeOK
<1>2. ShapeInv'
  BY DEF ShapeInv, Fields
<1>3. ReadInv'
  BY DEF ReadInv, Whole, ReadsEntity
<1>4. HeldInv'
  BY DEF HeldInv, Tokens, Elements, ReadsEntity
<1> QED
  BY <1>1, <1>2, <1>3, <1>4

LEMMA ApplicationStep == RequestInv /\ Application => RequestInv'
<1> SUFFICES ASSUME RequestInv, Application PROVE RequestInv'
  OBVIOUS
<1>r. Allowed(request) /\ AllowedLists(lists) /\ heap \in Heaps /\ data \in Jsons
  BY DEF RequestInv, TypeOK, ShapeInv, Allowed, AllowedLists, Heaps
<1>1. ASSUME NEW f, NEW v, EditRequest(f, v), Allowed([request EXCEPT ![f] = v])
      PROVE  RequestInv'
  BY <1>r, <1>1, EditKeeps DEF EditRequest
<1>l. ASSUME NEW l \in Lists, NEW x \in Seq(OptEntities), Len(x) <= MaxList, EditList(l, x)
      PROVE  RequestInv'
  <2>1. AllowedLists([lists EXCEPT ![l] = x])
    BY <1>r, <1>l DEF AllowedLists
  <2> QED
    BY <1>r, <1>l, <2>1, EditKeeps DEF EditList
<1>2. CASE AddToken
  <2>1. PICK n \in TokenNames \cup {"other", Null}, v \in Texts :
           EditRequest("tokens", [m \in DOMAIN request.tokens \cup {n} |->
                                    IF m = n THEN v ELSE request.tokens[m]])
    BY <1>2 DEF AddToken
  <2>2. request.tokens # Null
    BY <1>2 DEF AddToken
  <2>3. Allowed([request EXCEPT !["tokens"] = [m \in DOMAIN request.tokens \cup {n} |->
                                    IF m = n THEN v ELSE request.tokens[m]]])
    BY <1>r, <2>2 DEF Allowed, Fields
  <2> QED
    BY <1>1, <2>1, <2>3
<1>3. CASE RemoveToken
  <2>1. PICK n \in DOMAIN request.tokens :
           EditRequest("tokens", [m \in DOMAIN request.tokens \ {n} |-> request.tokens[m]])
    BY <1>3 DEF RemoveToken
  <2>2. request.tokens # Null
    BY <1>3 DEF RemoveToken
  <2>3. Allowed([request EXCEPT !["tokens"] =
                   [m \in DOMAIN request.tokens \ {n} |-> request.tokens[m]]])
    BY <1>r, <2>2 DEF Allowed, Fields
  <2> QED
    BY <1>1, <2>1, <2>3
<1>4. CASE SetTokens \/ SetAction \/ SetResource \/ SetContext
  <2>1. \A t \in {Null, <<>>, FullTokens("v2")} : Allowed([request EXCEPT !["tokens"] = t])
    <3>1. /\ FullTokens("v2") \in [DOMAIN FullTokens("v2") -> Texts]
          /\ DOMAIN FullTokens("v2") = TokenNames
      BY DEF FullTokens, Texts
    <3>2. ASSUME NEW t, t # Null => /\ DOMAIN t \subseteq TokenNames \cup {"other", Null}
                                   /\ t \in [DOMAIN t -> Texts]
          PROVE  Allowed([request EXCEPT !["tokens"] = t])
      BY <1>r, <3>2 DEF Allowed, Fields
    <3>3. <<>> \in [DOMAIN <<>> -> Texts] /\ DOMAIN <<>> = {}
      OBVIOUS
    <3>4. Allowed([request EXCEPT !["tokens"] = FullTokens("v2")])
      BY <3>1, <3>2
    <3>5. Allowed([request EXCEPT !["tokens"] = <<>>])
      BY <3>3, <3>2
    <3>6. Allowed([request EXCEPT !["tokens"] = Null])
      BY <3>2
    <3> QED
      BY <3>4, <3>5, <3>6
  <2>2. \A v \in Texts : Allowed([request EXCEPT !["action"] = v])
    BY <1>r DEF Allowed, Fields
  <2>3. \A e \in OptEntities : Allowed([request EXCEPT !["resource"] = e])
    BY <1>r DEF Allowed, Fields
  <2>4. \A v : Allowed([request EXCEPT !["context"] = v])
    BY <1>r DEF Allowed, Fields
  <2> QED
    BY <1>1, <1>4, <2>1, <2>2, <2>3, <2>4 DEF SetTokens, SetAction, SetResource, SetContext
<1>5. CASE AddPrincipal
  <2> DEFINE l == request.principals
  <2>1. PICK e \in OptEntities : EditList(l, Append(lists[l], e))
    BY <1>5 DEF AddPrincipal
  <2>2. l \in Lists /\ Len(lists[l]) < MaxList
    BY <1>5, <1>r DEF AddPrincipal, Allowed, OptLists
  <2>3. /\ Append(lists[l], e) \in Seq(OptEntities)
        /\ Len(Append(lists[l], e)) <= MaxList
    BY <1>r, <2>2, RequestAssumption DEF AllowedLists
  <2> QED
    BY <1>l, <2>1, <2>2, <2>3
<1>p. CASE SetPrincipals
  <2>1. \A l \in OptLists : Allowed([request EXCEPT !["principals"] = l])
    BY <1>r DEF Allowed, Fields
  <2> QED
    BY <1>1, <1>p, <2>1 DEF SetPrincipals
<1>6. CASE ChangeList
  <2>1. ASSUME NEW l \in Lists, lists[l] # <<>>, EditList(l, Tail(lists[l]))
        PROVE  RequestInv'
    <3>1. Tail(lists[l]) \in Seq(OptEntities) /\ Len(Tail(lists[l])) <= MaxList
      BY <1>r, <2>1, RequestAssumption DEF AllowedLists
    <3> QED
      BY <1>l, <2>1, <3>1
  <2>2. ASSUME NEW l \in Lists, NEW e \in Entities, Len(lists[l]) < MaxList,
               EditList(l, <<e>> \o lists[l])
        PROVE  RequestInv'
    <3>1. <<e>> \o lists[l] \in Seq(OptEntities) /\ Len(<<e>> \o lists[l]) <= MaxList
      BY <1>r, <2>2, RequestAssumption DEF AllowedLists, OptEntities
    <3> QED
      BY <1>l, <2>2, <3>1
  <2> QED
    BY <1>6, <2>1, <2>2 DEF ChangeList
<1>7. CASE SetEntity
  <2>1. ASSUME NEW e \in Entities, NEW f \in {"id", "type"}, NEW v \in Texts
        PROVE  [heap EXCEPT ![e][f] = v] \in Heaps
    BY <1>r DEF Heaps
  <2>2. ASSUME NEW e \in Entities, NEW m \in {"m", Null}
        PROVE  [heap EXCEPT ![e]["mapping"] = m] \in Heaps
    BY <1>r DEF Heaps
  <2>3. ASSUME NEW e \in Entities, NEW v \in Jsons
        PROVE  [heap EXCEPT ![e]["attributes"] = v] \in Heaps
    BY <1>r DEF Heaps
  <2>4. ASSUME NEW e, NEW f, NEW v, [heap EXCEPT ![e][f] = v] \in Heaps, EditEntity(e, f, v)
        PROVE  RequestInv'
    BY <1>r, <2>4, EditKeeps DEF EditEntity
  <2> QED
    BY <1>7, <2>1, <2>2, <2>3, <2>4 DEF SetEntity
<1>8. CASE SetData
  BY <1>r, <1>8, EditKeeps DEF SetData
<1>9. CASE Build
  BY <1>9 DEF Build, RequestInv, TypeOK, ShapeInv, ReadInv, HeldInv, Whole, Tokens,
              Elements, ReadsEntity, locals, ghosts
<1> QED
  BY <1>2, <1>3, <1>4, <1>5, <1>p, <1>6, <1>7, <1>8, <1>9 DEF Application

-----------------------------------------------------------------------------
LEMMA CallStep == RequestInv /\ Call => RequestInv'
<1> SUFFICES ASSUME RequestInv, Call PROVE RequestInv'
  OBVIOUS
<1> USE DEF RequestInv, Call, Goto, java, locals
<1>1. TypeOK' /\ ShapeInv'
  BY DEF TypeOK, ShapeInv
<1>2. ReadInv'
  BY DEF ReadInv, Whole, ReadsEntity
<1>3. HeldInv'
  <2>1. pc = "java" /\ held' = Tokens(request)
    OBVIOUS
  <2>2. UNCHANGED <<rust, request, lists, list>> /\ list = Null
        /\ rust.tokens = <<>> /\ rust.principals = <<>>
    BY <2>1 DEF ReadInv, NoRequest
  <2>3. pc' \in {"tokenNames", "principals"} /\ Elements(lists', list') = {}
    BY <2>2 DEF Elements
  <2> QED
    BY <2>1, <2>2, <2>3 DEF HeldInv, Tokens, ReadsEntity
<1> QED
  BY <1>1, <1>2, <1>3

(* A getter that fails leaves nothing to show but types. *)
LEMMA BridgeStep == RequestInv /\ Bridge => RequestInv'
<1> SUFFICES ASSUME RequestInv, Bridge PROVE RequestInv'
  OBVIOUS
<1> USE RequestAssumption DEF RequestInv, Get, java, locals, ghosts
<1>1. TypeOK'
  <2> USE DEF TypeOK
  <2>1. CASE GetTokenNames \/ GetToken \/ EndTokens
    BY <2>1 DEF GetTokenNames, GetToken, EndTokens, ShapeInv, TokenNames
  <2>2. CASE GetPrincipals \/ GetSize \/ GetPrincipal \/ EndPrincipals
    <3>1. pc \in {"size", "principal"} => list \in Lists
      BY DEF ReadInv, OptLists
    <3> QED
      BY <2>2, <3>1 DEF GetPrincipals, GetSize, GetPrincipal, EndPrincipals, ShapeInv,
                        OptEntities, OptLists
  <2>3. CASE GetAction \/ GetResource \/ GetMapping
    BY <2>3 DEF GetAction, GetResource, GetMapping
  <2>4. CASE GetEntityField("id", "type") \/ GetEntityField("type", "attributes") \/ GetAttributes
    BY <2>4 DEF GetEntityField, GetAttributes
  <2>5. CASE GetContext \/ GetData
    BY <2>5 DEF GetContext, GetData
  <2> QED
    BY <2>1, <2>2, <2>3, <2>4, <2>5 DEF Bridge
<1>2. ShapeInv'
  <2> USE DEF ShapeInv, Fields, TypeOK
  <2>1. CASE GetTokenNames \/ EndTokens
    BY <2>1 DEF GetTokenNames, EndTokens
  <2>t. CASE GetToken
    <3> DEFINE read(n) == IF request.tokens # Null /\ n \in DOMAIN request.tokens
                          THEN request.tokens[n] ELSE Null
               grown(n) == [m \in DOMAIN rust.tokens \cup {n} |->
                              IF m = n THEN read(n) ELSE rust.tokens[m]]
    <3>1. PICK n \in left : rust' = [rust EXCEPT !.tokens = grown(n)]
      BY <2>t DEF GetToken
    <3>2. read(n) \in Texts
      BY DEF Texts
    <3>3. grown(n) \in [DOMAIN grown(n) -> Texts]
      BY <3>2
    <3>4. UNCHANGED <<request, lists, part>>
      BY <2>t DEF GetToken
    <3>5. DOMAIN rust' = Fields /\ rust'.tokens = grown(n)
          /\ rust'.principals = rust.principals
      <4> HIDE DEF grown
      <4> QED
        BY <3>1
    <3> QED
      BY <3>3, <3>4, <3>5
  <2>2. CASE GetPrincipals \/ GetSize \/ GetPrincipal \/ EndPrincipals
    BY <2>2 DEF GetPrincipals, GetSize, GetPrincipal, EndPrincipals
  <2>3. CASE GetAction \/ GetResource \/ GetMapping
    BY <2>3 DEF GetAction, GetResource, GetMapping
  <2>4. CASE GetEntityField("id", "type") \/ GetEntityField("type", "attributes")
    BY <2>4 DEF GetEntityField, ReadInv, ReadsEntity
  <2>a. CASE GetAttributes
    <3> DEFINE Parts == [id : Texts, type : Texts, attributes : Jsons]
               entity == [part EXCEPT !.attributes = heap[ent].attributes]
    <3>1. ent \in Entities /\ part \in Parts
      BY <2>a DEF GetAttributes, ReadInv, ReadsEntity
    <3>2. heap[ent].attributes \in Jsons
      BY <3>1
    <3>3. entity \in Parts
      BY <3>1, <3>2
    <3>4. <<ent, entity>> \in OptEntities \X Parts
      BY <3>1, <3>3 DEF OptEntities
    <3>5. Append(rust.principals, <<ent, entity>>) \in Seq(OptEntities \X Parts)
      BY <3>4
    <3>6. /\ rust' = IF rust.action = Null
                     THEN [rust EXCEPT !.principals = Append(rust.principals, <<ent, entity>>)]
                     ELSE [rust EXCEPT !.resource = entity]
          /\ UNCHANGED <<request, lists, part>>
      BY <2>a DEF GetAttributes
    <3>7. DOMAIN rust' = Fields /\ rust'.principals \in Seq(OptEntities \X Parts)
      <4> HIDE DEF entity, Parts
      <4> QED
        BY <3>5, <3>6 DEF Parts
    <3> QED
      BY <3>6, <3>7
  <2>5. CASE GetContext \/ GetData
    BY <2>5 DEF GetContext, GetData
  <2> QED
    BY <2>1, <2>t, <2>2, <2>3, <2>4, <2>a, <2>5 DEF Bridge
<1>3. ReadInv'
  <2> USE DEF ReadInv, ShapeInv, Fields, TypeOK, Whole, ReadsEntity
  <2>1. CASE GetTokenNames \/ EndTokens
    BY <2>1 DEF GetTokenNames, EndTokens
  <2>t. CASE GetToken
    BY <2>t DEF GetToken
  <2>2. CASE GetPrincipals \/ GetSize \/ GetPrincipal \/ EndPrincipals
    <3>1. GetPrincipals => pc' = IF list' # Null THEN "size" ELSE "failed"
      BY DEF GetPrincipals
    <3>2. GetPrincipal => /\ ent' \in OptEntities /\ list' # Null
                          /\ pc' = IF ent' # Null THEN "mapping" ELSE "failed"
      BY <1>1 DEF GetPrincipal
    <3>3. GetSize => pc' = "principal" /\ list' # Null
      BY DEF GetSize
    <3> QED
      BY <2>2, <3>1, <3>2, <3>3 DEF GetPrincipals, GetSize, GetPrincipal, EndPrincipals, OptEntities
  <2>3. CASE GetAction \/ GetResource \/ GetMapping
    BY <2>3 DEF GetAction, GetResource, GetMapping, OptEntities
  <2>4. CASE GetEntityField("id", "type") \/ GetEntityField("type", "attributes")
    BY <2>4 DEF GetEntityField
  <2>a. CASE GetAttributes
    BY <2>a DEF GetAttributes
  <2>5. CASE GetContext \/ GetData
    BY <2>5 DEF GetContext, GetData
  <2> QED
    BY <2>1, <2>t, <2>2, <2>3, <2>4, <2>a, <2>5 DEF Bridge
<1>4. HeldInv'
  <2> USE DEF ReadInv, HeldInv, ShapeInv, Fields, TypeOK, ReadsEntity
  <2>1. CASE GetTokenNames \/ EndTokens
    BY <2>1 DEF GetTokenNames, EndTokens, Tokens, Elements
  <2>t. CASE GetToken
    BY <2>t DEF GetToken, Tokens, Elements
  <2>2. CASE GetPrincipals \/ GetSize \/ EndPrincipals
    BY <2>2 DEF GetPrincipals, GetSize, EndPrincipals, Tokens, Elements
  <2>p. CASE GetPrincipal
    <3>1. list \in Lists /\ ToSet(lists[list]) \subseteq held
      BY <2>p DEF GetPrincipal, Elements, OptLists
    <3>2. \A i \in 1 .. Len(lists[list]) : lists[list][i] \in held
      BY <3>1 DEF ToSet
    <3>3. /\ ent' # Null => ent' \in held
          /\ pc' = IF ent' # Null THEN "mapping" ELSE "failed"
          /\ UNCHANGED <<request, lists, list, rust, held>>
      BY <2>p, <3>2 DEF GetPrincipal
    <3> QED
      BY <2>p, <3>3 DEF GetPrincipal, Tokens, Elements
  <2>3. CASE GetResource \/ GetMapping
    BY <2>3 DEF GetResource, GetMapping, Tokens, Elements
  <2>w. CASE GetAction \/ GetData
    <3>1. /\ rust'.tokens = rust.tokens /\ rust'.principals = rust.principals
          /\ UNCHANGED <<request, lists, list, held>> /\ pc' \in {"resource", "converted", "failed"}
          /\ pc \in {"action", "data"}
      BY <2>w DEF GetAction, GetData
    <3>2. UNCHANGED <<Tokens(request), Elements(lists, list)>>
      BY <3>1 DEF Tokens, Elements
    <3> QED
      BY <3>1, <3>2
  <2>4. CASE GetEntityField("id", "type") \/ GetEntityField("type", "attributes")
    BY <2>4 DEF GetEntityField, Tokens, Elements
  <2>a. CASE GetAttributes
    BY <2>a DEF GetAttributes, Tokens, Elements
  <2>5. CASE GetContext
    BY <2>5 DEF GetContext, Tokens, Elements
  <2> QED
    BY <2>1, <2>t, <2>2, <2>p, <2>3, <2>w, <2>4, <2>a, <2>5 DEF Bridge
<1> QED
  BY <1>1, <1>2, <1>3, <1>4

LEMMA InvStep == RequestInv /\ [Next]_vars => RequestInv'
<1> SUFFICES ASSUME RequestInv, [Next]_vars PROVE RequestInv'
  OBVIOUS
<1>1. CASE UNCHANGED vars
  BY <1>1 DEF vars, java, locals, ghosts, RequestInv, TypeOK, ShapeInv, ReadInv,
              HeldInv, Whole, Tokens, Elements, ReadsEntity
<1> QED
  BY <1>1, ApplicationStep, CallStep, BridgeStep DEF Next, Terminated

(* The inductive invariant of requests under conversion.                      *)
THEOREM Invariant == Spec => []RequestInv
  BY InvInit, InvStep, PTL DEF Spec

(* Every reachable state is well typed, for lists of any length.              *)
THEOREM TypeCorrect == Spec => []TypeOK
<1>1. RequestInv => TypeOK
  BY DEF RequestInv
<1> QED
  BY <1>1, Invariant, PTL

(* The engine is never given a null or something that does not parse,         *)
(* whatever the application changes during the conversion.                    *)
THEOREM NoNullReachesEngine == Spec => []EngineSeesNoNull
<1>1. RequestInv => EngineSeesNoNull
  BY DEF RequestInv, ReadInv, EngineSeesNoNull, Whole
<1> QED
  BY <1>1, Invariant, PTL

(* Every token the engine is given was in the request during the call, every  *)
(* principal in the list that the bridge got, whatever became of it.          *)
THEOREM NothingMadeUp == Spec => []NothingInvented
<1>1. RequestInv => NothingInvented
  BY DEF RequestInv, HeldInv, NothingInvented
<1> QED
  BY <1>1, Invariant, PTL

-----------------------------------------------------------------------------
(* What is read of a request that nobody changes.                             *)

(* A change by the application ends the obligation; Build changes no field.   *)
LEMMA FaithApplication == FaithInv /\ Application => FaithInv'
<1> SUFFICES ASSUME FaithInv, Application PROVE FaithInv'
  OBVIOUS
<1>1. ASSUME NEW r, NEW ls, NEW h, NEW d, Edit(r, ls, h, d) PROVE FaithInv'
  BY <1>1 DEF Edit, FaithInv
<1>2. ASSUME NEW f, NEW v, EditRequest(f, v) \/ EditList(f, v) PROVE FaithInv'
  BY <1>1, <1>2 DEF EditRequest, EditList
<1>e. ASSUME NEW e, NEW f, NEW v, EditEntity(e, f, v) PROVE FaithInv'
  BY <1>1, <1>e DEF EditEntity
<1>3. CASE Build
  BY <1>3 DEF Build, FaithInv, locals, ghosts, Usable, EntityUsable, EntityOf,
              TokensRead, PrincipalsRead, EntityRead, RestRead, ReadsEntity, ReadsPrincipal
<1> QED
  BY <1>1, <1>2, <1>e, <1>3 DEF Application, AddToken, RemoveToken, SetTokens, SetAction,
     SetResource, SetContext, AddPrincipal, SetPrincipals, ChangeList, SetEntity, SetData

LEMMA FaithCall == RequestInv /\ Call => FaithInv'
<1> SUFFICES ASSUME RequestInv, Call PROVE FaithInv'
  OBVIOUS
<1>1. /\ pc = "java" /\ pc' = IF kind = "signed" THEN "tokenNames" ELSE "principals"
      /\ UNCHANGED <<kind, request, rust, heap, data>>
  BY DEF Call, Goto, java
<1>2. /\ DOMAIN rust.tokens = {} /\ rust.principals = <<>> /\ rust.action = Null
  BY <1>1 DEF RequestInv, ReadInv, NoRequest
<1>3. kind \in {"signed", "unsigned"}
  BY DEF RequestInv, TypeOK
<1>4. CASE kind = "signed"
  BY <1>1, <1>2, <1>4 DEF FaithInv, TokensRead, EntityRead, RestRead, ReadsPrincipal, ReadsEntity
<1>5. CASE kind = "unsigned"
  <2>1. PrincipalsRead'
    BY <1>1, <1>2, <1>3, <1>5 DEF PrincipalsRead, ReadsPrincipal, ReadsEntity
  <2> QED
    BY <1>1, <1>2, <1>5, <2>1 DEF FaithInv, EntityRead, RestRead, ReadsEntity
<1> QED
  BY <1>3, <1>4, <1>5

(* One getter: what it rejects was not usable, and what it took is recorded.  *)
LEMMA FaithBridge == RequestInv /\ FaithInv /\ Bridge => FaithInv'
<1> SUFFICES ASSUME RequestInv, FaithInv, Bridge PROVE FaithInv'
  OBVIOUS
<1>0. UNCHANGED edited
  BY DEF Bridge, Get, ghosts, GetTokenNames, GetToken, EndTokens, GetPrincipals,
         GetSize, GetPrincipal, EndPrincipals, GetAction, GetResource, GetMapping, GetEntityField,
         GetAttributes, GetContext, GetData
<1> SUFFICES ASSUME ~edited PROVE FaithInv'
  BY <1>0 DEF FaithInv
<1> USE DEF Get, java
<1>u. UNCHANGED <<kind, request, lists, heap, data>>
  BY DEF Bridge, GetTokenNames, GetToken, EndTokens, GetPrincipals,
         GetSize, GetPrincipal, EndPrincipals, GetAction, GetResource, GetMapping, GetEntityField,
         GetAttributes, GetContext, GetData
<1>v. (Usable' <=> Usable) /\ \A e : (EntityUsable(e)' <=> EntityUsable(e)) /\ EntityOf(e)' = EntityOf(e)
  BY <1>u DEF Usable, EntityUsable, EntityOf
<1>s. /\ pc \notin {"java", "failed"} =>
            (TokensRead \/ PrincipalsRead) /\ EntityRead /\ RestRead
      /\ kind \in {"signed", "unsigned"} /\ DOMAIN rust = Fields
      /\ lists \in [Lists -> Seq(OptEntities)] /\ list \in OptLists
      /\ list # Null => lists[list] \in Seq(OptEntities)
      /\ rust.principals \in Seq(OptEntities \X [id : Texts, type : Texts, attributes : Jsons])
      /\ part \in [id : Texts, type : Texts, attributes : Jsons]
      /\ count \in Nat
  BY DEF FaithInv, RequestInv, TypeOK, ShapeInv, OptLists
<1> USE DEF ReadsEntity, ReadsPrincipal
<1>1. CASE GetTokenNames
  <2>1. CASE request.tokens = Null
    BY <1>1, <1>s, <1>v, <2>1 DEF GetTokenNames, Usable, FaithInv, PrincipalsRead, TokensRead
  <2>2. CASE request.tokens # Null
    BY <1>1, <1>s, <1>u, <1>v, <2>2 DEF GetTokenNames, FaithInv, PrincipalsRead, TokensRead,
       EntityRead, RestRead
  <2> QED
    BY <2>1, <2>2
<1>2. CASE GetToken
  <2> DEFINE v(n) == IF request.tokens # Null /\ n \in DOMAIN request.tokens
                     THEN request.tokens[n] ELSE Null
             grown(n) == [m \in DOMAIN rust.tokens \cup {n} |->
                            IF m = n THEN v(n) ELSE rust.tokens[m]]
  <2>1. PICK n \in left :
          /\ pc = "tokens" /\ pc' = IF n # Null /\ v(n) # Null THEN "tokens" ELSE "failed"
          /\ left' = left \ {n} /\ rust' = [rust EXCEPT !.tokens = grown(n)]
          /\ UNCHANGED <<count, ent, part>>
    BY <1>2 DEF GetToken
  <2>2. TokensRead /\ n \in DOMAIN request.tokens /\ request.tokens # Null
    BY <1>s, <2>1 DEF TokensRead, PrincipalsRead
  <2>3. CASE n = Null \/ v(n) = Null
    <3>1. pc' = "failed" /\ ~Usable
      BY <2>1, <2>2, <2>3 DEF TokensRead, Usable
    <3> QED
      BY <3>1, <1>v DEF FaithInv
  <2>4. CASE n # Null /\ v(n) # Null
    <3>1. rust'.tokens = grown(n) /\ rust'.action = rust.action /\ rust'.principals = rust.principals
      <4> HIDE DEF grown
      <4> QED
        BY <2>1, <1>s DEF Fields
    <3>2. DOMAIN rust'.tokens = DOMAIN rust.tokens \cup {n}
      BY <3>1
    <3>3. DOMAIN rust'.tokens = DOMAIN request'.tokens \ left'
      BY <2>1, <2>2, <3>2, <1>u, <1>s DEF TokensRead
    <3>4. \A m \in DOMAIN rust'.tokens :
             m # Null /\ rust'.tokens[m] # Null /\ rust'.tokens[m] = request'.tokens[m]
      <4>1. SUFFICES ASSUME NEW m \in DOMAIN grown(n)
                     PROVE  m # Null /\ grown(n)[m] # Null /\ grown(n)[m] = request.tokens[m]
        BY <3>1, <1>u
      <4>2. CASE m = n
        BY <4>2, <2>2, <2>4
      <4>3. CASE m # n
        BY <4>1, <4>3, <2>2 DEF TokensRead
      <4> QED
        BY <4>2, <4>3
    <3>5. pc' = "tokens"
      BY <2>1, <2>4
    <3>6. TokensRead'
      BY <2>1, <2>2, <3>3, <3>4, <3>5, <1>u DEF TokensRead
    <3> QED
      BY <1>s, <2>1, <3>1, <3>5, <3>6 DEF FaithInv, EntityRead, RestRead
  <2> QED
    BY <2>3, <2>4
<1>3. CASE EndTokens
  BY <1>3, <1>s, <1>u, <1>v DEF EndTokens, locals, FaithInv, TokensRead, PrincipalsRead,
     EntityRead, RestRead
<1>4. CASE GetPrincipals
  <2>1. /\ pc = "principals" /\ pc' = IF request.principals # Null THEN "size" ELSE "failed"
        /\ list' = request.principals /\ UNCHANGED <<left, count, ent, part, rust>>
    BY <1>4 DEF GetPrincipals
  <2>2. PrincipalsRead /\ rust.action = Null
    BY <1>s, <2>1 DEF TokensRead, RestRead
  <2>3. CASE request.principals = Null
    BY <2>1, <2>2, <2>3, <1>v DEF FaithInv, Usable, PrincipalsRead
  <2>4. CASE request.principals # Null
    <3>1. request'.principals \in OptLists
      BY <1>u DEF RequestInv, TypeOK
    <3>2. lists'[list'] \in Seq(OptEntities)
      BY <1>s, <1>u, <2>1, <2>4, <3>1 DEF OptLists
    <3>3. PrincipalsRead'
      BY <1>s, <1>u, <2>1, <2>2, <2>4, <3>2 DEF PrincipalsRead
    <3> QED
      BY <1>s, <1>u, <2>1, <2>2, <2>4, <3>3 DEF FaithInv, EntityRead, RestRead
  <2> QED
    BY <2>3, <2>4
<1>z. CASE GetSize
  <2>1. /\ pc = "size" /\ pc' = "principal" /\ count' = Len(lists[list])
        /\ UNCHANGED <<left, list, ent, part, rust>>
    BY <1>z DEF GetSize
  <2>2. PrincipalsRead /\ rust.action = Null
    BY <1>s, <2>1 DEF TokensRead, RestRead
  <2>3. PrincipalsRead'
    BY <1>s, <1>u, <1>v, <2>1, <2>2 DEF PrincipalsRead
  <2> QED
    BY <2>1, <2>2, <2>3 DEF FaithInv, EntityRead, RestRead
<1>5. CASE GetPrincipal
  <2> DEFINE i == Len(rust.principals) + 1
             all == lists[list]
  <2>1. /\ pc = "principal" /\ i <= count
        /\ LET e == IF i <= Len(all) THEN all[i] ELSE Null
           IN ent' = e /\ pc' = IF e # Null THEN "mapping" ELSE "failed"
        /\ UNCHANGED <<left, list, count, part, rust>>
    BY <1>5 DEF GetPrincipal
  <2>2. PrincipalsRead /\ rust.action = Null
    BY <2>1, <1>s DEF TokensRead, RestRead
  <2>3. i <= Len(all) /\ ent' = all[i] /\ i \in Nat \ {0} /\ list # Null
    BY <2>1, <2>2, <1>s DEF PrincipalsRead
  <2>4. CASE ent' = Null
    <3>1. pc' = "failed" /\ ~EntityUsable(all[i]) /\ kind = "unsigned"
      BY <2>1, <2>2, <2>3, <2>4 DEF EntityUsable, PrincipalsRead
    <3>2. i \in DOMAIN all /\ list = request.principals
      BY <2>1, <2>2, <2>3, <1>s DEF PrincipalsRead
    <3> QED
      BY <3>1, <3>2, <1>v DEF FaithInv, Usable
  <2>5. CASE ent' # Null
    <3>1. pc' = "mapping"
      BY <2>1, <2>3, <2>5
    <3>2. PrincipalsRead'
      <4>1. Len(rust.principals) < Len(all) /\ Len(rust.principals) \in Nat
        BY <2>3, <1>s
      <4> QED
        BY <2>1, <2>2, <2>3, <3>1, <4>1, <1>u, <1>v DEF PrincipalsRead
    <3> QED
      BY <2>1, <2>2, <3>1, <3>2, <1>s DEF FaithInv, EntityRead, RestRead
  <2> QED
    BY <2>4, <2>5
<1>6. CASE EndPrincipals
  <2>1. PrincipalsRead /\ rust.action = Null /\ pc = "principal"
    BY <1>6, <1>s DEF EndPrincipals, TokensRead, RestRead
  <2>2. pc' = "action" /\ UNCHANGED <<left, list, count, ent, part, rust>> /\ Len(rust.principals) = count
    BY <1>6 DEF EndPrincipals, locals
  <2>3. PrincipalsRead'
    BY <1>u, <1>v, <2>1, <2>2 DEF PrincipalsRead
  <2> QED
    BY <2>1, <2>2, <2>3 DEF FaithInv, EntityRead, RestRead
(* An entity is being read: a principal, or the resource.                     *)
<1>e. ASSUME ReadsEntity PROVE
        /\ ent \in Entities
        /\ ~EntityUsable(ent) => ~Usable
        /\ TokensRead => rust.action # Null
  <2>0. ent \in Entities /\ Null \notin Entities
    BY <1>e, RequestAssumption DEF RequestInv, ReadInv
  <2>1. CASE rust.action = Null
    <3>1. PrincipalsRead
      BY <1>e, <1>s, <2>1 DEF TokensRead
    <3>2. /\ Len(rust.principals) < Len(lists[list]) /\ kind = "unsigned"
          /\ ent = lists[list][Len(rust.principals) + 1]
          /\ list = request.principals /\ list # Null
      BY <1>e, <2>1, <3>1 DEF PrincipalsRead
    <3>3. Len(rust.principals) + 1 \in DOMAIN lists[list]
      BY <3>2, <1>s
    <3> QED
      BY <2>0, <1>e, <2>1, <3>2, <3>3 DEF Usable, TokensRead
  <2>2. CASE rust.action # Null
    BY <1>e, <1>s, <2>0, <2>2 DEF EntityRead, Usable
  <2> QED
    BY <2>1, <2>2
(* A step that keeps the Rust request and the entity keeps what was read of   *)
(* the collections.                                                           *)
<1>k. ASSUME pc \in {"action", "resource", "mapping", "id", "type", "attributes", "context", "data"},
             pc' \in {"resource", "mapping", "id", "type", "attributes", "context", "data", "converted"},
             rust'.tokens = rust.tokens, rust'.principals = rust.principals,
             ReadsPrincipal' => ReadsPrincipal, UNCHANGED <<list, ent, count>>,
             ReadsPrincipal => ReadsPrincipal'
      PROVE  (TokensRead \/ PrincipalsRead)'
  <2>1. CASE TokensRead
    BY <1>k, <1>u, <2>1 DEF TokensRead
  <2>2. CASE PrincipalsRead
    BY <1>k, <1>u, <1>v, <2>2 DEF PrincipalsRead
  <2> QED
    BY <1>k, <1>s, <2>1, <2>2
<1>7. CASE GetAction
  <2>1. /\ pc = "action" /\ pc' = IF request.action # Null THEN "resource" ELSE "failed"
        /\ rust' = [rust EXCEPT !.action = request.action]
        /\ UNCHANGED <<left, list, count, ent, part>>
    BY <1>7 DEF GetAction, locals
  <2>2. CASE request.action = Null
    BY <2>1, <2>2, <1>v DEF FaithInv, Usable
  <2>3. CASE request.action # Null
    <3>1. /\ rust'.tokens = rust.tokens /\ rust'.principals = rust.principals
          /\ rust'.action = request.action
      BY <2>1, <1>s DEF Fields
    <3>2. (TokensRead \/ PrincipalsRead)'
      BY <1>k, <2>1, <2>3, <3>1
    <3> QED
      BY <2>1, <2>3, <3>1, <3>2, <1>u DEF FaithInv, EntityRead, RestRead
  <2> QED
    BY <2>2, <2>3
<1>8. CASE GetResource
  <2>1. /\ pc = "resource" /\ pc' = IF request.resource # Null THEN "mapping" ELSE "failed"
        /\ ent' = request.resource /\ UNCHANGED <<left, list, count, part, rust>>
    BY <1>8 DEF GetResource
  <2>2. CASE request.resource = Null
    BY <2>1, <2>2, <1>v DEF FaithInv, Usable, EntityUsable
  <2>3. CASE request.resource # Null
    <3>1. rust.action # Null
      BY <2>1 DEF RequestInv, ReadInv
    <3>2. (TokensRead \/ PrincipalsRead)'
      <4>1. CASE TokensRead
        BY <2>1, <2>3, <3>1, <4>1, <1>u DEF TokensRead
      <4>2. CASE PrincipalsRead
        BY <2>1, <2>3, <3>1, <4>2, <1>u, <1>v DEF PrincipalsRead
      <4> QED
        BY <2>1, <1>s, <4>1, <4>2
    <3> QED
      BY <1>s, <1>u, <2>1, <2>3, <3>2 DEF FaithInv, EntityRead, RestRead
  <2> QED
    BY <2>2, <2>3
<1>9. CASE GetMapping
  <2>1. /\ pc = "mapping" /\ pc' = IF heap[ent].mapping # Null THEN "id" ELSE "failed"
        /\ UNCHANGED <<left, list, count, ent, part, rust>>
    BY <1>9 DEF GetMapping, locals
  <2>2. CASE heap[ent].mapping = Null
    BY <1>e, <1>v, <2>1, <2>2 DEF FaithInv, EntityUsable
  <2>3. CASE heap[ent].mapping # Null
    <3>1. (TokensRead \/ PrincipalsRead)'
      BY <1>k, <2>1, <2>3
    <3> QED
      BY <1>s, <1>u, <2>1, <2>3, <3>1 DEF FaithInv, EntityRead, RestRead
  <2> QED
    BY <2>2, <2>3
<1>10. ASSUME NEW f \in {"id", "type"}, NEW to \in {"type", "attributes"},
              f = "id" <=> to = "type", GetEntityField(f, to)
       PROVE  FaithInv'
  <2>1. /\ pc = f /\ pc' = IF heap[ent][f] # Null THEN to ELSE "failed"
        /\ part' = [part EXCEPT ![f] = heap[ent][f]]
        /\ UNCHANGED <<left, list, count, ent, rust>>
    BY <1>10 DEF GetEntityField
  <2>2. CASE heap[ent][f] = Null
    BY <1>e, <1>v, <2>1, <2>2 DEF FaithInv, EntityUsable
  <2>3. CASE heap[ent][f] # Null
    <3>1. (TokensRead \/ PrincipalsRead)'
      BY <1>k, <2>1, <2>3
    <3>2. EntityRead' /\ RestRead'
      BY <1>10, <1>s, <1>u, <2>1, <2>3 DEF EntityRead, RestRead
    <3> QED
      BY <2>1, <2>3, <3>1, <3>2 DEF FaithInv
  <2> QED
    BY <2>2, <2>3
<1>11. CASE GetAttributes
  <2> DEFINE Parts == [id : Texts, type : Texts, attributes : Jsons]
             entity == [part EXCEPT !.attributes = heap[ent].attributes]
  <2>1. /\ pc = "attributes"
        /\ pc' = IF heap[ent].attributes = "json"
                 THEN (IF rust.action = Null THEN "principal" ELSE "context") ELSE "failed"
        /\ rust' = IF rust.action = Null
                   THEN [rust EXCEPT !.principals = Append(rust.principals, <<ent, entity>>)]
                   ELSE [rust EXCEPT !.resource = entity]
        /\ UNCHANGED <<left, list, count, ent, part>>
    BY <1>11 DEF GetAttributes, locals
  <2>2. CASE heap[ent].attributes # "json"
    BY <1>e, <1>v, <2>1, <2>2 DEF FaithInv, EntityUsable
  <2>3. CASE heap[ent].attributes = "json"
    <3>1. /\ ent \in Entities /\ EntityRead /\ RestRead
          /\ part.id # Null /\ part.type # Null
      BY <1>e, <1>s, <2>1 DEF RequestInv, ReadInv
    <3>2. EntityUsable(ent)
      BY <3>1, <2>1, <2>3, RequestAssumption DEF EntityUsable, EntityRead
    <3>3. entity = EntityOf(ent)
      <4>1. heap[ent].attributes \in Jsons
        BY <3>1 DEF RequestInv, TypeOK
      <4>2. /\ entity \in Parts /\ entity.id = part.id /\ entity.type = part.type
            /\ entity.attributes = heap[ent].attributes
        BY <1>s, <4>1
      <4>3. part.id = heap[ent].id /\ part.type = heap[ent].type
        BY <3>1, <2>1 DEF EntityRead
      <4> QED
        <5> HIDE DEF entity
        <5> QED
          BY <4>2, <4>3 DEF EntityOf
    <3> HIDE DEF entity
    <3>4. CASE rust.action = Null
      <4> DEFINE n == Len(rust.principals)
                 all == lists[list]
      <4>1. /\ pc' = "principal" /\ rust'.action = Null
            /\ rust'.principals = Append(rust.principals, <<ent, entity>>)
        BY <2>1, <2>3, <3>4, <1>s DEF Fields
      <4>2. PrincipalsRead /\ ReadsPrincipal
        BY <1>e, <1>s, <2>1, <3>4
      <4>3. n < Len(all) /\ ent = all[n + 1] /\ n \in Nat
          /\ list # Null /\ all \in Seq(OptEntities)
        BY <2>1, <4>2, <1>s DEF PrincipalsRead
      <4>4. Len(rust'.principals) = n + 1
        BY <4>1, <1>s
      <4>5. \A i \in 1 .. n + 1 :
               /\ EntityUsable(all[i])
               /\ rust'.principals[i] = <<all[i], EntityOf(all[i])>>
        <5>1. SUFFICES ASSUME NEW i \in 1 .. n + 1
                       PROVE  /\ EntityUsable(all[i])
                              /\ rust'.principals[i] =
                                   <<all[i], EntityOf(all[i])>>
          OBVIOUS
        <5>2. CASE i = n + 1
          BY <5>2, <3>2, <3>3, <4>1, <4>3, <1>s
        <5>3. CASE i # n + 1
          <6>1. i \in 1 .. n /\ rust'.principals[i] = rust.principals[i]
            BY <5>1, <5>3, <4>1, <4>3, <1>s
          <6> QED
            BY <6>1, <4>2 DEF PrincipalsRead
        <5> QED
          BY <5>2, <5>3
      <4>6. PrincipalsRead'
        <5>1. /\ kind = "unsigned" /\ count = Len(all)
              /\ list = request.principals /\ list # Null
              /\ n + 1 <= Len(all)
          BY <4>2, <4>3, <2>1, <1>s DEF PrincipalsRead
        <5>2. lists'[list'] = all /\ UNCHANGED <<kind, request, list, count>> /\ n \in Nat
          BY <2>1, <4>3, <1>u
        <5>3. Len(rust'.principals) = n + 1 /\ pc' = "principal" /\ ~ReadsEntity'
          BY <4>1, <4>4
        <5>4. ASSUME NEW i \in 1 .. n + 1
              PROVE  /\ EntityUsable(lists[list][i])'
                     /\ rust'.principals[i] = <<lists'[list'][i], EntityOf(lists[list][i])'>>
          <6>1. /\ EntityUsable(all[i]) /\ rust'.principals[i] = <<all[i], EntityOf(all[i])>>
            BY <4>5, <5>4
          <6>2. /\ EntityUsable(lists[list][i])' <=> EntityUsable(all[i])
                /\ EntityOf(lists[list][i])' = EntityOf(all[i])
            BY <5>2, <1>u DEF EntityUsable, EntityOf
          <6> QED
            BY <5>2, <6>1, <6>2
        <5>5. Len(lists[list])' = Len(all)
          BY <5>2
        <5> HIDE DEF n, all
        <5> QED
          BY <5>1, <5>2, <5>3, <5>4, <5>5 DEF PrincipalsRead
      <4> QED
        BY <4>1, <4>6, <2>1 DEF FaithInv, EntityRead, RestRead
    <3>5. CASE rust.action # Null
      <4>1. /\ pc' = "context" /\ rust'.action = rust.action /\ rust'.resource = entity
            /\ rust'.tokens = rust.tokens /\ rust'.principals = rust.principals
        BY <2>1, <2>3, <3>5, <1>s DEF Fields
      <4>2. (TokensRead \/ PrincipalsRead)'
        BY <1>k, <2>1, <3>5, <4>1
      <4>3. ent = request.resource
        BY <3>1, <3>5, <2>1 DEF EntityRead
      <4> QED
        BY <4>1, <4>2, <4>3, <3>1, <3>2, <3>3, <1>u, <1>v DEF FaithInv, EntityRead, RestRead
    <3> QED
      BY <3>4, <3>5
  <2> QED
    BY <2>2, <2>3
<1>12. CASE GetContext
  <2>1. /\ pc = "context" /\ pc' = IF request.context # Null THEN "data" ELSE "failed"
        /\ UNCHANGED <<left, list, count, ent, part, rust>>
    BY <1>12 DEF GetContext, locals
  <2>2. CASE request.context = Null
    BY <2>1, <2>2, <1>v DEF FaithInv, Usable
  <2>3. CASE request.context # Null
    <3>1. (TokensRead \/ PrincipalsRead)'
      BY <1>k, <2>1, <2>3
    <3> QED
      BY <1>s, <1>u, <1>v, <2>1, <2>3, <3>1 DEF FaithInv, EntityRead, RestRead
  <2> QED
    BY <2>2, <2>3
<1>13. CASE GetData
  <2>1. /\ pc = "data" /\ pc' = IF data = "json" THEN "converted" ELSE "failed"
        /\ rust' = [rust EXCEPT !.context = data]
        /\ UNCHANGED <<left, list, count, ent, part>>
    BY <1>13 DEF GetData, locals
  <2>2. CASE data # "json"
    BY <2>1, <2>2, <1>v DEF FaithInv, Usable
  <2>3. CASE data = "json"
    <3>1. /\ rust'.tokens = rust.tokens /\ rust'.principals = rust.principals
          /\ rust'.action = rust.action /\ rust'.resource = rust.resource /\ rust'.context = data
      BY <2>1, <1>s DEF Fields
    <3>2. (TokensRead \/ PrincipalsRead)'
      BY <1>k, <2>1, <2>3, <3>1
    <3> QED
      BY <1>s, <1>u, <1>v, <2>1, <2>3, <3>1, <3>2 DEF FaithInv, EntityRead, RestRead
  <2> QED
    BY <2>2, <2>3
<1> QED
  BY <1>1, <1>2, <1>3, <1>4, <1>z, <1>5, <1>6, <1>7, <1>8, <1>9, <1>10, <1>11, <1>12, <1>13
  DEF Bridge

LEMMA FaithStep == RequestInv /\ FaithInv /\ [Next]_vars => FaithInv'
<1> SUFFICES ASSUME RequestInv, FaithInv, [Next]_vars PROVE FaithInv'
  OBVIOUS
<1>1. CASE UNCHANGED vars
  BY <1>1 DEF vars, java, locals, ghosts, FaithInv, Usable, EntityUsable, EntityOf,
     TokensRead, PrincipalsRead, EntityRead, RestRead, ReadsEntity, ReadsPrincipal
<1> QED
  BY <1>1, FaithApplication, FaithCall, FaithBridge DEF Next, Terminated

(* What a conversion that is over shows of a request that nobody changed.     *)
LEMMA FaithEnd == RequestInv /\ FaithInv => FaithfulUnlessEdited
<1> SUFFICES ASSUME RequestInv, FaithInv, ~edited, pc = "converted"
             PROVE  /\ Usable
                    /\ kind = "signed" => rust.tokens = request.tokens
                    /\ kind = "unsigned" =>
                          LET l == lists[request.principals] IN
                          rust.principals = [i \in DOMAIN l |-> <<l[i], EntityOf(l[i])>>]
                    /\ rust.action = request.action
                    /\ rust.resource = EntityOf(request.resource)
                    /\ rust.context = data
  BY DEF FaithfulUnlessEdited, FaithInv
<1>1. /\ TokensRead \/ PrincipalsRead
      /\ RestRead /\ rust.action # Null
      /\ ~ReadsPrincipal
  BY DEF FaithInv, RequestInv, ReadInv, ReadsPrincipal, ReadsEntity
<1>2. /\ rust.action = request.action /\ request.action # Null /\ request.context # Null
      /\ EntityUsable(request.resource) /\ rust.resource = EntityOf(request.resource)
      /\ data = "json" /\ rust.context = data
  BY <1>1 DEF RestRead
<1>3. CASE TokensRead
  <2>1. /\ kind = "signed" /\ request.tokens # Null /\ DOMAIN rust.tokens = DOMAIN request.tokens
        /\ \A n \in DOMAIN rust.tokens :
              n # Null /\ rust.tokens[n] # Null /\ rust.tokens[n] = request.tokens[n]
    BY <1>3 DEF TokensRead
  <2>2. /\ rust.tokens \in [DOMAIN rust.tokens -> Texts]
        /\ request.tokens \in [DOMAIN request.tokens -> Texts]
    BY <2>1 DEF RequestInv, ShapeInv
  <2>3. rust.tokens = request.tokens
    BY <2>1, <2>2
  <2> QED
    BY <1>2, <2>1, <2>3 DEF Usable
<1>4. CASE PrincipalsRead
  <2> DEFINE all == lists[request.principals]
  <2>1. /\ kind = "unsigned" /\ Len(rust.principals) = Len(all)
        /\ \A i \in 1 .. Len(rust.principals) :
              EntityUsable(all[i]) /\ rust.principals[i] = <<all[i], EntityOf(all[i])>>
        /\ request.principals # Null
    BY <1>1, <1>4 DEF PrincipalsRead
  <2>2. /\ rust.principals \in Seq(OptEntities \X [id : Texts, type : Texts, attributes : Jsons])
        /\ all \in Seq(OptEntities)
    BY <2>1 DEF RequestInv, TypeOK, ShapeInv, OptLists
  <2> HIDE DEF all
  <2>3. /\ DOMAIN rust.principals = 1 .. Len(rust.principals)
        /\ DOMAIN all = 1 .. Len(rust.principals)
        /\ rust.principals = [i \in DOMAIN rust.principals |-> rust.principals[i]]
    BY <2>1, <2>2
  <2>4. rust.principals = [i \in DOMAIN all |-> <<all[i], EntityOf(all[i])>>]
    BY <2>1, <2>3
  <2> QED
    BY <1>2, <2>1, <2>3, <2>4 DEF Usable, all
<1> QED
  BY <1>1, <1>3, <1>4

(* A request that nobody changes during the call is converted as a whole, or  *)
(* rejected because some part of it cannot be used, for maps and lists of any *)
(* size.                                                                      *)
THEOREM Faithful == Spec => []FaithfulUnlessEdited
<1>1. Init => FaithInv
  BY DEF Init, FaithInv
<1> QED
  BY <1>1, InvInit, InvStep, FaithStep, FaithEnd, PTL DEF Spec
=============================================================================
