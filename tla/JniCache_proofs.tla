---------------------------- MODULE JniCache_proofs ----------------------------
(***************************************************************************)
(* Proofs about module JniCache, for any number of threads and whatever    *)
(* names the Java library lacks: a native method runs only on caches that  *)
(* are complete, and the wrappers find in them whatever they look up.      *)
(***************************************************************************)
EXTENDS JniCache, SequenceTheorems, TLAPS

(* The threads that run the static initializer. *)
Initializing(t) == pc[t] \in {"load", "register", "endInit"}

(* The class is initialized by one thread, and the caches hold the names      *)
(* before `next', all of which the library has.                               *)
OwnerInv ==
    /\ \A t \in Threads : Initializing(t) => clinit = "running" /\ owner = t
    /\ \A t \in Threads : pc[t] = "native" => clinit = "done"

FilledInv ==
    /\ cache = {Registrations[i] : i \in 1 .. next - 1}
    /\ cache \cap missing = {}
    /\ \A t \in Threads : pc[t] = "endInit" /\ ~pending => next > Len(Registrations)
    /\ clinit = "done" => next > Len(Registrations)

CacheInv == TypeOK /\ OwnerInv /\ FilledInv

-----------------------------------------------------------------------------
(* The tables.  The provers do not know that a word is in STRING: all that is *)
(* said of the registrations is that they are sequences, and that they have   *)
(* the names that their wrapper looks up.                                     *)
Sequence(s) == \E S : s \in Seq(S)

LEMMA KeysOfTable ==
    ASSUME NEW w, NEW names, NEW n \in Nat, DOMAIN names = 1 .. n,
           \A a \in Lookups[w] : \E i \in 1 .. n : names[i] = a
    PROVE  Sequence(Keys(w, names)) /\ LookedUp(w) \subseteq ToSet(Keys(w, names))
<1> DEFINE S == {w} \X {names[i] : i \in 1 .. n}
<1>1. Keys(w, names) \in [1 .. n -> S]
  BY DEF Keys
<1>2. Keys(w, names) \in Seq(S)
  <2> HIDE DEF S
  <2> QED
    BY <1>1, SeqDef
<1>3. LookedUp(w) \subseteq ToSet(Keys(w, names))
  <2>1. SUFFICES ASSUME NEW a \in Lookups[w] PROVE <<w, a>> \in ToSet(Keys(w, names))
    BY DEF LookedUp
  <2>2. PICK i \in 1 .. n : names[i] = a
    OBVIOUS
  <2> QED
    BY <2>2 DEF Keys, ToSet
<1> QED
  BY <1>2, <1>3 DEF Sequence

LEMMA Concatenation ==
    ASSUME NEW s, NEW t, Sequence(s), Sequence(t)
    PROVE  Sequence(s \o t) /\ ToSet(s \o t) = ToSet(s) \cup ToSet(t)
<1>1. PICK S : s \in Seq(S)
  BY DEF Sequence
<1>2. PICK T : t \in Seq(T)
  BY DEF Sequence
<1>3. s \in Seq(S \cup T) /\ t \in Seq(S \cup T)
  BY <1>1, <1>2
<1>4. s \o t \in Seq(S \cup T)
  BY <1>3
<1>5. ToSet(s \o t) = ToSet(s) \cup ToSet(t)
  <2>1. /\ Len(s) \in Nat /\ DOMAIN s = 1 .. Len(s)
        /\ Len(t) \in Nat /\ DOMAIN t = 1 .. Len(t)
        /\ DOMAIN (s \o t) = 1 .. Len(s) + Len(t)
    BY <1>3, <1>4
  <2>2. \A i \in 1 .. Len(s) : (s \o t)[i] = s[i]
    BY <1>3, <2>1
  <2>3. \A i \in 1 .. Len(t) : (s \o t)[i + Len(s)] = t[i]
    BY <1>3, <2>1
  <2>4. \A i \in Len(s) + 1 .. Len(s) + Len(t) :
           i - Len(s) \in 1 .. Len(t) /\ (s \o t)[i] = t[i - Len(s)]
    BY <1>3, <2>1
  <2>5. ToSet(s) \cup ToSet(t) \subseteq ToSet(s \o t)
    <3>1. \A i \in 1 .. Len(s) : s[i] \in ToSet(s \o t)
      BY <2>1, <2>2, \A i \in 1 .. Len(s) : i \in 1 .. Len(s) + Len(t) DEF ToSet
    <3>2. \A i \in 1 .. Len(t) : t[i] \in ToSet(s \o t)
      BY <2>1, <2>3, \A i \in 1 .. Len(t) : i + Len(s) \in 1 .. Len(s) + Len(t) DEF ToSet
    <3> QED
      BY <2>1, <3>1, <3>2 DEF ToSet
  <2>6. ASSUME NEW i \in 1 .. Len(s) + Len(t) PROVE (s \o t)[i] \in ToSet(s) \cup ToSet(t)
    BY <2>1, <2>2, <2>4, i \in 1 .. Len(s) \/ i \in Len(s) + 1 .. Len(s) + Len(t) DEF ToSet
  <2> QED
    BY <2>1, <2>5, <2>6 DEF ToSet
<1> QED
  BY <1>4, <1>5 DEF Sequence

LEMMA TableJniKeys ==
    /\ Sequence(JniKeys)
    /\ \A w \in {"Duration", "File", "List", "URI", "Util"} :
          LookedUp(w) \subseteq ToSet(JniKeys)
<1>1. Sequence(Keys("Duration", Duration)) /\ LookedUp("Duration") \subseteq ToSet(Keys("Duration", Duration))
  <2>1. DOMAIN Duration = 1 .. 2
    BY DEF Duration
  <2>2. \A a \in Lookups["Duration"] : \E i \in 1 .. 2 : Duration[i] = a
    BY DEF Duration, Lookups
  <2> QED
    BY <2>1, <2>2, KeysOfTable
<1>2. Sequence(Keys("File", File)) /\ LookedUp("File") \subseteq ToSet(Keys("File", File))
  <2>1. DOMAIN File = 1 .. 2
    BY DEF File
  <2>2. \A a \in Lookups["File"] : \E i \in 1 .. 2 : File[i] = a
    BY DEF File, Lookups
  <2> QED
    BY <2>1, <2>2, KeysOfTable
<1>3. Sequence(Keys("List", List)) /\ LookedUp("List") \subseteq ToSet(Keys("List", List))
  <2>1. DOMAIN List = 1 .. 3
    BY DEF List
  <2>2. \A a \in Lookups["List"] : \E i \in 1 .. 3 : List[i] = a
    BY DEF List, Lookups
  <2> QED
    BY <2>1, <2>2, KeysOfTable
<1>4. Sequence(Keys("URI", URI)) /\ LookedUp("URI") \subseteq ToSet(Keys("URI", URI))
  <2>1. DOMAIN URI = 1 .. 1
    BY DEF URI
  <2>2. \A a \in Lookups["URI"] : \E i \in 1 .. 1 : URI[i] = a
    BY DEF URI, Lookups
  <2> QED
    BY <2>1, <2>2, KeysOfTable
<1>5. Sequence(Keys("Util", Util)) /\ LookedUp("Util") \subseteq ToSet(Keys("Util", Util))
  <2>1. DOMAIN Util = 1 .. 3
    BY DEF Util
  <2>2. \A a \in Lookups["Util"] : \E i \in 1 .. 3 : Util[i] = a
    BY DEF Util, Lookups
  <2> QED
    BY <2>1, <2>2, KeysOfTable
<1> QED
  BY <1>1, <1>2, <1>3, <1>4, <1>5, Concatenation DEF JniKeys

LEMMA TableConfigKeys ==
    /\ Sequence(ConfigKeys)
    /\ \A w \in {"AuthorizationConfig", "BootstrapConfig", "EntityBuilderConfig",
          "EntityNames", "JsonRule", "JwtConfig", "LockServiceConfig",
          "LogConfig", "MemoryLogConfig", "PolicyStoreConfig"} :
          LookedUp(w) \subseteq ToSet(ConfigKeys)
<1>1. Sequence(Keys("AuthorizationConfig", AuthorizationConfig)) /\ LookedUp("AuthorizationConfig") \subseteq ToSet(Keys("AuthorizationConfig", AuthorizationConfig))
  <2>1. DOMAIN AuthorizationConfig = 1 .. 8
    BY DEF AuthorizationConfig
  <2>2. \A a \in Lookups["AuthorizationConfig"] : \E i \in 1 .. 8 : AuthorizationConfig[i] = a
    BY DEF AuthorizationConfig, Lookups
  <2> QED
    BY <2>1, <2>2, KeysOfTable
<1>2. Sequence(Keys("BootstrapConfig", BootstrapConfig)) /\ LookedUp("BootstrapConfig") \subseteq ToSet(Keys("BootstrapConfig", BootstrapConfig))
  <2>1. DOMAIN BootstrapConfig = 1 .. 10
    BY DEF BootstrapConfig
  <2>2. \A a \in Lookups["BootstrapConfig"] : \E i \in 1 .. 10 : BootstrapConfig[i] = a
    BY DEF BootstrapConfig, Lookups
  <2> QED
    BY <2>1, <2>2, KeysOfTable
<1>3. Sequence(Keys("EntityBuilderConfig", EntityBuilderConfig)) /\ LookedUp("EntityBuilderConfig") \subseteq ToSet(Keys("EntityBuilderConfig", EntityBuilderConfig))
  <2>1. DOMAIN EntityBuilderConfig = 1 .. 4
    BY DEF EntityBuilderConfig
  <2>2. \A a \in Lookups["EntityBuilderConfig"] : \E i \in 1 .. 4 : EntityBuilderConfig[i] = a
    BY DEF EntityBuilderConfig, Lookups
  <2> QED
    BY <2>1, <2>2, KeysOfTable
<1>4. Sequence(Keys("EntityNames", EntityNames)) /\ LookedUp("EntityNames") \subseteq ToSet(Keys("EntityNames", EntityNames))
  <2>1. DOMAIN EntityNames = 1 .. 5
    BY DEF EntityNames
  <2>2. \A a \in Lookups["EntityNames"] : \E i \in 1 .. 5 : EntityNames[i] = a
    BY DEF EntityNames, Lookups
  <2> QED
    BY <2>1, <2>2, KeysOfTable
<1>5. Sequence(Keys("JsonRule", JsonRule)) /\ LookedUp("JsonRule") \subseteq ToSet(Keys("JsonRule", JsonRule))
  <2>1. DOMAIN JsonRule = 1 .. 2
    BY DEF JsonRule
  <2>2. \A a \in Lookups["JsonRule"] : \E i \in 1 .. 2 : JsonRule[i] = a
    BY DEF JsonRule, Lookups
  <2> QED
    BY <2>1, <2>2, KeysOfTable
<1>6. Sequence(Keys("JwtConfig", JwtConfig)) /\ LookedUp("JwtConfig") \subseteq ToSet(Keys("JwtConfig", JwtConfig))
  <2>1. DOMAIN JwtConfig = 1 .. 5
    BY DEF JwtConfig
  <2>2. \A a \in Lookups["JwtConfig"] : \E i \in 1 .. 5 : JwtConfig[i] = a
    BY DEF JwtConfig, Lookups
  <2> QED
    BY <2>1, <2>2, KeysOfTable
<1>7. Sequence(Keys("LockServiceConfig", LockServiceConfig)) /\ LookedUp("LockServiceConfig") \subseteq ToSet(Keys("LockServiceConfig", LockServiceConfig))
  <2>1. DOMAIN LockServiceConfig = 1 .. 10
    BY DEF LockServiceConfig
  <2>2. \A a \in Lookups["LockServiceConfig"] : \E i \in 1 .. 10 : LockServiceConfig[i] = a
    BY DEF LockServiceConfig, Lookups
  <2> QED
    BY <2>1, <2>2, KeysOfTable
<1>8. Sequence(Keys("LogConfig", LogConfig)) /\ LookedUp("LogConfig") \subseteq ToSet(Keys("LogConfig", LogConfig))
  <2>1. DOMAIN LogConfig = 1 .. 4
    BY DEF LogConfig
  <2>2. \A a \in Lookups["LogConfig"] : \E i \in 1 .. 4 : LogConfig[i] = a
    BY DEF LogConfig, Lookups
  <2> QED
    BY <2>1, <2>2, KeysOfTable
<1>9. Sequence(Keys("MemoryLogConfig", MemoryLogConfig)) /\ LookedUp("MemoryLogConfig") \subseteq ToSet(Keys("MemoryLogConfig", MemoryLogConfig))
  <2>1. DOMAIN MemoryLogConfig = 1 .. 4
    BY DEF MemoryLogConfig
  <2>2. \A a \in Lookups["MemoryLogConfig"] : \E i \in 1 .. 4 : MemoryLogConfig[i] = a
    BY DEF MemoryLogConfig, Lookups
  <2> QED
    BY <2>1, <2>2, KeysOfTable
<1>10. Sequence(Keys("PolicyStoreConfig", PolicyStoreConfig)) /\ LookedUp("PolicyStoreConfig") \subseteq ToSet(Keys("PolicyStoreConfig", PolicyStoreConfig))
  <2>1. DOMAIN PolicyStoreConfig = 1 .. 4
    BY DEF PolicyStoreConfig
  <2>2. \A a \in Lookups["PolicyStoreConfig"] : \E i \in 1 .. 4 : PolicyStoreConfig[i] = a
    BY DEF PolicyStoreConfig, Lookups
  <2> QED
    BY <2>1, <2>2, KeysOfTable
<1> QED
  BY <1>1, <1>2, <1>3, <1>4, <1>5, <1>6, <1>7, <1>8, <1>9, <1>10, Concatenation DEF ConfigKeys

LEMMA TableAuthzKeys ==
    /\ Sequence(AuthzKeys)
    /\ \A w \in {"AuthorizeRequest", "AuthorizeRequestUnsigned", "AuthorizeResult",
          "CedarEntityMapping", "EntityData", "Context"} :
          LookedUp(w) \subseteq ToSet(AuthzKeys)
<1>1. Sequence(Keys("AuthorizeRequest", AuthorizeRequest)) /\ LookedUp("AuthorizeRequest") \subseteq ToSet(Keys("AuthorizeRequest", AuthorizeRequest))
  <2>1. DOMAIN AuthorizeRequest = 1 .. 6
    BY DEF AuthorizeRequest
  <2>2. \A a \in Lookups["AuthorizeRequest"] : \E i \in 1 .. 6 : AuthorizeRequest[i] = a
    BY DEF AuthorizeRequest, Lookups
  <2> QED
    BY <2>1, <2>2, KeysOfTable
<1>2. Sequence(Keys("AuthorizeRequestUnsigned", AuthorizeRequestUnsigned)) /\ LookedUp("AuthorizeRequestUnsigned") \subseteq ToSet(Keys("AuthorizeRequestUnsigned", AuthorizeRequestUnsigned))
  <2>1. DOMAIN AuthorizeRequestUnsigned = 1 .. 5
    BY DEF AuthorizeRequestUnsigned
  <2>2. \A a \in Lookups["AuthorizeRequestUnsigned"] : \E i \in 1 .. 5 : AuthorizeRequestUnsigned[i] = a
    BY DEF AuthorizeRequestUnsigned, Lookups
  <2> QED
    BY <2>1, <2>2, KeysOfTable
<1>3. Sequence(Keys("AuthorizeResult", AuthorizeResult)) /\ LookedUp("AuthorizeResult") \subseteq ToSet(Keys("AuthorizeResult", AuthorizeResult))
  <2>1. DOMAIN AuthorizeResult = 1 .. 7
    BY DEF AuthorizeResult
  <2>2. \A a \in Lookups["AuthorizeResult"] : \E i \in 1 .. 7 : AuthorizeResult[i] = a
    BY DEF AuthorizeResult, Lookups
  <2> QED
    BY <2>1, <2>2, KeysOfTable
<1>4. Sequence(Keys("CedarEntityMapping", CedarEntityMapping)) /\ LookedUp("CedarEntityMapping") \subseteq ToSet(Keys("CedarEntityMapping", CedarEntityMapping))
  <2>1. DOMAIN CedarEntityMapping = 1 .. 3
    BY DEF CedarEntityMapping
  <2>2. \A a \in Lookups["CedarEntityMapping"] : \E i \in 1 .. 3 : CedarEntityMapping[i] = a
    BY DEF CedarEntityMapping, Lookups
  <2> QED
    BY <2>1, <2>2, KeysOfTable
<1>5. Sequence(Keys("EntityData", EntityData)) /\ LookedUp("EntityData") \subseteq ToSet(Keys("EntityData", EntityData))
  <2>1. DOMAIN EntityData = 1 .. 3
    BY DEF EntityData
  <2>2. \A a \in Lookups["EntityData"] : \E i \in 1 .. 3 : EntityData[i] = a
    BY DEF EntityData, Lookups
  <2> QED
    BY <2>1, <2>2, KeysOfTable
<1>6. Sequence(Keys("Context", Context)) /\ LookedUp("Context") \subseteq ToSet(Keys("Context", Context))
  <2>1. DOMAIN Context = 1 .. 2
    BY DEF Context
  <2>2. \A a \in Lookups["Context"] : \E i \in 1 .. 2 : Context[i] = a
    BY DEF Context, Lookups
  <2> QED
    BY <2>1, <2>2, KeysOfTable
<1> QED
  BY <1>1, <1>2, <1>3, <1>4, <1>5, <1>6, Concatenation DEF AuthzKeys

LEMMA TableCedarPolicyKeys ==
    /\ Sequence(CedarPolicyKeys)
    /\ \A w \in {"AuthzDecision", "AuthzError", "Diagnostics", "PolicyId",
          "PolicyResponse"} :
          LookedUp(w) \subseteq ToSet(CedarPolicyKeys)
<1>1. Sequence(Keys("AuthzDecision", AuthzDecision)) /\ LookedUp("AuthzDecision") \subseteq ToSet(Keys("AuthzDecision", AuthzDecision))
  <2>1. DOMAIN AuthzDecision = 1 .. 3
    BY DEF AuthzDecision
  <2>2. \A a \in Lookups["AuthzDecision"] : \E i \in 1 .. 3 : AuthzDecision[i] = a
    BY DEF AuthzDecision, Lookups
  <2> QED
    BY <2>1, <2>2, KeysOfTable
<1>2. Sequence(Keys("AuthzError", AuthzError)) /\ LookedUp("AuthzError") \subseteq ToSet(Keys("AuthzError", AuthzError))
  <2>1. DOMAIN AuthzError = 1 .. 2
    BY DEF AuthzError
  <2>2. \A a \in Lookups["AuthzError"] : \E i \in 1 .. 2 : AuthzError[i] = a
    BY DEF AuthzError, Lookups
  <2> QED
    BY <2>1, <2>2, KeysOfTable
<1>3. Sequence(Keys("Diagnostics", Diagnostics)) /\ LookedUp("Diagnostics") \subseteq ToSet(Keys("Diagnostics", Diagnostics))
  <2>1. DOMAIN Diagnostics = 1 .. 4
    BY DEF Diagnostics
  <2>2. \A a \in Lookups["Diagnostics"] : \E i \in 1 .. 4 : Diagnostics[i] = a
    BY DEF Diagnostics, Lookups
  <2> QED
    BY <2>1, <2>2, KeysOfTable
<1>4. Sequence(Keys("PolicyId", PolicyId)) /\ LookedUp("PolicyId") \subseteq ToSet(Keys("PolicyId", PolicyId))
  <2>1. DOMAIN PolicyId = 1 .. 2
    BY DEF PolicyId
  <2>2. \A a \in Lookups["PolicyId"] : \E i \in 1 .. 2 : PolicyId[i] = a
    BY DEF PolicyId, Lookups
  <2> QED
    BY <2>1, <2>2, KeysOfTable
<1>5. Sequence(Keys("PolicyResponse", PolicyResponse)) /\ LookedUp("PolicyResponse") \subseteq ToSet(Keys("PolicyResponse", PolicyResponse))
  <2>1. DOMAIN PolicyResponse = 1 .. 2
    BY DEF PolicyResponse
  <2>2. \A a \in Lookups["PolicyResponse"] : \E i \in 1 .. 2 : PolicyResponse[i] = a
    BY DEF PolicyResponse, Lookups
  <2> QED
    BY <2>1, <2>2, KeysOfTable
<1> QED
  BY <1>1, <1>2, <1>3, <1>4, <1>5, Concatenation DEF CedarPolicyKeys

LEMMA RegistrationsAreNames ==
    /\ Len(Registrations) \in Nat
    /\ Registered = {Registrations[i] : i \in 1 .. Len(Registrations)}
    /\ \A w \in Wrappers : LookedUp(w) \subseteq Registered
<1>1. /\ Sequence(Registrations)
      /\ Registered = ToSet(JniKeys) \cup ToSet(ConfigKeys) \cup ToSet(AuthzKeys)
                        \cup ToSet(CedarPolicyKeys)
  BY TableJniKeys, TableConfigKeys, TableAuthzKeys, TableCedarPolicyKeys, Concatenation
     DEF Registrations, Registered
<1>2. PICK S : Registrations \in Seq(S)
  BY <1>1 DEF Sequence
<1>3. \A w \in Wrappers : LookedUp(w) \subseteq Registered
  BY <1>1, TableJniKeys, TableConfigKeys, TableAuthzKeys, TableCedarPolicyKeys
     DEF Wrappers, Lookups
<1> QED
  BY <1>2, <1>3 DEF Registered, ToSet

-----------------------------------------------------------------------------
LEMMA InvInit == Init => CacheInv
<1> SUFFICES ASSUME Init PROVE CacheInv
  OBVIOUS
<1>1. TypeOK
  <2>1. missing \subseteq Registered /\ cache \subseteq Registered
    BY DEF Init
  <2>2. next \in 1 .. Len(Registrations) + 1
    BY RegistrationsAreNames DEF Init
  <2> QED
    BY <2>1, <2>2 DEF Init, TypeOK
<1>2. OwnerInv
  BY DEF Init, OwnerInv, Initializing
<1>3. FilledInv
  BY RegistrationsAreNames DEF Init, FilledInv
<1> QED
  BY <1>1, <1>2, <1>3 DEF CacheInv

(* One name more. *)
LEMMA RegisterStep ==
    ASSUME CacheInv, NEW t \in Threads, Register(t) PROVE CacheInv'
<1> USE RegistrationsAreNames DEF CacheInv, Register, Goto
<1>1. next \in 1 .. Len(Registrations) /\ Registrations[next] \in Registered
  BY DEF TypeOK
<1>2. TypeOK'
  <2>1. missing' \subseteq Registered /\ cache' \subseteq Registered
    BY <1>1 DEF TypeOK
  <2>2. next' \in 1 .. Len(Registrations) + 1
    BY <1>1 DEF TypeOK
  <2> QED
    BY <2>1, <2>2 DEF TypeOK
<1>3. OwnerInv'
  BY DEF TypeOK, OwnerInv, Initializing
<1>4. FilledInv'
  <2>1. CASE Registrations[next] \in missing
    <3>1. UNCHANGED <<next, cache, missing, clinit>> /\ pending'
      BY <2>1
    <3> QED
      BY <3>1 DEF FilledInv
  <2>2. CASE Registrations[next] \notin missing
    <3>1. /\ cache' = cache \cup {Registrations[next]} /\ next' = next + 1
          /\ UNCHANGED <<clinit, missing, pending>> /\ pc' = [pc EXCEPT ![t] = "register"]
      BY <2>2
    <3>2. cache' = {Registrations[i] : i \in 1 .. next' - 1}
      <4>1. 1 .. next' - 1 = (1 .. next - 1) \cup {next}
        BY <1>1, <3>1
      <4> QED
        BY <3>1, <4>1 DEF FilledInv
    <3>3. cache' \cap missing' = {}
      BY <2>2, <3>1 DEF FilledInv
    <3>4. \A u \in Threads : pc'[u] = "endInit" => pc[u] = "endInit"
      BY <3>1 DEF TypeOK
    <3>5. clinit # "done"
      BY DEF OwnerInv, Initializing
    <3> QED
      BY <1>1, <3>1, <3>2, <3>3, <3>4, <3>5 DEF FilledInv
  <2> QED
    BY <2>1, <2>2
<1> QED
  BY <1>2, <1>3, <1>4

(* The initializer ends: only the thread that runs it can say how. *)
LEMMA EndStep ==
    ASSUME CacheInv, NEW t \in Threads, EndInit(t) \/ EndCache(t) \/ LoadLibrary(t)
    PROVE  CacheInv'
<1> USE RegistrationsAreNames DEF CacheInv, EndInit, EndCache, LoadLibrary, Goto
<1>1. TypeOK'
  BY DEF TypeOK
<1>2. OwnerInv'
  BY DEF TypeOK, OwnerInv, Initializing
<1>3. FilledInv'
  BY DEF TypeOK, FilledInv, OwnerInv, Initializing
<1> QED
  BY <1>1, <1>2, <1>3

LEMMA InvStep == CacheInv /\ [Next]_vars => CacheInv'
<1> SUFFICES ASSUME CacheInv, [Next]_vars PROVE CacheInv'
  OBVIOUS
<1> USE DEF CacheInv
<1>1. ASSUME NEW t \in Threads, Use(t) \/ Wake(t) \/ Leave(t) PROVE CacheInv'
  <2> USE <1>1 DEF Use, Wake, Leave, Goto
  <2>1. TypeOK'
    BY DEF TypeOK
  <2>2. OwnerInv'
    BY DEF TypeOK, OwnerInv, Initializing
  <2>3. FilledInv'
    BY DEF TypeOK, FilledInv
  <2> QED
    BY <2>1, <2>2, <2>3
<1>2. ASSUME NEW t \in Threads, NEW w \in Wrappers, LookUp(t, w) PROVE CacheInv'
  <2>1. TypeOK'
    BY <1>2 DEF LookUp, TypeOK
  <2> QED
    BY <1>2, <2>1 DEF LookUp, OwnerInv, FilledInv, Initializing
<1>3. CASE UNCHANGED vars
  BY <1>3 DEF vars, TypeOK, OwnerInv, FilledInv, Initializing
<1> QED
  BY <1>1, <1>2, <1>3, RegisterStep, EndStep DEF Next, Step, Unusable

(* The inductive invariant of the initialization.                             *)
THEOREM Invariant == Spec => []CacheInv
  BY InvInit, InvStep, PTL DEF Spec

(* Every reachable state is well typed: no name is cached that was not        *)
(* registered.                                                                *)
THEOREM TypeCorrect == Spec => []TypeOK
<1>1. CacheInv => TypeOK
  BY DEF CacheInv
<1> QED
  BY <1>1, Invariant, PTL

LEMMA CompleteForNative == CacheInv => NoPartialCache
<1> SUFFICES ASSUME CacheInv, NEW t \in Threads, pc[t] = "native"
             PROVE  cache = Registered /\ missing = {}
  BY DEF NoPartialCache
<1> USE RegistrationsAreNames DEF CacheInv
<1>1. next = Len(Registrations) + 1
  BY DEF TypeOK, OwnerInv, FilledInv
<1>2. cache = Registered
  BY <1>1 DEF FilledInv
<1> QED
  BY <1>2 DEF TypeOK, FilledInv

(* No thread runs a native method on caches that were filled in part, though  *)
(* initJniCache discards its Result (cedarling.rs:25).                        *)
THEOREM CachesComplete == Spec => []NoPartialCache
  BY Invariant, CompleteForNative, PTL

(* No lookup of a wrapper misses: what it looks up was registered, and a      *)
(* thread in a native method has all of it in the caches.                     *)
THEOREM LookupsHit == Spec => []EveryLookupHits
<1>1. Init => EveryLookupHits
  BY DEF Init, EveryLookupHits
<1>2. CacheInv /\ EveryLookupHits /\ [Next]_vars => EveryLookupHits'
  <2> SUFFICES ASSUME CacheInv, EveryLookupHits, [Next]_vars PROVE EveryLookupHits'
    OBVIOUS
  <2>1. ASSUME NEW t \in Threads, NEW w \in Wrappers, LookUp(t, w) PROVE EveryLookupHits'
    <3>1. LookedUp(w) \subseteq Registered
      BY RegistrationsAreNames
    <3>2. cache = Registered
      BY <2>1, CompleteForNative DEF LookUp, NoPartialCache
    <3> QED
      BY <2>1, <3>1, <3>2 DEF LookUp, EveryLookupHits, CacheInv, TypeOK
  <2>2. CASE UNCHANGED lookup
    BY <2>2 DEF EveryLookupHits
  <2> QED
    BY <2>1, <2>2 DEF Next, Step, Use, Wake, LoadLibrary, Register, EndCache, EndInit,
                      Leave, Unusable, vars
<1> QED
  BY <1>1, <1>2, Invariant, PTL DEF Spec
=============================================================================
