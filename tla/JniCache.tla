------------------------------ MODULE JniCache ------------------------------
(***************************************************************************)
(* How the JNI caches are filled and used.  Every wrapper class of the     *)
(* bridge has a cache of Java classes, method IDs and field IDs.  The      *)
(* static initializer of Java's Cedarling class fills all of them, in a    *)
(* fixed order, through initJniCache, which stops at the first name that   *)
(* the Java library does not have and throws the Err away.  Afterwards     *)
(* each wrapper looks its handles up by the same names, and fails with     *)
(* Cached...NotFound for a name that was not registered.                   *)
(* Access to one cache is serialised by its mutex: a step registers one    *)
(* name, or makes all the lookups of one wrapper.                          *)
(***************************************************************************)
EXTENDS Naturals, Sequences, SequencesExt

CONSTANTS Threads,   \* Java threads
          NoThread   \* the initializer of a class nobody has used

ASSUME CacheAssumption == NoThread \notin Threads

-----------------------------------------------------------------------------
(* What each jni_cache_init registers and each `new' or as_java_object looks *)
(* up, in the order of registration; "class" is add_class.                   *)

Duration == <<"class", "toNanos">>
File == <<"class", "getAbsolutePath">>
List == <<"class", "size", "get">>
URI == <<"class">>
Util == <<"class", "toString", "longValue">>

AuthorizationConfig ==
    <<"class", "getUseUserPrincipal", "getUseWorkloadPrincipal",
      "getPrincipalBoolOperator", "getDecisionLogUserClaims",
      "getDecisionLogWorkloadClaims", "getDecisionLogDefaultJwtId",
      "getIdTokenTrustMode">>
BootstrapConfig ==
    <<"class", "getApplicationName", "getLogConfiguration",
      "getPolicyStoreConfiguration", "getJwtConfiguration",
      "getAuthzConfiguration", "getEntityBuilderConfiguration",
      "getLockConfiguration", "getMaxDefaultEntities", "getMaxBase64Size">>
EntityBuilderConfig ==
    <<"class", "getBuildWorkload", "getBuildUser", "getEntityNames">>
EntityNames == <<"class", "getUser", "getWorkload", "getRole", "getIss">>
JsonRule == <<"class", "getValue">>
JwtConfig ==
    <<"class", "getJwks", "getJwtCheckSignValidation",
      "getJwtCheckStatusValidation", "getSupportedSignatureAlgorithms">>
LockServiceConfig ==
    <<"class", "getLogLevel", "getConfigUri", "getDynamicConfig", "getSsaJwt",
      "getLogInterval", "getHealthInterval", "getTelemetryInterval",
      "getListenSse", "getAcceptInvalidCerts">>
LogConfig ==
    <<"class", "getLogType", "getLogLevel", "getMemoryLogConfiguration">>
MemoryLogConfig == <<"class", "getLogTtl", "getMaxItems", "getMaxItemSize">>
PolicyStoreConfig == <<"class", "getSource", "getData", "getDataPath">>

AuthorizeRequest ==
    <<"class", "getToken", "getTokenNames", "getAction", "getResource",
      "getContext">>
AuthorizeRequestUnsigned ==
    <<"class", "getPrincipals", "getAction", "getResource", "getContext">>
AuthorizeResult ==
    <<"class", "<init>", "setWorkload", "setPerson", "addPrincipal",
      "setDecision", "setRequestId">>
CedarEntityMapping == <<"class", "getId", "getEntityType">>
EntityData == <<"class", "getCedarMapping", "getAttributes">>
Context == <<"class", "getData">>

AuthzDecision == <<"class", "ALLOW", "DENY">>
AuthzError == <<"class", "<init>">>
Diagnostics == <<"class", "<init>", "addPolicyId", "addError">>
PolicyId == <<"class", "<init>">>
PolicyResponse == <<"class", "<init>">>

Keys(wrapper, names) == [i \in DOMAIN names |-> <<wrapper, names[i]>>]

(* The order of each module's jni_cache_init. *)
JniKeys ==
    Keys("Duration", Duration) \o Keys("File", File) \o Keys("List", List)
    \o Keys("URI", URI) \o Keys("Util", Util)
ConfigKeys ==
    Keys("AuthorizationConfig", AuthorizationConfig)
    \o Keys("BootstrapConfig", BootstrapConfig)
    \o Keys("EntityBuilderConfig", EntityBuilderConfig)
    \o Keys("EntityNames", EntityNames) \o Keys("JsonRule", JsonRule)
    \o Keys("JwtConfig", JwtConfig)
    \o Keys("LockServiceConfig", LockServiceConfig)
    \o Keys("LogConfig", LogConfig) \o Keys("MemoryLogConfig", MemoryLogConfig)
    \o Keys("PolicyStoreConfig", PolicyStoreConfig)
AuthzKeys ==
    Keys("AuthorizeRequest", AuthorizeRequest)
    \o Keys("AuthorizeRequestUnsigned", AuthorizeRequestUnsigned)
    \o Keys("AuthorizeResult", AuthorizeResult)
    \o Keys("CedarEntityMapping", CedarEntityMapping)
    \o Keys("EntityData", EntityData) \o Keys("Context", Context)
CedarPolicyKeys ==
    Keys("AuthzDecision", AuthzDecision) \o Keys("AuthzError", AuthzError)
    \o Keys("Diagnostics", Diagnostics) \o Keys("PolicyId", PolicyId)
    \o Keys("PolicyResponse", PolicyResponse)

Registrations == JniKeys \o ConfigKeys \o AuthzKeys \o CedarPolicyKeys
Registered == ToSet(Registrations)

(* What `new' of each wrapper looks up.  Only what is constructed, or read    *)
(* from a static field, needs its class.  JwtConfig asks for getJwks twice:   *)
(* the second time it means getJwtCheckSignValidation.                        *)
Lookups ==
    [Duration |-> {"toNanos"}, File |-> {"getAbsolutePath"}, List |-> {"size", "get"},
     URI |-> {}, Util |-> {"longValue", "toString"},
     AuthorizationConfig |->
        {"getUseUserPrincipal", "getUseWorkloadPrincipal", "getPrincipalBoolOperator",
         "getDecisionLogUserClaims", "getDecisionLogWorkloadClaims",
         "getDecisionLogDefaultJwtId", "getIdTokenTrustMode"},
     BootstrapConfig |->
        {"getApplicationName", "getLogConfiguration", "getPolicyStoreConfiguration",
         "getJwtConfiguration", "getAuthzConfiguration", "getEntityBuilderConfiguration",
         "getLockConfiguration", "getMaxDefaultEntities", "getMaxBase64Size"},
     EntityBuilderConfig |-> {"getBuildWorkload", "getBuildUser", "getEntityNames"},
     EntityNames |-> {"getUser", "getWorkload", "getRole", "getIss"},
     JsonRule |-> {"getValue"},
     JwtConfig |-> {"getJwks", "getJwtCheckStatusValidation", "getSupportedSignatureAlgorithms"},
     LockServiceConfig |->
        {"getLogLevel", "getConfigUri", "getDynamicConfig", "getSsaJwt", "getLogInterval",
         "getHealthInterval", "getTelemetryInterval", "getListenSse", "getAcceptInvalidCerts"},
     LogConfig |-> {"getLogType", "getLogLevel", "getMemoryLogConfiguration"},
     MemoryLogConfig |-> {"getLogTtl", "getMaxItems", "getMaxItemSize"},
     PolicyStoreConfig |-> {"getSource", "getData", "getDataPath"},
     AuthorizeRequest |-> {"getToken", "getTokenNames", "getAction", "getResource", "getContext"},
     AuthorizeRequestUnsigned |-> {"getPrincipals", "getAction", "getResource", "getContext"},
     AuthorizeResult |->
        {"<init>", "setWorkload", "setPerson", "addPrincipal", "setDecision",
         "setRequestId", "class"},
     CedarEntityMapping |-> {"getId", "getEntityType"},
     EntityData |-> {"getCedarMapping", "getAttributes"}, Context |-> {"getData"},
     AuthzDecision |-> {"class", "ALLOW", "DENY"}, AuthzError |-> {"<init>", "class"},
     Diagnostics |-> {"<init>", "addPolicyId", "addError", "class"},
     PolicyId |-> {"<init>", "class"}, PolicyResponse |-> {"<init>", "class"}]
Wrappers == DOMAIN Lookups

(* Faulty variant: a wrapper looks up a name whose registration is commented *)
(* out, as that of UnsignedRoleIdSrc is (config/mod.rs:59).                   *)
LookedUp_Unregistered(w) ==
    {w} \X (Lookups[w] \cup IF w = "EntityBuilderConfig" THEN {"getUnsignedRoleIdSrc"} ELSE {})

LookedUp(w) == {w} \X Lookups[w]

-----------------------------------------------------------------------------
VARIABLES
    clinit,   \* the initialization of class Cedarling, as the JVM sees it
    owner,    \* the thread that runs the static initializer
    missing,  \* the names that the Java library on the class path lacks
    next,     \* the next registration
    cache,    \* the names in the caches
    pending,  \* a Java exception is pending in the initializer
    pc,       \* pc[t]: where thread t is
    lookup    \* lookup[t]: how the last lookups of t ended

vars == <<clinit, owner, missing, next, cache, pending, pc, lookup>>

Init ==
    /\ clinit = "none" /\ owner = NoThread
    /\ missing \in {{}} \cup {{k} : k \in Registered}
    /\ next = 1 /\ cache = {} /\ pending = FALSE
    /\ pc = [t \in Threads |-> "java"]
    /\ lookup = [t \in Threads |-> "none"]

Goto(t, from, to) ==
    /\ pc[t] = from
    /\ pc' = [pc EXCEPT ![t] = to]

(* A thread uses Cedarling: it initializes the class, waits for the thread   *)
(* that does, or enters a native method; when the initialization has failed  *)
(* it stays in Java with a NoClassDefFoundError.                             *)
Use(t) ==
    /\ \/ /\ clinit = "none"
          /\ Goto(t, "java", "load")
          /\ clinit' = "running" /\ owner' = t
       \/ /\ clinit = "running" /\ Goto(t, "java", "waiting")
          /\ UNCHANGED <<clinit, owner>>
       \/ /\ clinit = "done" /\ Goto(t, "java", "native")
          /\ UNCHANGED <<clinit, owner>>
    /\ UNCHANGED <<missing, next, cache, pending, lookup>>

(* The class is initialized, or its initialization has failed for good. *)
Wake(t) ==
    /\ \/ clinit = "done" /\ Goto(t, "waiting", "native")
       \/ clinit = "failed" /\ Goto(t, "waiting", "java")
    /\ UNCHANGED <<clinit, owner, missing, next, cache, pending, lookup>>

(* System.loadLibrary *)
LoadLibrary(t) ==
    /\ \/ Goto(t, "load", "register") /\ UNCHANGED pending
       \/ Goto(t, "load", "endInit") /\ pending' = TRUE
    /\ UNCHANGED <<clinit, owner, missing, next, cache, lookup>>

(* Faulty variants: the exception is cleared before the Err is discarded; a   *)
(* failed registration is tried again; a handle is kept under the name of     *)
(* another class.                                                             *)
Register_Cleared(t) ==
    /\ next <= Len(Registrations)
    /\ IF Registrations[next] \in missing
       THEN Goto(t, "register", "endInit") /\ UNCHANGED <<next, cache>>
       ELSE /\ Goto(t, "register", "register")
            /\ cache' = cache \cup {Registrations[next]}
            /\ next' = next + 1
    /\ UNCHANGED <<clinit, owner, missing, pending, lookup>>

Register_Retry(t) ==
    /\ next <= Len(Registrations)
    /\ Goto(t, "register", "register")
    /\ Registrations[next] \notin missing
    /\ cache' = cache \cup {Registrations[next]}
    /\ next' = next + 1
    /\ UNCHANGED <<clinit, owner, missing, pending, lookup>>

Register_OtherClass(t) ==
    /\ next <= Len(Registrations)
    /\ Goto(t, "register", "register")
    /\ cache' = cache \cup {<<"List", Registrations[next][2]>>}
    /\ next' = next + 1
    /\ UNCHANGED <<clinit, owner, missing, pending, lookup>>

(* add_class, add_instance_method, add_static_field.  A name that the library *)
(* lacks leaves a NoClassDefFoundError or NoSuchMethodError pending, and `?'  *)
(* returns the Err to initJniCache.                                          *)
Register(t) ==
    /\ next <= Len(Registrations)
    /\ IF Registrations[next] \in missing
       THEN /\ Goto(t, "register", "endInit")
            /\ pending' = TRUE
            /\ UNCHANGED <<next, cache>>
       ELSE /\ Goto(t, "register", "register")
            /\ cache' = cache \cup {Registrations[next]}
            /\ next' = next + 1
            /\ UNCHANGED pending
    /\ UNCHANGED <<clinit, owner, missing, lookup>>

EndCache(t) ==
    /\ Goto(t, "register", "endInit")
    /\ next > Len(Registrations)
    /\ UNCHANGED <<clinit, owner, missing, next, cache, pending, lookup>>

(* initJniCache drops its Result and returns.  The JVM then raises what is   *)
(* pending, and the class is unusable for the life of the process.           *)
EndInit(t) ==
    /\ Goto(t, "endInit", IF pending THEN "java" ELSE "native")
    /\ clinit' = IF pending THEN "failed" ELSE "done"
    /\ UNCHANGED <<owner, missing, next, cache, pending, lookup>>

(* A native method makes the handles of a wrapper. *)
LookUp(t, w) ==
    /\ pc[t] = "native"
    /\ lookup' = [lookup EXCEPT ![t] =
                    IF LookedUp(w) \subseteq cache THEN "found" ELSE "notFound"]
    /\ UNCHANGED <<clinit, owner, missing, next, cache, pending, pc>>

Leave(t) ==
    /\ Goto(t, "native", "java")
    /\ UNCHANGED <<clinit, owner, missing, next, cache, pending, lookup>>

Step(t) == LoadLibrary(t) \/ Register(t) \/ EndCache(t) \/ EndInit(t) \/ Wake(t)

(* Not a deadlock: the class failed to initialize. *)
Unusable ==
    /\ clinit = "failed" /\ \A t \in Threads : pc[t] = "java"
    /\ UNCHANGED vars

Next ==
    \/ \E t \in Threads : \/ Use(t) \/ Step(t) \/ Leave(t)
                          \/ \E w \in Wrappers : LookUp(t, w)
    \/ Unusable

Spec == Init /\ [][Next]_vars /\ \A t \in Threads : WF_vars(Step(t))

-----------------------------------------------------------------------------
TypeOK ==
    /\ clinit \in {"none", "running", "done", "failed"}
    /\ owner \in Threads \cup {NoThread}
    /\ missing \subseteq Registered /\ cache \subseteq Registered
    /\ next \in 1 .. Len(Registrations) + 1
    /\ pending \in BOOLEAN
    /\ pc \in [Threads -> {"java", "waiting", "load", "register", "endInit", "native"}]
    /\ lookup \in [Threads -> {"none", "found", "notFound"}]

(* initJniCache discards its Result (cedarling.rs:25).  Even so no thread     *)
(* ever runs a native method on caches that were filled in part.              *)
NoPartialCache ==
    \A t \in Threads : pc[t] = "native" => cache = Registered /\ missing = {}

(* CachedClassNotFound, CachedInstanceMethodNotFound and                      *)
(* CachedStaticFieldNotFound never happen: whatever a wrapper looks up was    *)
(* registered under the same name (jni_cache.rs:48-140).                      *)
EveryLookupHits == \A t \in Threads : lookup[t] # "notFound"

(* A thread that needs the class is not left waiting for its initializer. *)
EveryoneGetsIn ==
    \A t \in Threads :
        pc[t] \in {"load", "register", "endInit", "waiting"}
            ~> pc[t] \in {"native", "java"}
=============================================================================
