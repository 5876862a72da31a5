-------------------------- MODULE ConfigConversion --------------------------
(***************************************************************************)
(* What `new Cedarling(config)' does before there is an engine: the        *)
(* application puts a BootstrapConfiguration together, with its builder or *)
(* with setters, and the bridge converts it into the Rust BootstrapConfig, *)
(* one Java getter at a time, stopping at the first part it cannot accept. *)
(* The application still has all those objects and may change them while   *)
(* they are read.                                                          *)
(*                                                                         *)
(* A section is a record of the fields of its Java class, or NoSection    *)
(* for null.  The objects inside are flattened into it: EntityNames into   *)
(* "entityBuilder", JsonRule into "authz", MemoryLogConfiguration into     *)
(* "log".  The Rust sections have the field names of the Java ones.        *)
(* Fields that the bridge does not read (TokenValidationConfiguration,     *)
(* UnsignedRoleIdSrc) are left out.                                        *)
(***************************************************************************)
EXTENDS Integers, Sequences, SequencesExt

CONSTANTS Null,
          Unusable,  \* a rule, URI or Duration whose conversion fails
          MaxLong,   \* Long.MAX_VALUE
          SomeLongs, \* the numbers that the application uses
          Cost,      \* Cost[s]: what a change of section s costs
          MaxEdits,  \* bound: what the changes before and during the call cost
          MaxList    \* bound: length of a list that grows

Longs == -MaxLong - 1 .. MaxLong

(* The elements of the lists: algorithms and claims. *)
AllAlgorithms == <<"HS256", "HS384", "HS512", "ES256", "ES384", "RS256", "RS384",
                   "RS512", "PS256", "PS384", "PS512", "EdDSA">>
ClaimNames == {"c1", "c2", "c3", "u1", "u2", "w1"}
Items == ToSet(AllAlgorithms) \cup ClaimNames
Lists == Seq(Items \cup {Null})

DataSources == {"JSON", "YAML", "LOCKMASTER"}
FileSources == {"FILEJSON", "FILEYAML"}

(* The sections in the order in which the bridge converts them. *)
Order == <<"name", "log", "policyStore", "jwt", "authz", "entityBuilder",
           "lock", "limits">>
Sections == ToSet(Order)

(* null is none of the values that it is told from. *)
ASSUME ConfigAssumption ==
    /\ Null # Unusable
    /\ Null \notin Items \cup DataSources \cup FileSources \cup Lists
    /\ MaxLong \in Nat /\ SomeLongs \subseteq Longs /\ 0 \in SomeLongs
    /\ MaxEdits \in Nat /\ MaxList \in Nat
    /\ Cost \in [Sections -> Nat]

NoSection == <<>>

(* The getters of each section, in the order in which they are called. *)
Getters ==
    [name |-> <<"applicationName">>,
     log |-> <<"logType", "logLevel", "memory", "logTtl", "maxItems", "maxItemSize">>,
     policyStore |-> <<"source", "data", "dataPath">>,
     jwt |-> <<"jwks", "jwtCheckSignValidation", "jwtCheckStatusValidation",
               "supportedSignatureAlgorithms">>,
     authz |-> <<"principalBoolOperator", "decisionLogUserClaims",
                 "decisionLogWorkloadClaims", "decisionLogDefaultJwtId",
                 "idTokenTrustMode", "useUserPrincipal", "useWorkloadPrincipal">>,
     entityBuilder |-> <<"buildWorkload", "buildUser", "entityNames",
                         "user", "workload", "role", "iss">>,
     lock |-> <<"logLevel", "configUri", "dynamicConfig", "ssaJwt",
                "logInterval", "healthInterval", "telemetryInterval",
                "listenSse", "acceptInvalidCerts">>,
     limits |-> <<"maxDefaultEntities", "maxBase64Size">>]

(* The getters that return a list, and those under require_some. *)
ListFields == {<<"jwt", "supportedSignatureAlgorithms">>,
               <<"authz", "decisionLogUserClaims">>,
               <<"authz", "decisionLogWorkloadClaims">>}

(* Faulty variant: the trust mode need not be there. *)
Required_NoTrustMode ==
    {<<"name", "applicationName">>, <<"log", "logType">>, <<"log", "logLevel">>,
     <<"policyStore", "source">>,
     <<"authz", "principalBoolOperator">>, <<"authz", "decisionLogDefaultJwtId">>,
     <<"entityBuilder", "entityNames">>, <<"entityBuilder", "user">>,
     <<"entityBuilder", "workload">>, <<"entityBuilder", "role">>,
     <<"entityBuilder", "iss">>, <<"lock", "logLevel">>, <<"lock", "configUri">>}
    \cup ListFields

Required == Required_NoTrustMode \cup {<<"authz", "idTokenTrustMode">>}

(* The objects that are converted by parsing, or by a method that may throw. *)
Parsed == {<<"authz", "principalBoolOperator">>, <<"lock", "configUri">>,
           <<"lock", "logInterval">>, <<"lock", "healthInterval">>,
           <<"lock", "telemetryInterval">>}

-----------------------------------------------------------------------------
(* The values that Java code can put into the fields. *)

OptLongs == SomeLongs \cup {Null}
Intervals == OptLongs \cup {Unusable}
Text == {"text", Null}
Levels == {"FATAL", "ERROR", "WARN", "INFO", "DEBUG", "TRACE", Null}
LogTypes == {"OFF", "MEMORY", "STDOUT", "LOCK", Null}
TrustModes == {"ALWAYS", "NEVER", "IF_PRESENT", "STRICT", Null}

Claims == {<<>>, Null, <<"c1">>, <<"c2", Null>>}
Algorithms == {<<>>, Null, <<"HS256">>, <<"RS256", Null>>, AllAlgorithms}
ItemsOf(s) == IF s = "jwt" THEN {"RS256", Null} ELSE {"c3", Null}

(* The fields that have a setter which assigns its argument. *)
MemoryFields == {"logTtl", "maxItems", "maxItemSize"}
LogSetters ==
    [logType |-> LogTypes, logLevel |-> Levels,
     logTtl |-> SomeLongs, maxItems |-> OptLongs, maxItemSize |-> OptLongs]
JwtSetters ==
    [jwks |-> Text,
     jwtCheckSignValidation |-> BOOLEAN,
     jwtCheckStatusValidation |-> BOOLEAN,
     supportedSignatureAlgorithms |-> Algorithms]
AuthzSetters ==
    [useUserPrincipal |-> BOOLEAN, useWorkloadPrincipal |-> BOOLEAN,
     principalBoolOperator |-> {"rule", Unusable, Null},
     decisionLogUserClaims |-> Claims, decisionLogWorkloadClaims |-> Claims,
     decisionLogDefaultJwtId |-> Text, idTokenTrustMode |-> TrustModes]
EntityBuilderSetters ==
    [buildWorkload |-> BOOLEAN, buildUser |-> BOOLEAN, entityNames |-> {"names", Null},
     user |-> Text, workload |-> Text, role |-> Text, iss |-> Text]
LockSetters ==
    [logLevel |-> Levels, configUri |-> {"url", Unusable, Null},
     dynamicConfig |-> BOOLEAN, ssaJwt |-> Text,
     logInterval |-> Intervals, healthInterval |-> Intervals,
     telemetryInterval |-> Intervals, listenSse |-> BOOLEAN,
     acceptInvalidCerts |-> BOOLEAN]
LimitSetters == [maxDefaultEntities |-> OptLongs, maxBase64Size |-> OptLongs]

Setters ==
    [name |-> [applicationName |-> Text], log |-> LogSetters, jwt |-> JwtSetters,
     authz |-> AuthzSetters, entityBuilder |-> EntityBuilderSetters,
     lock |-> LockSetters, limits |-> LimitSetters]

(* What the constructors leave in the fields.  The memory configuration of a *)
(* LogConfiguration is that of its constructor: see SetMemoryConfiguration.  *)
Log(type, level, memory) ==
    [logType |-> type, logLevel |-> level, memory |-> memory,
     logTtl |-> 0, maxItems |-> Null, maxItemSize |-> Null]
DefaultLog == Log("OFF", "INFO", Null)
DefaultJwt ==
    [jwks |-> Null, jwtCheckSignValidation |-> TRUE,
     jwtCheckStatusValidation |-> TRUE, supportedSignatureAlgorithms |-> <<>>]
DefaultAuthz ==
    [useUserPrincipal |-> TRUE, useWorkloadPrincipal |-> TRUE,
     principalBoolOperator |-> "rule", decisionLogUserClaims |-> <<>>,
     decisionLogWorkloadClaims |-> <<>>, decisionLogDefaultJwtId |-> "text",
     idTokenTrustMode |-> "STRICT"]
DefaultEntityBuilder ==
    [buildWorkload |-> FALSE, buildUser |-> FALSE, entityNames |-> "names",
     user |-> "text", workload |-> "text", role |-> "text", iss |-> "text"]
DefaultLock ==
    [logLevel |-> Null, configUri |-> Null, dynamicConfig |-> FALSE,
     ssaJwt |-> Null, logInterval |-> Null, healthInterval |-> Null,
     telemetryInterval |-> Null, listenSse |-> FALSE, acceptInvalidCerts |-> FALSE]
UsableLock == [DefaultLock EXCEPT !.logLevel = "INFO", !.configUri = "url"]
RichJwt == [DefaultJwt EXCEPT !.supportedSignatureAlgorithms = <<"HS256", "ES256">>]
RichAuthz == [DefaultAuthz EXCEPT !.decisionLogUserClaims = <<"u1", "u2">>,
                                  !.decisionLogWorkloadClaims = <<"w1">>]
NoLimits == [maxDefaultEntities |-> Null, maxBase64Size |-> Null]

(* PolicyStoreConfiguration has no setters: its constructors and factories. *)
Stores ==
    {[source |-> s, data |-> d, dataPath |-> Null] :
        s \in DataSources \cup FileSources \cup {Null}, d \in {"text", "other", Null}}
    \cup {[source |-> s, data |-> Null, dataPath |-> p] :
        s \in DataSources \cup FileSources \cup {Null}, p \in {"path", Null}}

(* The objects that the setters of the BootstrapConfiguration are given.     *)
NewSections ==
    [log |-> {Log(t, "INFO", m) : t \in LogTypes, m \in {"memory", Null}},
     policyStore |-> Stores, jwt |-> {DefaultJwt, RichJwt},
     authz |-> {DefaultAuthz, RichAuthz}, entityBuilder |-> {DefaultEntityBuilder},
     lock |-> {DefaultLock, UsableLock}]

(* The settings that become machine words. *)
Numbers == {<<"lock", "logInterval">>, <<"lock", "healthInterval">>,
            <<"lock", "telemetryInterval">>, <<"limits", "maxDefaultEntities">>,
            <<"limits", "maxBase64Size">>, <<"log", "logTtl">>,
            <<"log", "maxItems">>, <<"log", "maxItemSize">>}

VARIABLES
    config,  \* config[s]: the sections of the Java BootstrapConfiguration
    built,   \* it is as build() returned it
    pc,      \* "java", before a getter, "converted" or "failed"
    at,      \* the section being read, an index of Order
    getter,  \* the next getter of that section
    part,    \* what the getters of the section returned so far
    size,    \* the size of the list being read, as it was read
    index,   \* the number of its elements read so far
    sect,    \* the section being read, if the application has replaced it
    list,    \* the list being read, if the application has replaced it
    rust,    \* rust[s]: the sections of the Rust BootstrapConfig so far
    edits,   \* what the changes have cost
    had,     \* the configurations since the call
    shrunk   \* an element of a list changed its index since the call

java == <<config, built>>
reader == <<pc, at, getter, part, size, index, sect, list, rust>>
ghosts == <<edits, had, shrunk>>
vars == <<java, reader, ghosts>>

(* A configuration from the constructors of its sections, or one with memory *)
(* logging and lists that are not empty.                                     *)
Init ==
    /\ \E rich \in BOOLEAN, lock \in {NoSection, DefaultLock, UsableLock} :
          config =
            [name |-> [applicationName |-> "text"],
             log |-> IF rich THEN Log("MEMORY", "WARN", "memory") ELSE DefaultLog,
             policyStore |-> [source |-> "JSON", data |-> "text", dataPath |-> Null],
             jwt |-> IF rich THEN RichJwt ELSE DefaultJwt,
             authz |-> IF rich THEN RichAuthz ELSE DefaultAuthz,
             entityBuilder |-> DefaultEntityBuilder, lock |-> lock, limits |-> NoLimits]
    /\ built = FALSE
    /\ pc = "java" /\ at = 1 /\ getter = 1 /\ part = <<>> /\ size = 0
    /\ index = 0 /\ sect = NoSection /\ list = Null
    /\ rust = [s \in Sections |-> NoSection]
    /\ edits = 0 /\ had = {} /\ shrunk = FALSE

Section == Order[at]
Field == Getters[Section][getter]

(* Faulty variant: the policy store is fetched anew for every getter. *)
Source_Refetch ==
    IF sect = NoSection \/ (Section = "policyStore" /\ config[Section] # NoSection)
    THEN config[Section] ELSE sect

(* The section and the list that the bridge holds: objects, read through the *)
(* reference that a getter returned.                                         *)
Source == IF sect = NoSection THEN config[Section] ELSE sect
(* Faulty variant: the first list of two is read twice. *)
SourceList_OneList ==
    IF list # Null THEN list
    ELSE IF Section # "authz" \/ Source.decisionLogUserClaims = Null THEN Source[Field]
    ELSE Source.decisionLogUserClaims

SourceList == IF list = Null THEN Source[Field] ELSE list
ReadsSection(s) == pc \in {"field", "size", "item"} /\ s = Section /\ sect = NoSection
ReadsList(s, f) == pc \in {"size", "item"} /\ ReadsSection(s) /\ f = Field /\ list = Null

-----------------------------------------------------------------------------
(* The application.  A section or list that was replaced is not changed any  *)
(* more: for the bridge, changing it is as if it were replaced later.        *)

Edit(s, c) ==
    /\ pc \notin {"converted", "failed"}
    /\ edits + Cost[s] <= MaxEdits
    /\ config' = c
    /\ built' = FALSE
    /\ edits' = edits + Cost[s]
    /\ had' = IF pc = "java" THEN had ELSE had \cup {c}
    /\ UNCHANGED <<pc, at, getter, part, size, index, rust>>

SetField(s, f, v) ==
    /\ config[s] # NoSection
    /\ f \in MemoryFields => config.log.memory # Null
    /\ Edit(s, [config EXCEPT ![s][f] = v])
    /\ list' = IF ReadsList(s, f) THEN config[s][f] ELSE list
    /\ UNCHANGED <<sect, shrunk>>

(* The setters of the BootstrapConfiguration accept null, or another object. *)
SetSection(s, v) ==
    /\ Edit(s, [config EXCEPT ![s] = v])
    /\ sect' = IF ReadsSection(s) THEN config[s] ELSE sect
    /\ UNCHANGED <<list, shrunk>>

(* addSupportedSignatureAlgorithm, addDecisionLogUserClaim and               *)
(* addDecisionLogWorkloadClaims.                                             *)
AddToList(s, f, x) ==
    /\ config[s] # NoSection
    /\ config[s][f] # Null
    /\ Len(config[s][f]) < MaxList
    /\ Edit(s, [config EXCEPT ![s][f] = Append(@, x)])
    /\ UNCHANGED <<sect, list, shrunk>>

(* Through the list that a setter was given and a getter returns.            *)
RemoveFromList(s, f) ==
    /\ config[s] # NoSection
    /\ config[s][f] \notin {Null, <<>>}
    /\ Edit(s, [config EXCEPT ![s][f] = Tail(@)])
    /\ shrunk' = (pc # "java" \/ shrunk)
    /\ UNCHANGED <<sect, list>>

(* setMemoryConfiguration assigns the field to itself: its parameter has     *)
(* another name (LogConfiguration.java:100).                                 *)
SetMemoryConfiguration(m) ==
    /\ config.log # NoSection
    /\ Edit("log", config)
    /\ UNCHANGED <<sect, list, shrunk>>

(* Builder.build *)
Build ==
    /\ pc = "java" /\ ~built
    /\ config.name.applicationName # Null
    /\ NoSection \notin {config.log, config.policyStore, config.jwt, config.authz,
                         config.entityBuilder}
    /\ built' = TRUE
    /\ UNCHANGED <<config, reader, ghosts>>

-----------------------------------------------------------------------------
(* The Rust section made of what the getters returned. *)

(* Faulty variants: the number stays signed; it is narrowed by a bit. *)
AsUnsigned_Signed(n) == n
AsUnsigned_Narrow(n) == IF n = Null THEN Null ELSE n % (MaxLong + 1)

(* `as usize' and `as u64' of a long; None for null. *)
AsUnsigned(n) == IF n = Null THEN Null ELSE n % (2 * (MaxLong + 1))

Converted(s, p) ==
    [f \in DOMAIN p |-> IF <<s, f>> \in Numbers THEN AsUnsigned(p[f]) ELSE p[f]]

(* The Memory variant carries the memory configuration. *)
LogOf(p) ==
    IF p.logType = "MEMORY" THEN Converted("log", p)
    ELSE [logType |-> p.logType, logLevel |-> p.logLevel]

PolicyStoreOf(p) ==
    [source |-> p.source, from |-> IF p.source \in DataSources THEN p.data ELSE p.dataPath]

SectionOf(s, p) ==
    CASE s = "log" -> LogOf(p)
      [] s = "policyStore" -> PolicyStoreOf(p)
      [] OTHER -> Converted(s, p)

(* There is no variant for the lock log, nor one for a memory log without its *)
(* configuration, nor a source without policies.                              *)
Rejects(s, p) ==
    \/ s = "log" /\ p.logType = "LOCK"
    \/ s = "log" /\ p.logType = "MEMORY" /\ p.memory = Null
    \/ s = "policyStore" /\ p.source \in DataSources /\ p.data = Null
    \/ s = "policyStore" /\ p.source \in FileSources /\ p.dataPath = Null

-----------------------------------------------------------------------------
(* as_cedarling_bootstrap_config, a getter per step. *)

(* name and limits are fields of the BootstrapConfiguration itself. *)
Enter(k) == IF Order[k] \in {"name", "limits"} THEN "field" ELSE "section"

Call ==
    /\ pc = "java" /\ pc' = Enter(at)
    /\ had' = {config}
    /\ UNCHANGED <<java, at, getter, part, size, index, sect, list, rust, edits, shrunk>>

(* require_some, or a conversion that fails: no getter is called any more. *)
Reject ==
    /\ pc' = "failed"
    /\ UNCHANGED <<at, getter, part, size, index, sect, list, rust>>

EndSection(r) ==
    /\ rust' = [rust EXCEPT ![Section] = r]
    /\ IF at = Len(Order) THEN pc' = "converted" /\ UNCHANGED at
       ELSE pc' = Enter(at + 1) /\ at' = at + 1
    /\ getter' = 1 /\ part' = <<>> /\ size' = 0 /\ index' = 0
    /\ sect' = NoSection /\ list' = Null

(* The section's getters returned p, and this was its last one, or it was not. *)
Continue(p, last) ==
    IF ~last
    THEN /\ pc' = "field" /\ getter' = getter + 1 /\ part' = p
         /\ size' = 0 /\ index' = 0 /\ list' = Null
         /\ UNCHANGED <<at, sect, rust>>
    ELSE IF Rejects(Section, p) THEN Reject
    ELSE EndSection(SectionOf(Section, p))

With(p, f, v) == [g \in DOMAIN p \cup {f} |-> IF g = f THEN v ELSE p[g]]

IsLast == getter = Len(Getters[Section])

(* Faulty variant: the lock service is demanded. *)
GetSection_LockDemanded ==
    /\ pc = "section"
    /\ IF config[Section] # NoSection
       THEN pc' = "field" /\ UNCHANGED <<at, getter, part, size, index, sect, list, rust>>
       ELSE Reject
    /\ UNCHANGED <<java, ghosts>>

(* The getter of a section.  The lock service is optional. *)
GetSection ==
    /\ pc = "section"
    /\ IF config[Section] # NoSection
       THEN pc' = "field" /\ UNCHANGED <<at, getter, part, size, index, sect, list, rust>>
       ELSE IF Section = "lock" THEN EndSection(NoSection) ELSE Reject
    /\ UNCHANGED <<java, ghosts>>

(* The handle for getJwtCheckSignValidation is that of getJwks: a boolean is   *)
(* made of what is left of a string reference, which is 0 for null.            *)
Returns(f) ==
    IF f # "jwtCheckSignValidation" THEN {Source[f]}
    ELSE IF Source.jwks = Null THEN {FALSE} ELSE BOOLEAN

(* A getter that does not return a list.  Without a memory configuration its   *)
(* getters are not called.                                                     *)
GetField ==
    /\ pc = "field" /\ <<Section, Field>> \notin ListFields
    /\ \E v \in Returns(Field) :
          IF \/ v = Unusable /\ <<Section, Field>> \in Parsed
             \/ v = Null /\ <<Section, Field>> \in Required
          THEN Reject
          ELSE Continue(With(part, Field, v), IsLast \/ (Field = "memory" /\ v = Null))
    /\ UNCHANGED <<java, ghosts>>

(* A getter that returns a list.                                             *)
GetList ==
    /\ pc = "field" /\ <<Section, Field>> \in ListFields
    /\ IF Source[Field] = Null THEN Reject
       ELSE pc' = "size" /\ UNCHANGED <<at, getter, part, size, index, sect, list, rust>>
    /\ UNCHANGED <<java, ghosts>>

(* Its size.  Algorithms are collected in a set, claims in a sequence.       *)
GetSize ==
    /\ pc = "size" /\ pc' = "item"
    /\ size' = Len(SourceList)
    /\ part' = With(part, Field, IF Section = "jwt" THEN {} ELSE <<>>)
    /\ UNCHANGED <<at, getter, index, sect, list, rust>>
    /\ UNCHANGED <<java, ghosts>>

(* Faulty variant: a claim is pushed although it is null. *)
Push_NullKept(s, l, x) == IF s = "jwt" THEN l \cup {x} ELSE Append(l, x)

(* A null claim is skipped. *)
Push(s, l, x) ==
    IF s = "jwt" THEN l \cup {x}
    ELSE IF x = Null THEN l ELSE Append(l, x)

(* Faulty variant: the list is fetched anew for every element. *)
GetItem_Refetch ==
    LET i == index + 1
        l == Source[Field]
        x == IF l # Null /\ i \in DOMAIN l THEN l[i] ELSE Null
    IN /\ pc = "item" /\ i <= size
       /\ IF l = Null \/ i \notin DOMAIN l \/ (Section = "jwt" /\ x = Null) THEN Reject
          ELSE /\ part' = [part EXCEPT ![Field] = Push(Section, @, x)]
               /\ index' = i
               /\ UNCHANGED <<pc, at, getter, size, sect, list, rust>>
       /\ UNCHANGED <<java, ghosts>>

(* List.get(i) throws when the list has become shorter.  A null algorithm is *)
(* an error.                                                                 *)
GetItem ==
    LET i == index + 1
        x == IF i \in DOMAIN SourceList THEN SourceList[i] ELSE Null
    IN /\ pc = "item" /\ i <= size
       /\ IF i \notin DOMAIN SourceList \/ (Section = "jwt" /\ x = Null) THEN Reject
          ELSE /\ part' = [part EXCEPT ![Field] = Push(Section, @, x)]
               /\ index' = i
               /\ UNCHANGED <<pc, at, getter, size, sect, list, rust>>
       /\ UNCHANGED <<java, ghosts>>

EndList ==
    /\ pc = "item" /\ index = size
    /\ Continue(part, IsLast)
    /\ UNCHANGED <<java, ghosts>>

-----------------------------------------------------------------------------
Application ==
    \/ \E s \in DOMAIN Setters : \E f \in DOMAIN Setters[s] :
          \E v \in Setters[s][f] : SetField(s, f, v)
    \/ \E s \in DOMAIN NewSections :
          \E v \in NewSections[s] \cup {NoSection} : SetSection(s, v)
    \/ \E l \in ListFields :
          RemoveFromList(l[1], l[2]) \/ \E x \in ItemsOf(l[1]) : AddToList(l[1], l[2], x)
    \/ \E m \in {"memory", Null} : SetMemoryConfiguration(m)
    \/ Build

Bridge == GetSection \/ GetField \/ GetList \/ GetSize \/ GetItem \/ EndList

Terminated == pc \in {"converted", "failed"} /\ UNCHANGED vars

Next == Application \/ Call \/ Bridge \/ Terminated

Spec == Init /\ [][Next]_vars /\ WF_vars(Bridge)

-----------------------------------------------------------------------------
ConfigOK(c) ==
    /\ DOMAIN c = Sections
    /\ NoSection \notin {c.name, c.limits}
    /\ c.policyStore \in Stores \cup {NoSection}
    /\ \A s \in DOMAIN Setters : c[s] # NoSection =>
          /\ DOMAIN c[s] = ToSet(Getters[s])
          /\ \A f \in DOMAIN Setters[s] :
                c[s][f] \in IF <<s, f>> \in ListFields THEN Lists \cup {Null}
                            ELSE Setters[s][f]

ShapeOK ==
    /\ ConfigOK(config)
    /\ pc \in {"java", "section", "field", "size", "item", "converted", "failed"}
    /\ at \in 1 .. Len(Order) /\ getter \in 1 .. Len(Getters[Section])
    /\ built \in BOOLEAN
    /\ edits \in 0 .. MaxEdits

TypeOK ==
    /\ ShapeOK
    /\ \A s \in Sections : \A f \in DOMAIN rust[s] :
          <<s, f>> \in Numbers => rust[s][f] \in 0 .. 2 * MaxLong + 1 \cup {Null}

(* The elements of a list that are not null, of its first n elements: from    *)
(* none to all of them.                                                       *)
ClaimsUpTo(v) ==
    LET claims[n \in 0 .. Len(v)] ==
            IF n = 0 THEN <<>>
            ELSE IF v[n] = Null THEN claims[n - 1] ELSE Append(claims[n - 1], v[n])
    IN claims

(* What the bridge delivers of a Java value: the value, whatever its field,   *)
(* with numbers as machine words, claims without null.                        *)
Delivered(s, f, v) ==
    IF v = Null THEN Null
    ELSE IF <<s, f>> \in Numbers THEN v % (2 * (MaxLong + 1))
    ELSE IF <<s, f>> \notin ListFields THEN v
    ELSE IF s = "jwt" THEN ToSet(v)
    ELSE ClaimsUpTo(v)[Len(v)]

(* The settings of a configuration that decide something: without memory      *)
(* logging there is no memory configuration to deliver.                       *)
Settings(c, s) ==
    IF c[s] = NoSection \/ s = "policyStore" THEN {}
    ELSE {f \in DOMAIN Setters[s] \ {"jwtCheckSignValidation"} :
            f \in MemoryFields => c.log.logType = "MEMORY"}

(* Every setting of an accepted configuration that nobody changes during the   *)
(* call reaches the engine, in its own place: no getter is called twice and    *)
(* none is forgotten (bootstrap_config.rs:214-266 and the conversions below    *)
(* it).  Not the signature validation: see SignValidationDelivered.            *)
Unedited == had \subseteq {config}

DeliveredFaithfully ==
    pc = "converted" /\ Unedited =>
        /\ \A s \in Sections : \A f \in Settings(config, s) :
              rust[s][f] = Delivered(s, f, config[s][f])
        /\ config.lock = NoSection => rust.lock = NoSection
        /\ rust.policyStore.source = config.policyStore.source
        /\ rust.policyStore.from =
              IF config.policyStore.source \in DataSources THEN config.policyStore.data
              ELSE config.policyStore.dataPath

(* A configuration that is accepted has nothing of what BootstrapConfiguration *)
(* may not have, wherever it is nested; one that is rejected has some of it.   *)
Mandatory(s) ==
    CASE s = "name" -> {"applicationName"}
      [] s = "log" -> {"logType", "logLevel"}
      [] s = "jwt" -> {"supportedSignatureAlgorithms"}
      [] s = "authz" -> {"principalBoolOperator", "decisionLogUserClaims",
                         "decisionLogWorkloadClaims", "decisionLogDefaultJwtId",
                         "idTokenTrustMode"}
      [] s = "entityBuilder" -> {"entityNames", "user", "workload", "role", "iss"}
      [] s = "lock" -> {"logLevel", "configUri"}
      [] OTHER -> {}

IllFormed(c, s) ==
    IF c[s] = NoSection THEN s # "lock"
    ELSE \/ \E f \in Mandatory(s) : c[s][f] = Null
         \/ \E f \in DOMAIN c[s] : <<s, f>> \in Parsed /\ c[s][f] = Unusable
         \/ s = "log" /\ c[s].logType = "LOCK"
         \/ s = "log" /\ c[s].logType = "MEMORY" /\ c[s].memory = Null
         \/ s = "jwt" /\ Null \in ToSet(c[s].supportedSignatureAlgorithms)
         \/ s = "policyStore" /\ ~ \/ c[s].source \in DataSources /\ c[s].data # Null
                                   \/ c[s].source \in FileSources /\ c[s].dataPath # Null

AcceptedIffWellFormed ==
    Unedited =>
        /\ pc = "converted" => \A s \in Sections : ~IllFormed(config, s)
        /\ pc = "failed" => \E s \in Sections : IllFormed(config, s)

(* Changes never make the bridge reject what was acceptable all along: when    *)
(* it stops, the configuration had, at some moment of the call, a part that    *)
(* the bridge may not accept, or a list lost elements while it was read        *)
(* (bootstrap_config.rs:219-244, policy_store_config.rs:112-128, list.rs:104). *)
RejectedForCause ==
    pc = "failed" => shrunk \/ \E c \in had, s \in Sections : IllFormed(c, s)

(* Whatever the application changes meanwhile, the engine is never given a     *)
(* configuration with a hole: what is checked is what was read, and it is not  *)
(* read again (require_some, util.rs:223; jwt_config.rs:129-135).              *)
IsThere(s, f) ==
    /\ <<s, f>> \notin ListFields => rust[s][f] # Null
    /\ <<s, f>> \in Parsed => rust[s][f] # Unusable

EngineNeverIllFormed ==
    pc = "converted" =>
        /\ \A s \in Sections \ {"lock", "policyStore"} :
              rust[s] # NoSection /\ \A f \in Mandatory(s) : IsThere(s, f)
        /\ rust.log.logType # "LOCK"
        /\ rust.log.logType = "MEMORY" =>
              rust.log.memory # Null /\ MemoryFields \subseteq DOMAIN rust.log
        /\ rust.policyStore.from # Null
        /\ rust.jwt.supportedSignatureAlgorithms \subseteq Items
        /\ \A f \in {"decisionLogUserClaims", "decisionLogWorkloadClaims"} :
              rust.authz[f] \in Seq(Items)
        /\ rust.lock # NoSection => \A f \in Mandatory("lock") : IsThere("lock", f)

(* ... and every setting it is given was set at some moment of the call, under *)
(* its name; the policies come from the store that the source speaks of: no    *)
(* mixture of two stores (policy_store_config.rs:112-128).                     *)
Held(s, f) == {c[s][f] : c \in {d \in had : d[s] # NoSection}}

SettingsWereHeld ==
    pc = "converted" =>
        /\ \A s \in Sections \ {"policyStore"} :
              \A f \in (DOMAIN Setters[s] \ {"jwtCheckSignValidation"}) :
                 <<s, f>> \notin ListFields /\ f \in DOMAIN rust[s] =>
                    \E v \in Held(s, f) : rust[s][f] = Delivered(s, f, v)
        /\ \E c \in had : c.policyStore # NoSection /\ rust.policyStore = PolicyStoreOf(c.policyStore)

(* The lists are read by size and index (jwt_config.rs:130-135,                *)
(* authorization_config.rs:197-208) while the application changes them.  As    *)
(* long as it only appends and replaces, what is delivered is a list that the  *)
(* configuration really had; when it removes, each element still was in that   *)
(* list.  Elements of two lists are never mixed.                               *)
ListsWereHeld ==
    pc = "converted" =>
        \A l \in ListFields :
            LET s == l[1]  f == l[2]
                lists == Held(s, f) \ {Null}
                given == rust[s][f]
            IN IF ~shrunk THEN \E v \in lists : given = Delivered(s, f, v)
               ELSE (IF s = "jwt" THEN given ELSE ToSet(given))
                       \subseteq UNION {ToSet(v) : v \in lists}

(* `as usize' and `as u64' wrap negative numbers (bootstrap_config.rs:252,     *)
(* memory_log_config.rs:109, duration.rs:77).  A limit that is not negative is *)
(* kept; a negative one is above every limit that Java can express, so that    *)
(* it never becomes a smaller limit than was asked for.                        *)
LimitsNeverTighten ==
    pc = "converted" =>
        \A l \in Numbers : LET s == l[1]  f == l[2] IN
            f \in DOMAIN rust[s] =>
                \E n \in Held(s, f) :
                    IF n = Null THEN rust[s][f] = Null
                    ELSE IF n >= 0 THEN rust[s][f] = n
                    ELSE \A m \in Longs : rust[s][f] > m

-----------------------------------------------------------------------------
(* The inductive invariant behind all of these.                               *)

(* The configurations since the call.                                         *)
HadInv ==
    /\ \A c \in had : ConfigOK(c)
    /\ IF pc = "java" THEN had = {} ELSE config \in had
    /\ shrunk => \E c, d \in had : c # d

(* A list delivered, or being read to its end.                                *)
ElementsHeld(s, f, x) ==
    /\ IF s = "jwt" THEN x \subseteq Items ELSE x \in Seq(Items)
    /\ (IF s = "jwt" THEN x ELSE ToSet(x)) \subseteq UNION {ToSet(v) : v \in Held(s, f) \ {Null}}

ListSound(s, f, x) ==
    /\ ElementsHeld(s, f, x)
    /\ ~shrunk => \E v \in Held(s, f) \ {Null} : x = Delivered(s, f, v)

(* What a getter returned and was accepted: before and after its conversion.  *)
Accepted(s, f, v) ==
    /\ v \in Held(s, f)
    /\ <<s, f>> \in Required => v # Null
    /\ <<s, f>> \in Parsed => v # Unusable

ReadSound(s, f, v) ==
    IF <<s, f>> \in ListFields THEN ListSound(s, f, v)
    ELSE f # "jwtCheckSignValidation" => Accepted(s, f, v)

FieldSound(s, f, y) ==
    IF <<s, f>> \in ListFields THEN ListSound(s, f, y)
    ELSE f # "jwtCheckSignValidation" =>
            \E v \in Held(s, f) : Accepted(s, f, v) /\ y = Delivered(s, f, v)

(* The memory configuration that the log section has was there with its type. *)
LogRead(p) ==
    /\ "logType" \in DOMAIN p =>
          \E c \in had : /\ c.log # NoSection /\ c.log.logType = p.logType
                         /\ c.log.memory = Source.memory
    /\ "memory" \in DOMAIN p => p.memory = Source.memory

(* The section that is read, and what its getters returned so far.  Nothing   *)
(* gives another memory configuration to a log section that is there.         *)
SourceInv ==
    /\ pc \in {"java", "section"} => sect = NoSection /\ part = <<>> /\ getter = 1
    /\ pc \in {"java", "section", "field"} => list = Null /\ index = 0
    /\ pc = "size" => index = 0
    /\ pc \in {"field", "size", "item"} =>
          /\ \E c \in had : Source = c[Section] /\ c[Section] # NoSection
          /\ Section = "policyStore" => \A f \in DOMAIN part : part[f] = Source[f]
          /\ Section = "log" => LogRead(part)

PartInv ==
    pc \in {"field", "size", "item"} =>
        /\ DOMAIN part = {Getters[Section][i] :
                             i \in 1 .. (IF pc = "item" THEN getter ELSE getter - 1)}
        /\ \A f \in DOMAIN part :
              ~(pc = "item" /\ f = Field) => ReadSound(Section, f, part[f])
        /\ Section = "log" /\ getter > 3 => part.memory # Null

(* The list that is read: as long as it only grows, what was read of it is    *)
(* the beginning of a list that was held.                                     *)
ReadUpTo(s, v, n) == IF s = "jwt" THEN {v[i] : i \in 1 .. n} ELSE ClaimsUpTo(v)[n]

ListInv ==
    /\ pc \in {"size", "item"} =>
        /\ <<Section, Field>> \in ListFields
        /\ SourceList \in Held(Section, Field) \ {Null}
    /\ pc = "item" =>
        /\ size \in Nat /\ index \in 0 .. size
        /\ ElementsHeld(Section, Field, part[Field])
        /\ ~shrunk => \E v \in Held(Section, Field) \ {Null} :
              /\ Len(v) = size /\ size <= Len(SourceList)
              /\ \A i \in 1 .. size : SourceList[i] = v[i]
              /\ part[Field] = ReadUpTo(Section, v, index)

(* The sections of the Rust configuration that are complete.                  *)
SectionSound(s) ==
    /\ \E c \in had : c[s] # NoSection
    /\ DOMAIN rust[s] = IF s = "log" /\ rust.log.logType # "MEMORY"
                        THEN {"logType", "logLevel"} ELSE ToSet(Getters[s])
    /\ \A f \in DOMAIN rust[s] : FieldSound(s, f, rust[s][f])
    /\ s = "log" => /\ rust.log.logType # "LOCK"
                    /\ rust.log.logType = "MEMORY" => rust.log.memory # Null

StoreSound ==
    \E c \in had :
        LET p == c.policyStore IN
        /\ p # NoSection /\ p.source # Null /\ ~Rejects("policyStore", p)
        /\ rust.policyStore = PolicyStoreOf(p)

DoneSound(s) ==
    IF s = "policyStore" THEN StoreSound
    ELSE \/ s = "lock" /\ rust.lock = NoSection /\ \E c \in had : c.lock = NoSection
         \/ SectionSound(s)

RustInv ==
    /\ DOMAIN rust = Sections
    /\ \A k \in 1 .. Len(Order) :
          IF k < at \/ pc = "converted" THEN DoneSound(Order[k])
          ELSE rust[Order[k]] = NoSection

ConfigInv ==
    ShapeOK /\ HadInv /\ SourceInv /\ PartInv /\ ListInv /\ RustInv /\ RejectedForCause

-----------------------------------------------------------------------------
(* "This ensures a valid configuration (from the standpoint of Rust) is passed *)
(* to Cedarling", of the builder (BootstrapConfiguration.java:22).             *)
BuiltIsAccepted == built => pc # "failed"

(* "Enables jwt signature validation" (JwtConfiguration.java:87): what the     *)
(* application asked for is what the engine is told.                           *)
SignValidationDelivered ==
    pc = "converted" /\ Unedited =>
        rust.jwt.jwtCheckSignValidation = config.jwt.jwtCheckSignValidation

(* "Specifies the memory logging configuration in case memory logging is       *)
(* used" (LogConfiguration.java:93).                                           *)
MemorySettingTakesEffect ==
    [][\A m \in {"memory", Null} : SetMemoryConfiguration(m) => config'.log.memory = m]_vars
=============================================================================
