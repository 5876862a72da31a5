----------------------- MODULE ConfigConversion_proofs -----------------------
(***************************************************************************)
(* Proofs about module ConfigConversion: ConfigInv is inductive, and the   *)
(* properties follow from it.  A change of the application keeps ConfigInv *)
(* because it only adds to what was held (Monotone), and because the       *)
(* section and the list that are being read stay what they were or become  *)
(* what was just held (EditKeeps).  A step of the bridge keeps it because  *)
(* what a getter returns is held at that moment (SourceHeld) and is not    *)
(* looked at again before the section is complete (SectionDone).           *)
(***************************************************************************)
EXTENDS ConfigConversion, TLAPS, WellFoundedInduction

-----------------------------------------------------------------------------
(* The tables. *)

LEMMA OrderTable ==
    /\ Len(Order) = 8 /\ DOMAIN Order = 1 .. 8
    /\ Sections = {"name", "log", "policyStore", "jwt", "authz", "entityBuilder",
                   "lock", "limits"}
    /\ \A k \in 1 .. 8 : Order[k] \in Sections
    /\ \A k, m \in 1 .. 8 : Order[k] = Order[m] => k = m
    /\ \A s \in Sections : \E k \in 1 .. 8 : s = Order[k]
<1>1. Len(Order) = 8 /\ DOMAIN Order = 1 .. 8
  BY DEF Order
<1>2. \A k \in 1 .. 8 : k = 1 \/ k = 2 \/ k = 3 \/ k = 4 \/ k = 5 \/ k = 6 \/ k = 7 \/ k = 8
  OBVIOUS
<1>3. /\ Order[1] = "name" /\ Order[2] = "log" /\ Order[3] = "policyStore" /\ Order[4] = "jwt"
      /\ Order[5] = "authz" /\ Order[6] = "entityBuilder" /\ Order[7] = "lock"
      /\ Order[8] = "limits"
  BY DEF Order
<1>4. Sections = {Order[k] : k \in 1 .. 8}
  BY <1>1 DEF Sections, ToSet
<1>5. Sections = {"name", "log", "policyStore", "jwt", "authz", "entityBuilder",
                  "lock", "limits"}
  BY <1>2, <1>3, <1>4
<1>6. \A k, m \in 1 .. 8 : Order[k] = Order[m] => k = m
  BY <1>2, <1>3
<1> QED
  BY <1>1, <1>4, <1>5, <1>6

(* The fields of each section, and which come first. *)
LEMMA GetterTable ==
    /\ ToSet(Getters["name"]) = {"applicationName"}
    /\ ToSet(Getters["log"]) =
          {"logType", "logLevel", "memory", "logTtl", "maxItems", "maxItemSize"}
    /\ ToSet(Getters["policyStore"]) = {"source", "data", "dataPath"}
    /\ ToSet(Getters["jwt"]) = {"jwks", "jwtCheckSignValidation", "jwtCheckStatusValidation",
                                "supportedSignatureAlgorithms"}
    /\ ToSet(Getters["authz"]) =
          {"principalBoolOperator", "decisionLogUserClaims", "decisionLogWorkloadClaims",
           "decisionLogDefaultJwtId", "idTokenTrustMode", "useUserPrincipal",
           "useWorkloadPrincipal"}
    /\ ToSet(Getters["entityBuilder"]) =
          {"buildWorkload", "buildUser", "entityNames", "user", "workload", "role", "iss"}
    /\ ToSet(Getters["lock"]) =
          {"logLevel", "configUri", "dynamicConfig", "ssaJwt", "logInterval",
           "healthInterval", "telemetryInterval", "listenSse", "acceptInvalidCerts"}
    /\ ToSet(Getters["limits"]) = {"maxDefaultEntities", "maxBase64Size"}
<1>1. \A i : /\ i \in 1 .. 1 <=> i = 1
             /\ i \in 1 .. 2 <=> i = 1 \/ i = 2
             /\ i \in 1 .. 3 <=> i = 1 \/ i = 2 \/ i = 3
             /\ i \in 1 .. 4 <=> i = 1 \/ i = 2 \/ i = 3 \/ i = 4
             /\ i \in 1 .. 6 <=> i = 1 \/ i = 2 \/ i = 3 \/ i = 4 \/ i = 5 \/ i = 6
             /\ i \in 1 .. 7 <=> i = 1 \/ i = 2 \/ i = 3 \/ i = 4 \/ i = 5 \/ i = 6 \/ i = 7
             /\ i \in 1 .. 9 <=> i = 1 \/ i = 2 \/ i = 3 \/ i = 4 \/ i = 5 \/ i = 6 \/ i = 7
                                   \/ i = 8 \/ i = 9
  OBVIOUS
<1> USE <1>1 DEF Getters, ToSet
<1>2. ToSet(Getters["name"]) = {"applicationName"}
  OBVIOUS
<1>3. ToSet(Getters["log"]) =
          {"logType", "logLevel", "memory", "logTtl", "maxItems", "maxItemSize"}
  OBVIOUS
<1>4. ToSet(Getters["policyStore"]) = {"source", "data", "dataPath"}
  OBVIOUS
<1>5. ToSet(Getters["jwt"]) = {"jwks", "jwtCheckSignValidation", "jwtCheckStatusValidation",
                                "supportedSignatureAlgorithms"}
  OBVIOUS
<1>6. ToSet(Getters["authz"]) =
          {"principalBoolOperator", "decisionLogUserClaims", "decisionLogWorkloadClaims",
           "decisionLogDefaultJwtId", "idTokenTrustMode", "useUserPrincipal",
           "useWorkloadPrincipal"}
  OBVIOUS
<1>7. ToSet(Getters["entityBuilder"]) =
          {"buildWorkload", "buildUser", "entityNames", "user", "workload", "role", "iss"}
  OBVIOUS
<1>8. ToSet(Getters["lock"]) =
          {"logLevel", "configUri", "dynamicConfig", "ssaJwt", "logInterval",
           "healthInterval", "telemetryInterval", "listenSse", "acceptInvalidCerts"}
  OBVIOUS
<1>9. ToSet(Getters["limits"]) = {"maxDefaultEntities", "maxBase64Size"}
  OBVIOUS
<1> QED
  BY <1>2, <1>3, <1>4, <1>5, <1>6, <1>7, <1>8, <1>9

LEMMA GetterLists ==
    /\ DOMAIN Getters = Sections
    /\ \A s \in Sections :
          /\ Len(Getters[s]) \in Nat \ {0}
          /\ ToSet(Getters[s]) = {Getters[s][i] : i \in 1 .. Len(Getters[s])}
    /\ Len(Getters["log"]) = 6
    /\ {Getters["log"][i] : i \in 1 .. 3} = {"logType", "logLevel", "memory"}
    /\ Getters["log"][3] = "memory"
    /\ \A i \in 1 .. 6 : Getters["log"][i] = "memory" => i = 3
<1>1. DOMAIN Getters = Sections
  BY OrderTable DEF Getters
<1>2. ASSUME NEW s \in Sections
      PROVE  Len(Getters[s]) \in Nat \ {0} /\ DOMAIN Getters[s] = 1 .. Len(Getters[s])
  <2> DEFINE P(t) == Len(Getters[t]) \in Nat \ {0} /\ DOMAIN Getters[t] = 1 .. Len(Getters[t])
  <2>1. P("name") /\ P("log") /\ P("policyStore")
    BY DEF Getters
  <2>2. P("jwt") /\ P("authz") /\ P("entityBuilder")
    BY DEF Getters
  <2>3. P("lock") /\ P("limits")
    BY DEF Getters
  <2> HIDE DEF P
  <2>4. P(s)
    BY <2>1, <2>2, <2>3, OrderTable
  <2> QED
    BY <2>4 DEF P
<1>3. \A s \in Sections : ToSet(Getters[s]) = {Getters[s][i] : i \in 1 .. Len(Getters[s])}
  BY <1>2 DEF ToSet
<1>4. Len(Getters["log"]) = 6
  BY DEF Getters
<1>5. \A i : /\ i \in 1 .. 3 <=> i = 1 \/ i = 2 \/ i = 3
             /\ i \in 1 .. 6 <=> i = 1 \/ i = 2 \/ i = 3 \/ i = 4 \/ i = 5 \/ i = 6
  OBVIOUS
<1>6. /\ {Getters["log"][i] : i \in 1 .. 3} = {"logType", "logLevel", "memory"}
      /\ Getters["log"][3] = "memory"
      /\ \A i \in 1 .. 6 : Getters["log"][i] = "memory" => i = 3
  BY <1>5 DEF Getters
<1> QED
  BY <1>1, <1>2, <1>3, <1>4, <1>6

(* What is demanded, parsed and numbered, by section. *)
LEMMA FieldTable ==
    /\ ListFields \subseteq Required
    /\ \A s, f : <<s, f>> \in ListFields => s \in {"jwt", "authz"}
    /\ \A s, f : <<s, f>> \in Numbers =>
          <<s, f>> \notin ListFields /\ <<s, f>> \notin Required /\ s \in {"lock", "limits", "log"}
    /\ \A s, f : <<s, f>> \in Parsed =>
          <<s, f>> \notin ListFields /\ s \in {"authz", "lock"}
    /\ \A s \in Sections : \A f \in Mandatory(s) :
          <<s, f>> \in Required /\ f \in ToSet(Getters[s]) /\ f # "jwtCheckSignValidation"
    /\ \A s \in Sections : \A f \in ToSet(Getters[s]) :
          <<s, f>> \in Required => f \in Mandatory(s) \/ s = "policyStore"
<1>1. /\ ListFields \subseteq Required
      /\ \A s, f : <<s, f>> \in ListFields => s \in {"jwt", "authz"}
  BY DEF ListFields, Required, Required_NoTrustMode
<1>2. \A s, f : <<s, f>> \in Numbers =>
          <<s, f>> \notin ListFields /\ <<s, f>> \notin Required /\ s \in {"lock", "limits", "log"}
  BY DEF ListFields, Required, Required_NoTrustMode, Numbers
<1>3. \A s, f : <<s, f>> \in Parsed =>
          <<s, f>> \notin ListFields /\ s \in {"authz", "lock"}
  BY DEF ListFields, Parsed
<1>4. ASSUME NEW s \in Sections, NEW f \in Mandatory(s)
      PROVE  <<s, f>> \in Required /\ f \in ToSet(Getters[s]) /\ f # "jwtCheckSignValidation"
  BY OrderTable, GetterTable DEF Mandatory, Required, Required_NoTrustMode, ListFields
<1>5. ASSUME NEW s \in Sections, NEW f \in ToSet(Getters[s]), <<s, f>> \in Required
      PROVE  f \in Mandatory(s) \/ s = "policyStore"
  BY <1>5, OrderTable DEF Mandatory, Required, Required_NoTrustMode, ListFields
<1> QED
  BY <1>1, <1>2, <1>3, <1>4, <1>5

(* What the application can put into the fields. *)
LEMMA SetterTable ==
    /\ DOMAIN Setters = Sections \ {"policyStore"}
    /\ \A s \in DOMAIN Setters :
          DOMAIN Setters[s] = ToSet(Getters[s]) \ (IF s = "log" THEN {"memory"} ELSE {})
    /\ \A s \in DOMAIN Setters : \A f \in DOMAIN Setters[s] :
          <<s, f>> \in ListFields => Setters[s][f] \subseteq Lists \cup {Null}
    /\ \A s \in DOMAIN Setters : \A f \in DOMAIN Setters[s] :
          <<s, f>> \in Numbers =>
             Setters[s][f] \subseteq Longs \cup {Null} \cup (IF <<s, f>> \in Parsed THEN {Unusable} ELSE {})
<1>1. DOMAIN Setters = Sections \ {"policyStore"}
  BY OrderTable DEF Setters
<1> DEFINE D(s) == DOMAIN Setters[s] = ToSet(Getters[s]) \ (IF s = "log" THEN {"memory"} ELSE {})
<1>2. D("name") /\ D("log") /\ D("jwt")
  BY GetterTable DEF Setters, LogSetters, JwtSetters
<1>3. D("authz") /\ D("entityBuilder")
  BY GetterTable DEF Setters, AuthzSetters, EntityBuilderSetters
<1>4. D("lock") /\ D("limits")
  BY GetterTable DEF Setters, LockSetters, LimitSetters
<1>5. \A s \in DOMAIN Setters : D(s)
  BY <1>1, <1>2, <1>3, <1>4, OrderTable
<1>6. Claims \subseteq Lists \cup {Null}
  BY DEF Claims, Lists, Items, ClaimNames
<1>7. Algorithms \subseteq Lists \cup {Null}
  <2>1. AllAlgorithms \in Lists
    <3>1. AllAlgorithms \in Seq({"HS256", "HS384", "HS512", "ES256", "ES384", "RS256", "RS384",
                   "RS512", "PS256", "PS384", "PS512", "EdDSA"})
      BY DEF AllAlgorithms
    <3>2. \A x \in DOMAIN AllAlgorithms : AllAlgorithms[x] \in Items
      BY DEF Items, ToSet
    <3> QED
      BY <3>1, <3>2 DEF Lists
  <2>2. /\ AllAlgorithms[1] = "HS256" /\ AllAlgorithms[6] = "RS256" /\ DOMAIN AllAlgorithms = 1 .. 12
    BY DEF AllAlgorithms
  <2>3. "HS256" \in Items /\ "RS256" \in Items
    BY <2>2 DEF Items, ToSet
  <2>4. <<"HS256">> \in Lists /\ <<"RS256", Null>> \in Lists /\ <<>> \in Lists
    BY <2>3 DEF Lists
  <2> QED
    BY <2>1, <2>4 DEF Algorithms
<1>8. \A s \in DOMAIN Setters : \A f \in DOMAIN Setters[s] :
          <<s, f>> \in ListFields => Setters[s][f] \subseteq Lists \cup {Null}
  <2>1. /\ Setters["jwt"]["supportedSignatureAlgorithms"] = Algorithms
        /\ Setters["authz"]["decisionLogUserClaims"] = Claims
        /\ Setters["authz"]["decisionLogWorkloadClaims"] = Claims
    BY DEF Setters, JwtSetters, AuthzSetters
  <2> QED
    BY <1>6, <1>7, <2>1 DEF ListFields
<1>9. \A s \in DOMAIN Setters : \A f \in DOMAIN Setters[s] :
          <<s, f>> \in Numbers =>
             Setters[s][f] \subseteq Longs \cup {Null} \cup (IF <<s, f>> \in Parsed THEN {Unusable} ELSE {})
  <2>1. /\ Setters["log"]["logTtl"] = SomeLongs /\ Setters["log"]["maxItems"] = OptLongs
        /\ Setters["log"]["maxItemSize"] = OptLongs
        /\ Setters["lock"]["logInterval"] = Intervals
        /\ Setters["lock"]["healthInterval"] = Intervals
        /\ Setters["lock"]["telemetryInterval"] = Intervals
        /\ Setters["limits"]["maxDefaultEntities"] = OptLongs
        /\ Setters["limits"]["maxBase64Size"] = OptLongs
    BY DEF Setters, LogSetters, LockSetters, LimitSetters
  <2>2. SomeLongs \subseteq Longs
    BY ConfigAssumption
  <2> QED
    BY <2>1, <2>2 DEF Numbers, Parsed, OptLongs, Intervals
<1> QED
  BY <1>1, <1>5, <1>8, <1>9

(* A list that a configuration has. *)
LEMMA ListTyped ==
    ASSUME NEW c, ConfigOK(c), NEW s, NEW f, <<s, f>> \in ListFields, c[s] # NoSection
    PROVE  c[s][f] \in Lists \cup {Null}
<1>1. s \in DOMAIN Setters /\ f \in DOMAIN Setters[s]
  BY OrderTable, SetterTable, GetterTable DEF ListFields
<1> QED
  BY <1>1 DEF ConfigOK

(* A long, read as an unsigned word of as many bits. *)
LEMMA Unsigned ==
    ASSUME NEW n \in Longs
    PROVE  /\ n % (2 * (MaxLong + 1)) \in 0 .. 2 * MaxLong + 1
           /\ n >= 0 => n % (2 * (MaxLong + 1)) = n
           /\ n < 0 => n % (2 * (MaxLong + 1)) > MaxLong
<1>1. MaxLong \in Nat /\ n \in Int /\ -MaxLong - 1 <= n /\ n <= MaxLong
  BY ConfigAssumption DEF Longs
<1> DEFINE D == 2 * (MaxLong + 1)
<1>2. D \in Nat \ {0} /\ D = 2 * MaxLong + 2
  BY <1>1
<1>3. n % D \in 0 .. D - 1
  BY <1>1, <1>2
<1>4. n >= 0 => n % D = n
  BY <1>1, <1>2
<1>5. n < 0 => n % D = n + D
  BY <1>1, <1>2
<1> QED
  BY <1>1, <1>2, <1>3, <1>4, <1>5

-----------------------------------------------------------------------------
(* The claims of a list.                                                      *)

(* Induction over the natural numbers, of a set: NatInduction takes a         *)
(* predicate, the well-foundedness of < does not.                             *)
LEMMA Induction ==
    ASSUME NEW T, 0 \in T, \A n \in Nat : n \in T => n + 1 \in T
    PROVE  Nat \subseteq T
<1>0. IsWellFoundedOn(OpToRel(<, Nat), Nat)
  BY NatLessThanWellFounded
<1> SUFFICES ASSUME NEW m \in Nat \ T PROVE FALSE
  OBVIOUS
<1>1. Nat \ T \subseteq Nat /\ Nat \ T # {}
  OBVIOUS
<1>2. PICK x \in Nat \ T : \A y \in Nat \ T : ~(<<y, x>> \in OpToRel(<, Nat))
  BY <1>0, <1>1, WFMin
<1>3. x # 0 /\ x - 1 \in Nat /\ (x - 1) + 1 = x
  OBVIOUS
<1>4. <<x - 1, x>> \in OpToRel(<, Nat)
  BY <1>3 DEF OpToRel
<1>5. x - 1 \in T
  BY <1>2, <1>3, <1>4
<1> QED
  BY <1>3, <1>5

(* ClaimsUpTo(v) is the function that its recursive definition describes.     *)
ClaimsFunction(v, n, g) ==
    g = [i \in 0 .. n |-> IF i = 0 THEN <<>>
                          ELSE IF v[i] = Null THEN g[i - 1] ELSE Append(g[i - 1], v[i])]

LEMMA ClaimsPointwise ==
    ASSUME NEW v, NEW n \in Nat, NEW g, ClaimsFunction(v, n, g), NEW i \in 0 .. n
    PROVE  g[i] = IF i = 0 THEN <<>>
                  ELSE IF v[i] = Null THEN g[i - 1] ELSE Append(g[i - 1], v[i])
  BY Zenon DEF ClaimsFunction

LEMMA ClaimsExist ==
    ASSUME NEW v PROVE \A n \in Nat : \E g : ClaimsFunction(v, n, g)
<1> DEFINE T == {n \in Nat : \E g : ClaimsFunction(v, n, g)}
<1>1. 0 \in T
  <2>1. ClaimsFunction(v, 0, [i \in 0 .. 0 |-> <<>>])
    BY DEF ClaimsFunction
  <2> QED
    BY <2>1
<1>2. ASSUME NEW n \in Nat, n \in T PROVE n + 1 \in T
  <2>1. PICK g : ClaimsFunction(v, n, g)
    BY <1>2
  <2> DEFINE last == IF v[n + 1] = Null THEN g[n] ELSE Append(g[n], v[n + 1])
             h == [i \in 0 .. n + 1 |-> IF i = n + 1 THEN last ELSE g[i]]
  <2>2. DOMAIN g = 0 .. n
    BY <2>1 DEF ClaimsFunction
  <2>3. ASSUME NEW i \in 0 .. n + 1
        PROVE  h[i] = IF i = 0 THEN <<>>
                      ELSE IF v[i] = Null THEN h[i - 1] ELSE Append(h[i - 1], v[i])
    <3>1. CASE i = 0
      <4>1. h[0] = g[0] /\ 0 \in 0 .. n
        OBVIOUS
      <4>2. g[0] = <<>>
        BY <2>1, <4>1, ClaimsPointwise
      <4> HIDE DEF h
      <4> QED
        BY <3>1, <4>1, <4>2
    <3>2. CASE i = n + 1
      BY <3>2
    <3>3. CASE i \in 1 .. n
      <4>1. /\ h[i] = g[i] /\ h[i - 1] = g[i - 1]
        BY <3>3
      <4>2. g[i] = IF v[i] = Null THEN g[i - 1] ELSE Append(g[i - 1], v[i])
        BY <2>1, <3>3, ClaimsPointwise
      <4> QED
        BY <3>3, <4>1, <4>2
    <3> QED
      BY <3>1, <3>2, <3>3
  <2>4. ClaimsFunction(v, n + 1, h)
    <3> HIDE DEF last
    <3>1. h = [i \in 0 .. n + 1 |-> h[i]]
      OBVIOUS
    <3> HIDE DEF h
    <3> QED
      BY <2>3, <3>1 DEF ClaimsFunction
  <2> QED
    BY <2>4
<1>3. Nat \subseteq T
  BY <1>1, <1>2, Induction
<1> QED
  BY <1>3

LEMMA ClaimsRecursion ==
    ASSUME NEW v \in Lists
    PROVE  /\ ClaimsUpTo(v)[0] = <<>>
           /\ \A n \in 0 .. Len(v) - 1 :
                 ClaimsUpTo(v)[n + 1] = IF v[n + 1] = Null THEN ClaimsUpTo(v)[n]
                                        ELSE Append(ClaimsUpTo(v)[n], v[n + 1])
<1>1. Len(v) \in Nat
  BY DEF Lists
<1>2. ClaimsUpTo(v) = CHOOSE g : ClaimsFunction(v, Len(v), g)
  BY DEF ClaimsUpTo, ClaimsFunction
<1>3. ClaimsFunction(v, Len(v), ClaimsUpTo(v))
  BY <1>1, <1>2, ClaimsExist
<1> HIDE DEF ClaimsUpTo
<1>4. \A i \in 0 .. Len(v) :
         ClaimsUpTo(v)[i] = IF i = 0 THEN <<>>
                            ELSE IF v[i] = Null THEN ClaimsUpTo(v)[i - 1]
                            ELSE Append(ClaimsUpTo(v)[i - 1], v[i])
  BY <1>1, <1>3, ClaimsPointwise
<1> QED
  BY <1>1, <1>4

-----------------------------------------------------------------------------
(* The sections as their constructors leave them.                             *)
Typed(s, r) ==
    /\ DOMAIN r = ToSet(Getters[s])
    /\ \A f \in DOMAIN Setters[s] :
          r[f] \in IF <<s, f>> \in ListFields THEN Lists \cup {Null} ELSE Setters[s][f]

LEMMA SectionsTyped ==
    /\ Typed("name", [applicationName |-> "text"]) /\ Typed("limits", NoLimits)
    /\ \A type \in LogTypes, level \in Levels : \A m : Typed("log", Log(type, level, m))
    /\ \A c \in {DefaultJwt, RichJwt} : Typed("jwt", c)
    /\ \A c \in {DefaultAuthz, RichAuthz} : Typed("authz", c)
    /\ Typed("entityBuilder", DefaultEntityBuilder)
    /\ \A c \in {DefaultLock, UsableLock} : Typed("lock", c)
<1>1. Typed("name", [applicationName |-> "text"]) /\ Typed("limits", NoLimits)
  BY GetterTable DEF Typed, Setters, ListFields, Text, NoLimits, LimitSetters, OptLongs
<1>2. ASSUME NEW type \in LogTypes, NEW level \in Levels, NEW m
      PROVE  Typed("log", Log(type, level, m))
  BY GetterTable, ConfigAssumption DEF Typed, Setters, ListFields, Log, LogSetters, OptLongs
<1>3. <<>> \in Lists /\ <<"u1", "u2">> \in Lists /\ <<"w1">> \in Lists /\ <<"HS256", "ES256">> \in Lists
  <2>1. /\ AllAlgorithms[1] = "HS256" /\ AllAlgorithms[4] = "ES256" /\ DOMAIN AllAlgorithms = 1 .. 12
    BY DEF AllAlgorithms
  <2>2. /\ "HS256" \in Items /\ "ES256" \in Items
        /\ "u1" \in Items /\ "u2" \in Items /\ "w1" \in Items
    BY <2>1 DEF Items, ToSet, ClaimNames
  <2> QED
    BY <2>2 DEF Lists
<1>4. ASSUME NEW c \in {DefaultJwt, RichJwt} PROVE Typed("jwt", c)
  <2>1. /\ DOMAIN c = {"jwks", "jwtCheckSignValidation", "jwtCheckStatusValidation",
                       "supportedSignatureAlgorithms"}
        /\ c.jwks = Null
        /\ c.jwtCheckSignValidation \in BOOLEAN /\ c.jwtCheckStatusValidation \in BOOLEAN
        /\ c.supportedSignatureAlgorithms \in {<<>>, <<"HS256", "ES256">>}
    <3>1. CASE c = DefaultJwt
      BY <3>1 DEF DefaultJwt
    <3>2. CASE c = RichJwt
      BY <3>2 DEF DefaultJwt, RichJwt
    <3> QED
      BY <3>1, <3>2
  <2>2. Setters["jwt"] = JwtSetters
    BY DEF Setters
  <2>3. c["supportedSignatureAlgorithms"] \in Lists \cup {Null}
    BY <1>3, <2>1
  <2>4. \A f \in DOMAIN JwtSetters :
           c[f] \in IF <<"jwt", f>> \in ListFields THEN Lists \cup {Null} ELSE JwtSetters[f]
    BY <2>1, <2>3 DEF ListFields, JwtSetters, Text
  <2> QED
    BY <2>1, <2>2, <2>4, GetterTable DEF Typed
<1>5. ASSUME NEW c \in {DefaultAuthz, RichAuthz} PROVE Typed("authz", c)
  <2>1. /\ DOMAIN c = {"principalBoolOperator", "decisionLogUserClaims",
                       "decisionLogWorkloadClaims", "decisionLogDefaultJwtId",
                       "idTokenTrustMode", "useUserPrincipal", "useWorkloadPrincipal"}
        /\ c.useUserPrincipal \in BOOLEAN /\ c.useWorkloadPrincipal \in BOOLEAN
        /\ c.principalBoolOperator = "rule" /\ c.decisionLogDefaultJwtId = "text"
        /\ c.idTokenTrustMode = "STRICT"
        /\ c.decisionLogUserClaims \in {<<>>, <<"u1", "u2">>}
        /\ c.decisionLogWorkloadClaims \in {<<>>, <<"w1">>}
    <3>1. CASE c = DefaultAuthz
      BY <3>1 DEF DefaultAuthz
    <3>2. CASE c = RichAuthz
      BY <3>2 DEF DefaultAuthz, RichAuthz
    <3> QED
      BY <3>1, <3>2
  <2>2. Setters["authz"] = AuthzSetters
    BY DEF Setters
  <2>3. /\ c["decisionLogUserClaims"] \in Lists \cup {Null}
        /\ c["decisionLogWorkloadClaims"] \in Lists \cup {Null}
    BY <1>3, <2>1
  <2>4. \A f \in DOMAIN AuthzSetters :
           c[f] \in IF <<"authz", f>> \in ListFields THEN Lists \cup {Null} ELSE AuthzSetters[f]
    BY <2>1, <2>3 DEF ListFields, AuthzSetters, Text, TrustModes
  <2> QED
    BY <2>1, <2>2, <2>4, GetterTable DEF Typed
<1>6. Typed("entityBuilder", DefaultEntityBuilder)
  <2> DEFINE c == DefaultEntityBuilder
  <2>1. /\ DOMAIN c = ToSet(Getters["entityBuilder"])
        /\ Setters["entityBuilder"] = EntityBuilderSetters
    BY GetterTable DEF DefaultEntityBuilder, Setters
  <2>2. /\ c.buildWorkload \in BOOLEAN /\ c.buildUser \in BOOLEAN /\ c.entityNames = "names"
        /\ c.user = "text" /\ c.workload = "text" /\ c.role = "text" /\ c.iss = "text"
    BY DEF DefaultEntityBuilder
  <2> HIDE DEF c
  <2>3. \A f \in DOMAIN EntityBuilderSetters :
           c[f] \in EntityBuilderSetters[f] /\ <<"entityBuilder", f>> \notin ListFields
    BY <2>2 DEF EntityBuilderSetters, Text, ListFields
  <2>4. Typed("entityBuilder", c)
    BY <2>1, <2>3 DEF Typed
  <2> QED
    BY <2>4 DEF c
<1>7. ASSUME NEW c \in {DefaultLock, UsableLock} PROVE Typed("lock", c)
  <2>1. /\ DOMAIN c = {"logLevel", "configUri", "dynamicConfig", "ssaJwt", "logInterval",
                       "healthInterval", "telemetryInterval", "listenSse", "acceptInvalidCerts"}
        /\ c.logLevel \in {Null, "INFO"} /\ c.configUri \in {Null, "url"}
        /\ c.dynamicConfig \in BOOLEAN /\ c.ssaJwt = Null /\ c.logInterval = Null
        /\ c.healthInterval = Null /\ c.telemetryInterval = Null
        /\ c.listenSse \in BOOLEAN /\ c.acceptInvalidCerts \in BOOLEAN
    <3>1. CASE c = DefaultLock
      BY <3>1 DEF DefaultLock
    <3>2. CASE c = UsableLock
      <4>1. c = [logLevel |-> "INFO", configUri |-> "url", dynamicConfig |-> FALSE,
                 ssaJwt |-> Null, logInterval |-> Null, healthInterval |-> Null,
                 telemetryInterval |-> Null, listenSse |-> FALSE, acceptInvalidCerts |-> FALSE]
        BY <3>2 DEF UsableLock, DefaultLock
      <4> QED
        BY <4>1
    <3> QED
      BY <3>1, <3>2
  <2>2. Setters["lock"] = LockSetters
    BY DEF Setters
  <2>3. \A f \in DOMAIN LockSetters : c[f] \in LockSetters[f] /\ <<"lock", f>> \notin ListFields
    BY <2>1 DEF ListFields, LockSetters, Text, Levels, Intervals, OptLongs
  <2> QED
    BY <2>1, <2>2, <2>3, GetterTable DEF Typed
<1> QED
  BY <1>1, <1>2, <1>4, <1>5, <1>6, <1>7

(* The objects that the setters of the BootstrapConfiguration are given.      *)
LEMMA NewTyped ==
    ASSUME NEW s \in DOMAIN NewSections, NEW r \in NewSections[s]
    PROVE  /\ s \in Sections \ {"name", "limits"}
           /\ IF s = "policyStore" THEN r \in Stores ELSE Typed(s, r)
<1>1. DOMAIN NewSections = {"log", "policyStore", "jwt", "authz", "entityBuilder", "lock"}
  BY DEF NewSections
<1>2. /\ NewSections["log"] = {Log(t, "INFO", m) : t \in LogTypes, m \in {"memory", Null}}
      /\ NewSections["policyStore"] = Stores
      /\ NewSections["jwt"] = {DefaultJwt, RichJwt}
      /\ NewSections["authz"] = {DefaultAuthz, RichAuthz}
      /\ NewSections["entityBuilder"] = {DefaultEntityBuilder}
      /\ NewSections["lock"] = {DefaultLock, UsableLock}
  BY DEF NewSections
<1>3. s \in Sections \ {"name", "limits"}
  BY <1>1, OrderTable
<1>4. CASE s = "log"
  <2>1. "INFO" \in Levels
    BY DEF Levels
  <2> QED
    BY <1>2, <1>3, <1>4, <2>1, SectionsTyped
<1>5. CASE s = "policyStore"
  BY <1>2, <1>3, <1>5
<1>6. CASE s \in {"jwt", "authz", "entityBuilder", "lock"}
  BY <1>2, <1>3, <1>6, SectionsTyped
<1> QED
  BY <1>1, <1>4, <1>5, <1>6

(* The initial configurations.                                                *)
LEMMA InvInit == Init => ConfigInv
<1> SUFFICES ASSUME Init PROVE ConfigInv
  OBVIOUS
<1>1. PICK rich \in BOOLEAN, lock \in {NoSection, DefaultLock, UsableLock} :
          config =
            [name |-> [applicationName |-> "text"],
             log |-> IF rich THEN Log("MEMORY", "WARN", "memory") ELSE DefaultLog,
             policyStore |-> [source |-> "JSON", data |-> "text", dataPath |-> Null],
             jwt |-> IF rich THEN RichJwt ELSE DefaultJwt,
             authz |-> IF rich THEN RichAuthz ELSE DefaultAuthz,
             entityBuilder |-> DefaultEntityBuilder, lock |-> lock, limits |-> NoLimits]
  BY DEF Init
<1>2. /\ config["name"] = [applicationName |-> "text"]
      /\ config["log"] = IF rich THEN Log("MEMORY", "WARN", "memory") ELSE DefaultLog
      /\ config["policyStore"] = [source |-> "JSON", data |-> "text", dataPath |-> Null]
      /\ config["jwt"] = IF rich THEN RichJwt ELSE DefaultJwt
      /\ config["authz"] = IF rich THEN RichAuthz ELSE DefaultAuthz
      /\ config["entityBuilder"] = DefaultEntityBuilder
      /\ config["lock"] = lock
      /\ config["limits"] = NoLimits
  BY <1>1
<1>3. DOMAIN config = Sections
  BY <1>1, OrderTable
<1>4. ASSUME NEW s \in DOMAIN Setters, config[s] # NoSection PROVE Typed(s, config[s])
  <2>1. {"MEMORY", "OFF"} \subseteq LogTypes /\ {"WARN", "INFO"} \subseteq Levels
    BY DEF LogTypes, Levels
  <2>2. Typed("log", Log("MEMORY", "WARN", "memory")) /\ Typed("log", DefaultLog)
    BY <2>1, SectionsTyped DEF DefaultLog
  <2> QED
    BY <1>2, <1>4, <2>2, SectionsTyped, SetterTable, OrderTable
<1>5. config["policyStore"] \in Stores
  BY <1>2 DEF Stores, DataSources
<1>6. NoSection \notin {config["name"], config["limits"]}
  <2>1. DOMAIN config["name"] # {} /\ DOMAIN config["limits"] # {} /\ DOMAIN NoSection = {}
    BY <1>2 DEF NoSection, NoLimits
  <2> QED
    BY <2>1
<1>7. ConfigOK(config)
  BY <1>3, <1>4, <1>5, <1>6 DEF ConfigOK, Typed
<1>8. ShapeOK
  <2>1. at = 1 /\ getter = 1 /\ Section \in Sections /\ at \in 1 .. Len(Order)
    BY OrderTable DEF Init, Section
  <2>2. getter \in 1 .. Len(Getters[Section])
    BY <2>1, GetterLists
  <2>3. built \in BOOLEAN
    BY DEF Init
  <2>4. pc = "java" /\ edits = 0
    BY DEF Init
  <2> QED
    BY <1>7, <2>1, <2>2, <2>3, <2>4, ConfigAssumption DEF ShapeOK
<1>9. RustInv
  BY OrderTable DEF Init, RustInv
<1> QED
  BY <1>8, <1>9 DEF Init, ConfigInv, HadInv, SourceInv, PartInv, ListInv, RejectedForCause

-----------------------------------------------------------------------------
(* What was held stays held: what was read of it, and delivered, stays sound. *)
LEMMA Monotone ==
    ASSUME had \subseteq had', shrunk => shrunk', NEW s, NEW f, NEW x
    PROVE  /\ Held(s, f) \subseteq Held(s, f)'
           /\ ElementsHeld(s, f, x) => ElementsHeld(s, f, x)'
           /\ ReadSound(s, f, x) => ReadSound(s, f, x)'
           /\ FieldSound(s, f, x) => FieldSound(s, f, x)'
<1>1. Held(s, f) \subseteq Held(s, f)'
  BY DEF Held
<1>2. ElementsHeld(s, f, x) => ElementsHeld(s, f, x)'
  BY <1>1 DEF ElementsHeld
<1>3. ListSound(s, f, x) => ListSound(s, f, x)'
  BY <1>1, <1>2 DEF ListSound
<1>4. \A v : Accepted(s, f, v) => Accepted(s, f, v)'
  BY <1>1 DEF Accepted
<1>5. ReadSound(s, f, x) => ReadSound(s, f, x)'
  BY <1>3, <1>4 DEF ReadSound
<1>6. FieldSound(s, f, x) => FieldSound(s, f, x)'
  BY <1>1, <1>3, <1>4 DEF FieldSound
<1> QED
  BY <1>1, <1>2, <1>5, <1>6

LEMMA DoneStays ==
    ASSUME had \subseteq had', shrunk => shrunk', NEW s \in Sections, rust'[s] = rust[s], DoneSound(s)
    PROVE  DoneSound(s)'
<1>1. CASE s = "policyStore"
  BY <1>1 DEF DoneSound, StoreSound
<1>2. CASE s # "policyStore" /\ s = "lock" /\ rust.lock = NoSection /\ \E c \in had : c.lock = NoSection
  BY <1>2 DEF DoneSound
<1>3. CASE s # "policyStore" /\ SectionSound(s)
  <2>1. \A f \in DOMAIN rust[s] : FieldSound(s, f, rust[s][f])'
    BY <1>3, Monotone DEF SectionSound
  <2>2. SectionSound(s)'
    BY <1>3, <2>1 DEF SectionSound
  <2> QED
    BY <1>3, <2>2 DEF DoneSound
<1> QED
  BY <1>1, <1>2, <1>3 DEF DoneSound

-----------------------------------------------------------------------------
(* The application.  A change keeps what was read, if the section being read  *)
(* is the same or its successor, and if its list does.                        *)

LEMMA EditKeeps ==
    ASSUME ConfigInv, NEW t \in Sections, NEW c, Edit(t, c), ConfigOK(c),
           shrunk => shrunk', shrunk' => \E d, e \in had' : d # e,
           pc \in {"java", "section"} => sect' = NoSection,
           pc \in {"java", "section", "field"} => list' = Null,
           pc \in {"field", "size", "item"} =>
               /\ \/ Source' = Source
                  \/ Section # "policyStore" /\ Source' = c[Section] /\ c[Section] # NoSection
               /\ Section = "log" => Source'.memory = Source.memory,
           pc \in {"size", "item"} =>
               /\ SourceList' \in Held(Section, Field)' \ {Null}
               /\ ~shrunk' => /\ Len(SourceList) <= Len(SourceList')
                              /\ \A i \in 1 .. Len(SourceList) : SourceList'[i] = SourceList[i]
    PROVE  ConfigInv'
<1>1. /\ edits + Cost[t] <= MaxEdits /\ edits' = edits + Cost[t]
      /\ config' = c /\ built' = FALSE /\ pc \notin {"converted", "failed"}
      /\ had' = IF pc = "java" THEN had ELSE had \cup {c}
      /\ UNCHANGED <<pc, at, getter, part, size, index, rust>>
  BY DEF Edit
<1>2. had \subseteq had' /\ (pc # "java" => c \in had')
  BY <1>1
<1>3. UNCHANGED <<Section, Field>>
  BY <1>1 DEF Section, Field
<1>4. ShapeOK'
  <2>1. /\ pc \in {"java", "section", "field", "size", "item", "converted", "failed"}
        /\ at \in 1 .. Len(Order) /\ getter \in 1 .. Len(Getters[Section])
        /\ edits \in Nat /\ Cost[t] \in Nat
    BY ConfigAssumption DEF ConfigInv, ShapeOK
  <2>2. edits' \in 0 .. MaxEdits
    BY <1>1, <2>1, ConfigAssumption
  <2>3. ConfigOK(config)'
    BY <1>1
  <2>4. built' \in BOOLEAN
    BY <1>1
  <2> QED
    BY <1>1, <1>3, <2>1, <2>2, <2>3, <2>4 DEF ShapeOK
<1>5. HadInv'
  BY <1>1, <1>2 DEF ConfigInv, HadInv, ConfigOK
<1>6. SourceInv'
  <2>1. ASSUME pc \in {"field", "size", "item"}
        PROVE  /\ \E d \in had' : Source' = d[Section] /\ d[Section] # NoSection
               /\ Section = "policyStore" => \A f \in DOMAIN part : part[f] = Source'[f]
               /\ Section = "log" => LogRead(part)'
    <3>1. Section = "log" => LogRead(part) /\ Source'.memory = Source.memory
      BY <2>1 DEF ConfigInv, SourceInv
    <3>2. Section = "log" => LogRead(part)'
      BY <1>1, <1>2, <3>1 DEF LogRead
    <3> QED
      BY <1>2, <2>1, <3>2 DEF ConfigInv, SourceInv
  <2>2. pc \in {"java", "section", "field", "size"} => index = 0
    BY DEF ConfigInv, SourceInv
  <2>3. pc \in {"java", "section"} => part = <<>> /\ getter = 1
    BY DEF ConfigInv, SourceInv
  <2> QED
    BY <1>1, <1>3, <2>1, <2>2, <2>3 DEF SourceInv
<1>7. PartInv'
  <2>1. ASSUME pc \in {"field", "size", "item"}, NEW f \in DOMAIN part, ~(pc = "item" /\ f = Field)
        PROVE  ReadSound(Section, f, part[f])'
    <3>1. ReadSound(Section, f, part[f])
      BY <2>1 DEF ConfigInv, PartInv
    <3> QED
      BY <1>1, <1>2, <1>3, <3>1, Monotone
  <2> QED
    BY <1>1, <1>3, <2>1 DEF ConfigInv, PartInv
<1>8. ListInv'
  <2>0. ASSUME pc = "size" PROVE ListInv'
    BY <1>1, <1>3, <2>0 DEF ListInv, ConfigInv
  <2> SUFFICES ASSUME pc = "item" PROVE ListInv'
    BY <1>1, <2>0 DEF ListInv
  <2>1. /\ <<Section, Field>> \in ListFields
        /\ SourceList \in Held(Section, Field) \ {Null}
        /\ size \in Nat /\ index \in 0 .. size
        /\ ElementsHeld(Section, Field, part[Field])
        /\ ~shrunk => \E v \in Held(Section, Field) \ {Null} :
              /\ Len(v) = size /\ size <= Len(SourceList)
              /\ \A i \in 1 .. size : SourceList[i] = v[i]
              /\ part[Field] = ReadUpTo(Section, v, index)
    BY DEF ConfigInv, ListInv
  <2>2. ElementsHeld(Section, Field, part[Field])'
    BY <1>1, <1>2, <1>3, <2>1, Monotone
  <2>3. ASSUME ~shrunk'
        PROVE  \E v \in Held(Section, Field)' \ {Null} :
                  /\ Len(v) = size /\ size <= Len(SourceList')
                  /\ \A i \in 1 .. size : SourceList'[i] = v[i]
                  /\ part[Field] = ReadUpTo(Section, v, index)
    <3>1. PICK v \in Held(Section, Field) \ {Null} :
              /\ Len(v) = size /\ size <= Len(SourceList)
              /\ \A i \in 1 .. size : SourceList[i] = v[i]
              /\ part[Field] = ReadUpTo(Section, v, index)
      BY <2>1, <2>3
    <3>2. v \in Held(Section, Field)'
      BY <1>2, <1>3, Monotone
    <3>3. Len(SourceList) \in Nat /\ Len(SourceList') \in Nat
      <4>1. SourceList \in Lists /\ SourceList' \in Lists
        <5>1. \A d \in had' : ConfigOK(d)
          BY <1>1 DEF ConfigInv, HadInv
        <5>2. \A d \in had' : d[Section] # NoSection => d[Section][Field] \in Lists \cup {Null}
          BY <2>1, <5>1, ListTyped
        <5>3. SourceList \in Held(Section, Field)' /\ SourceList' \in Held(Section, Field)'
          BY <1>2, <1>3, <2>1, Monotone
        <5>4. Held(Section, Field)' \subseteq Lists \cup {Null}
          BY <1>3, <5>2 DEF Held
        <5> QED
          BY <2>1, <5>3, <5>4
      <4> QED
        BY <4>1 DEF Lists
    <3> QED
      BY <2>1, <2>3, <3>1, <3>2, <3>3
  <2> QED
    BY <1>1, <1>3, <2>1, <2>2, <2>3 DEF ListInv, ReadUpTo
<1>9. RustInv'
  <2>1. \A k \in 1 .. Len(Order) : IF k < at THEN DoneSound(Order[k])'
                                   ELSE rust[Order[k]] = NoSection
    BY <1>1, <1>2, DoneStays, OrderTable DEF ConfigInv, RustInv
  <2> QED
    BY <1>1, <2>1 DEF ConfigInv, RustInv
<1>10. RejectedForCause'
  BY <1>1 DEF RejectedForCause
<1> QED
  BY <1>4, <1>5, <1>6, <1>7, <1>8, <1>9, <1>10 DEF ConfigInv

(* A list that is the same still was held.                                    *)
LEMMA SameList ==
    ASSUME ConfigInv, pc \in {"size", "item"}, SourceList' = SourceList, had \subseteq had',
           UNCHANGED <<Section, Field, shrunk>>
    PROVE  /\ SourceList' \in Held(Section, Field)' \ {Null}
           /\ ~shrunk' => /\ Len(SourceList) <= Len(SourceList')
                          /\ \A i \in 1 .. Len(SourceList) : SourceList'[i] = SourceList[i]
<1>1. SourceList \in Held(Section, Field) \ {Null} /\ <<Section, Field>> \in ListFields
  BY DEF ConfigInv, ListInv
<1>2. SourceList \in Held(Section, Field)'
  BY <1>1, Monotone
<1>3. SourceList \in Lists
  BY <1>1, ListTyped DEF Held, ConfigInv, HadInv
<1>4. Len(SourceList) \in Nat
  BY <1>3 DEF Lists
<1> QED
  BY <1>1, <1>2, <1>4

(* A configuration of which one section was changed, or one field of it.      *)
LEMMA SectionChanged ==
    ASSUME NEW c, ConfigOK(c), NEW s \in Sections, NEW r,
           s \in {"name", "limits"} => r # NoSection,
           IF s = "policyStore" THEN r \in Stores \cup {NoSection}
           ELSE r # NoSection => Typed(s, r)
    PROVE  ConfigOK([c EXCEPT ![s] = r])
<1> DEFINE d == [c EXCEPT ![s] = r]
<1>1. DOMAIN d = Sections /\ d[s] = r /\ \A t \in Sections : t # s => d[t] = c[t]
  BY DEF ConfigOK
<1> HIDE DEF d
<1>2. NoSection \notin {d["name"], d["limits"]}
  BY <1>1, OrderTable DEF ConfigOK
<1>3. d["policyStore"] \in Stores \cup {NoSection}
  BY <1>1, OrderTable DEF ConfigOK
<1>4. ASSUME NEW t \in DOMAIN Setters, d[t] # NoSection PROVE Typed(t, d[t])
  BY <1>1, <1>4, SetterTable DEF ConfigOK, Typed
<1>5. ConfigOK(d)
  BY <1>1, <1>2, <1>3, <1>4 DEF ConfigOK, Typed
<1> QED
  BY <1>5 DEF d

LEMMA FieldChanged ==
    ASSUME NEW c, ConfigOK(c), NEW s \in DOMAIN Setters, c[s] # NoSection,
           NEW f \in DOMAIN Setters[s], NEW v,
           v \in IF <<s, f>> \in ListFields THEN Lists \cup {Null} ELSE Setters[s][f]
    PROVE  LET d == [c EXCEPT ![s][f] = v] IN
           /\ ConfigOK(d)
           /\ d[s] # NoSection /\ d[s][f] = v
           /\ \A g \in DOMAIN c[s] \ {f} : d[s][g] = c[s][g]
           /\ \A t \in Sections \ {s} : d[t] = c[t]
<1> DEFINE r == [c[s] EXCEPT ![f] = v]
<1>1. Typed(s, c[s]) /\ DOMAIN c = Sections /\ s \in Sections /\ s # "policyStore"
  BY SetterTable DEF ConfigOK, Typed
<1>2. f \in ToSet(Getters[s])
  BY SetterTable
<1>3. /\ DOMAIN r = ToSet(Getters[s]) /\ r[f] = v
      /\ \A g \in DOMAIN c[s] \ {f} : r[g] = c[s][g]
  BY <1>1, <1>2 DEF Typed
<1>4. [c EXCEPT ![s][f] = v] = [c EXCEPT ![s] = r]
  OBVIOUS
<1> HIDE DEF r
<1>5. Typed(s, r)
  <2>1. ASSUME NEW g \in DOMAIN Setters[s]
        PROVE  r[g] \in IF <<s, g>> \in ListFields THEN Lists \cup {Null} ELSE Setters[s][g]
    <3>1. g \in DOMAIN c[s]
      BY <1>1, SetterTable DEF Typed
    <3> QED
      BY <1>1, <1>3, <3>1 DEF Typed
  <2> QED
    BY <1>3, <2>1 DEF Typed
<1>6. r # NoSection
  <2>1. DOMAIN NoSection = {}
    BY DEF NoSection
  <2> QED
    BY <1>2, <1>3, <2>1
<1>7. ConfigOK([c EXCEPT ![s] = r])
  BY <1>1, <1>5, <1>6, SectionChanged
<1> QED
  BY <1>1, <1>3, <1>4, <1>6, <1>7

(* What the section and the list that are read depend on.                     *)
LEMMA SetFieldStep ==
    ASSUME ConfigInv, NEW s \in DOMAIN Setters, NEW f \in DOMAIN Setters[s],
           NEW v \in Setters[s][f], SetField(s, f, v)
    PROVE  ConfigInv'
<1> DEFINE c == [config EXCEPT ![s][f] = v]
<1>1. /\ config[s] # NoSection /\ Edit(s, c)
      /\ list' = IF ReadsList(s, f) THEN config[s][f] ELSE list
      /\ UNCHANGED <<sect, shrunk>>
  BY DEF SetField
<1>3. v \in IF <<s, f>> \in ListFields THEN Lists \cup {Null} ELSE Setters[s][f]
  BY SetterTable
<1>4. ConfigOK(config)
  BY DEF ConfigInv, ShapeOK
<1>5. /\ ConfigOK(c) /\ c[s] # NoSection /\ c[s][f] = v
      /\ \A g \in DOMAIN config[s] \ {f} : c[s][g] = config[s][g]
      /\ \A t \in Sections \ {s} : c[t] = config[t]
  BY <1>1, <1>3, <1>4, FieldChanged
<1>6. /\ config' = c /\ UNCHANGED <<Section, Field, pc, shrunk>> /\ had \subseteq had'
      /\ Section \in Sections /\ s # "policyStore"
      /\ pc # "java" => c \in had'
  <2>1. Section \in Sections
    BY OrderTable DEF ConfigInv, ShapeOK, Section
  <2> QED
    BY <1>1, <2>1, SetterTable DEF Edit, Section, Field
<1> HIDE DEF c
<1>7. shrunk' => \E d, e \in had' : d # e
  BY <1>1, <1>6 DEF ConfigInv, HadInv
<1>8. /\ pc \in {"java", "section"} => sect' = NoSection
      /\ pc \in {"java", "section", "field"} => list' = Null
  BY <1>1 DEF ConfigInv, SourceInv, ReadsList
<1>9. ASSUME pc \in {"field", "size", "item"}
      PROVE  /\ \/ Source' = Source
                \/ Section # "policyStore" /\ Source' = c[Section] /\ c[Section] # NoSection
             /\ Section = "log" => Source'.memory = Source.memory
  <2>1. \/ Source' = Source
        \/ Section = s /\ Source = config[s] /\ Source' = c[s]
    BY <1>1, <1>5, <1>6 DEF Source
  <2>2. s = "log" => c[s]["memory"] = config[s]["memory"]
    <3>1. s = "log" => "memory" \in DOMAIN config[s] \ {f}
      BY <1>1, <1>4, SetterTable, GetterTable DEF ConfigOK
    <3> QED
      BY <1>5, <3>1
  <2> QED
    BY <1>5, <1>6, <2>1, <2>2
<1>10. ASSUME pc \in {"size", "item"} PROVE SourceList' = SourceList
  <2>0. SourceList # Null
    BY <1>10 DEF ConfigInv, ListInv
  <2>1. CASE list # Null
    BY <1>1, <2>1 DEF SourceList, ReadsList
  <2>2. CASE ReadsList(s, f)
    <3>1. list' = Source[Field]
      BY <1>1, <2>2 DEF ReadsList, ReadsSection, Source
    <3>2. list' = SourceList /\ list' # Null
      BY <2>0, <2>2, <3>1 DEF SourceList, ReadsList
    <3> QED
      BY <3>2 DEF SourceList
  <2>3. CASE list = Null /\ ~ReadsList(s, f)
    <3>1. Source'[Field] = Source[Field]
      <4>1. CASE sect # NoSection
        BY <1>1, <4>1 DEF Source
      <4>2. CASE sect = NoSection /\ Section # s
        BY <1>1, <1>5, <1>6, <4>2 DEF Source
      <4>3. CASE sect = NoSection /\ Section = s
        <5>1. Field # f
          BY <1>10, <2>3, <4>3 DEF ReadsList, ReadsSection
        <5>2. Field \in DOMAIN config[s]
          <6>1. /\ Field \in ToSet(Getters[Section])
            BY GetterLists, <1>6 DEF ConfigInv, ShapeOK, Field
          <6>2. DOMAIN config[s] = ToSet(Getters[s])
            BY <1>1, <1>4 DEF ConfigOK
          <6> QED
            BY <4>3, <6>1, <6>2
        <5> QED
          BY <1>1, <1>5, <1>6, <4>3, <5>1, <5>2 DEF Source
      <4> QED
        BY <4>1, <4>2, <4>3
    <3> QED
      BY <1>1, <1>6, <2>3, <3>1 DEF SourceList
  <2> QED
    BY <2>1, <2>2, <2>3
<1>11. ASSUME pc \in {"size", "item"}
       PROVE  /\ SourceList' \in Held(Section, Field)' \ {Null}
              /\ ~shrunk' => /\ Len(SourceList) <= Len(SourceList')
                             /\ \A i \in 1 .. Len(SourceList) : SourceList'[i] = SourceList[i]
  BY <1>6, <1>10, <1>11, SameList
<1>12. s \in Sections
  BY OrderTable, SetterTable
<1> QED
  BY <1>1, <1>5, <1>7, <1>8, <1>9, <1>11, <1>6, <1>12, EditKeeps

LEMMA SetSectionStep ==
    ASSUME ConfigInv, NEW s \in Sections \ {"name", "limits"}, NEW r, SetSection(s, r),
           IF s = "policyStore" THEN r \in Stores \cup {NoSection}
           ELSE r # NoSection => Typed(s, r)
    PROVE  ConfigInv'
<1> DEFINE c == [config EXCEPT ![s] = r]
<1>1. /\ Edit(s, c)
      /\ sect' = IF ReadsSection(s) THEN config[s] ELSE sect
      /\ UNCHANGED <<list, shrunk>>
  BY DEF SetSection
<1>2. ConfigOK(config) /\ DOMAIN config = Sections
  BY DEF ConfigInv, ShapeOK, ConfigOK
<1>3. ConfigOK(c) /\ c[s] = r /\ \A t \in Sections \ {s} : c[t] = config[t]
  BY <1>2, SectionChanged
<1>4. /\ config' = c /\ UNCHANGED <<Section, Field, pc, shrunk>> /\ had \subseteq had'
      /\ Section \in Sections
  <2>1. Section \in Sections
    BY OrderTable DEF ConfigInv, ShapeOK, Section
  <2> QED
    BY <1>1, <2>1 DEF Edit, Section, Field
<1> HIDE DEF c
<1>5. shrunk' => \E d, e \in had' : d # e
  BY <1>1, <1>4 DEF ConfigInv, HadInv
<1>6. /\ pc \in {"java", "section"} => sect' = NoSection
      /\ pc \in {"java", "section", "field"} => list' = Null
  BY <1>1 DEF ConfigInv, SourceInv, ReadsSection
<1>7. ASSUME pc \in {"field", "size", "item"} PROVE Source' = Source
  <2>0. Source # NoSection
    BY <1>7 DEF ConfigInv, SourceInv
  <2>1. CASE ReadsSection(s)
    <3>1. sect' = Source
      BY <1>1, <2>1 DEF ReadsSection, Source
    <3> QED
      BY <2>0, <3>1 DEF Source
  <2>2. CASE ~ReadsSection(s)
    BY <1>1, <1>3, <1>4, <1>7, <2>2 DEF ReadsSection, Source
  <2> QED
    BY <2>1, <2>2
<1>8. ASSUME pc \in {"size", "item"}
      PROVE  /\ SourceList' \in Held(Section, Field)' \ {Null}
             /\ ~shrunk' => /\ Len(SourceList) <= Len(SourceList')
                            /\ \A i \in 1 .. Len(SourceList) : SourceList'[i] = SourceList[i]
  <2>1. SourceList' = SourceList
    BY <1>1, <1>4, <1>7, <1>8 DEF SourceList
  <2> QED
    BY <1>4, <1>8, <2>1, SameList
<1> QED
  BY <1>1, <1>3, <1>4, <1>5, <1>6, <1>7, <1>8, EditKeeps

(* A list that is changed in place: its section and it are read as they are   *)
(* after the change, unless the application had replaced them.                *)
LEMMA ListStep ==
    ASSUME ConfigInv, NEW s, NEW f, <<s, f>> \in ListFields,
           config[s] # NoSection, config[s][f] # Null,
           NEW l \in Lists, Edit(s, [config EXCEPT ![s][f] = l]), UNCHANGED <<sect, list>>,
           \/ /\ UNCHANGED shrunk /\ Len(config[s][f]) <= Len(l)
              /\ \A i \in 1 .. Len(config[s][f]) : l[i] = config[s][f][i]
           \/ shrunk' = (pc # "java" \/ shrunk) /\ l # config[s][f]
    PROVE  ConfigInv'
<1> DEFINE c == [config EXCEPT ![s][f] = l]
<1>1. /\ s \in DOMAIN Setters /\ f \in DOMAIN Setters[s] /\ s # "policyStore" /\ s \in Sections
  BY OrderTable, SetterTable, GetterTable DEF ListFields
<1>2. ConfigOK(config)
  BY DEF ConfigInv, ShapeOK
<1>3. /\ ConfigOK(c) /\ c[s] # NoSection /\ c[s][f] = l
      /\ \A g \in DOMAIN config[s] \ {f} : c[s][g] = config[s][g]
      /\ \A t \in Sections \ {s} : c[t] = config[t]
  BY <1>1, <1>2, FieldChanged
<1>4. Edit(s, c)
  OBVIOUS
<1> HIDE DEF c
<1>5. /\ config' = c /\ UNCHANGED <<Section, Field, pc>> /\ had \subseteq had'
      /\ Section \in Sections
      /\ pc # "java" => c \in had' /\ config \in had'
      /\ pc = "java" => UNCHANGED had
  <2>1. Section \in Sections
    BY OrderTable DEF ConfigInv, ShapeOK, Section
  <2> QED
    BY <1>4, <2>1 DEF Edit, Section, Field, ConfigInv, HadInv
<1>6. shrunk => shrunk'
  OBVIOUS
<1>7. shrunk' => \E d, e \in had' : d # e
  <2>1. CASE shrunk
    BY <1>5, <2>1 DEF ConfigInv, HadInv
  <2>2. CASE ~shrunk /\ shrunk'
    <3>1. pc # "java" /\ l # config[s][f]
      BY <2>2
    <3>2. c # config
      BY <1>3, <3>1
    <3> QED
      BY <1>5, <3>1, <3>2
  <2> QED
    BY <2>1, <2>2
<1>8. /\ pc \in {"java", "section"} => sect' = NoSection
      /\ pc \in {"java", "section", "field"} => list' = Null
  BY DEF ConfigInv, SourceInv
<1>9. ASSUME pc \in {"field", "size", "item"}
      PROVE  /\ \/ Source' = Source
                \/ Section # "policyStore" /\ Source' = c[Section] /\ c[Section] # NoSection
             /\ Section = "log" => Source' = Source
  <2>1. s # "log"
    BY DEF ListFields
  <2> QED
    BY <1>1, <1>3, <1>5, <2>1 DEF Source
<1>10. ASSUME pc \in {"size", "item"}
       PROVE  /\ SourceList' \in Held(Section, Field)' \ {Null}
              /\ ~shrunk' => /\ Len(SourceList) <= Len(SourceList')
                             /\ \A i \in 1 .. Len(SourceList) : SourceList'[i] = SourceList[i]
  <2>1. CASE list = Null /\ sect = NoSection /\ Section = s /\ Field = f
    <3>1. SourceList = config[s][f] /\ SourceList' = l
      BY <1>3, <1>5, <2>1 DEF SourceList, Source
    <3>2. l \in Held(Section, Field)'
      <4>1. c \in had' /\ c[s] # NoSection /\ c[s][f] = l
        BY <1>3, <1>5, <1>10
      <4>2. Section' = s /\ Field' = f
        BY <1>5, <2>1
      <4> QED
        BY <4>1, <4>2, <2>1 DEF Held
    <3>3. l # Null
      BY ConfigAssumption
    <3> QED
      BY <1>10, <3>1, <3>2, <3>3
  <2>2. CASE ~(list = Null /\ sect = NoSection /\ Section = s /\ Field = f)
    <3>1. Field \in ToSet(Getters[Section])
      BY GetterLists, <1>5 DEF ConfigInv, ShapeOK, Field
    <3>2. SourceList' = SourceList
      <4>1. CASE list # Null
        BY <4>1 DEF SourceList
      <4>2. CASE list = Null /\ sect # NoSection
        BY <1>5, <4>2 DEF SourceList, Source
      <4>3. CASE list = Null /\ sect = NoSection /\ Section # s
        BY <1>3, <1>5, <4>3 DEF SourceList, Source
      <4>4. CASE list = Null /\ sect = NoSection /\ Section = s /\ Field # f
        <5>1. DOMAIN config[s] = ToSet(Getters[s])
          BY <1>1, <1>2 DEF ConfigOK
        <5> QED
          BY <1>3, <1>5, <3>1, <4>4, <5>1 DEF SourceList, Source
      <4> QED
        BY <2>2, <4>1, <4>2, <4>3, <4>4
    <3>3. SourceList \in Held(Section, Field)' /\ SourceList # Null
      BY <1>5, <1>6, <1>10, Monotone DEF ConfigInv, ListInv
    <3>4. Len(SourceList) \in Nat
      BY <1>10, ListTyped DEF Held, ConfigInv, HadInv, ListInv, Lists
    <3> QED
      BY <3>2, <3>3, <3>4
  <2> QED
    BY <2>1, <2>2
<1> QED
  BY <1>1, <1>3, <1>4, <1>5, <1>6, <1>7, <1>8, <1>9, <1>10, EditKeeps

LEMMA ApplicationStep == ConfigInv /\ Application => ConfigInv'
<1> SUFFICES ASSUME ConfigInv, Application PROVE ConfigInv'
  OBVIOUS
<1>0. ConfigOK(config) /\ DOMAIN config = Sections
  BY DEF ConfigInv, ShapeOK, ConfigOK
<1>1. ASSUME NEW s \in DOMAIN Setters, NEW f \in DOMAIN Setters[s], NEW v \in Setters[s][f],
             SetField(s, f, v)
      PROVE  ConfigInv'
  BY <1>1, SetFieldStep
<1>2. ASSUME NEW s \in DOMAIN NewSections, NEW r \in NewSections[s] \cup {NoSection},
             SetSection(s, r)
      PROVE  ConfigInv'
  <2>1. s \in Sections \ {"name", "limits"}
    BY OrderTable DEF NewSections
  <2>2. IF s = "policyStore" THEN r \in Stores \cup {NoSection}
        ELSE r # NoSection => Typed(s, r)
    BY NewTyped
  <2> QED
    BY <1>2, <2>1, <2>2, SetSectionStep
<1>5. ASSUME NEW l \in ListFields, RemoveFromList(l[1], l[2]) PROVE ConfigInv'
  <2> DEFINE s == l[1]
             f == l[2]
             old == config[s][f]
  <2>1. /\ config[s] # NoSection /\ old # Null /\ old # <<>>
        /\ Edit(s, [config EXCEPT ![s][f] = Tail(old)])
        /\ shrunk' = (pc # "java" \/ shrunk) /\ UNCHANGED <<sect, list>>
    BY <1>5 DEF RemoveFromList
  <2>2. <<s, f>> \in ListFields
    BY DEF ListFields
  <2>3. old \in Lists
    BY <1>0, <2>1, <2>2, ListTyped
  <2>4. Tail(old) \in Lists /\ Tail(old) # old
    <3>1. Tail(old) \in Lists /\ Len(Tail(old)) # Len(old)
      <4> HIDE DEF old
      <4> QED
        BY <2>1, <2>3 DEF Lists
    <3> QED
      BY <3>1
  <2> QED
    BY <2>1, <2>2, <2>4, ListStep
<1>6. ASSUME NEW l \in ListFields, NEW x \in ItemsOf(l[1]), AddToList(l[1], l[2], x)
      PROVE  ConfigInv'
  <2> DEFINE s == l[1]
             f == l[2]
             old == config[s][f]
  <2>1. /\ config[s] # NoSection /\ old # Null
        /\ Edit(s, [config EXCEPT ![s][f] = Append(old, x)])
        /\ UNCHANGED <<sect, list, shrunk>>
    BY <1>6 DEF AddToList
  <2>2. <<s, f>> \in ListFields
    BY DEF ListFields
  <2>3. old \in Lists
    BY <1>0, <2>1, <2>2, ListTyped
  <2>4. x \in Items \cup {Null}
    <3>1. AllAlgorithms[6] = "RS256" /\ DOMAIN AllAlgorithms = 1 .. 12
      BY DEF AllAlgorithms
    <3>2. "RS256" \in Items
      BY <3>1 DEF Items, ToSet
    <3>3. "c3" \in Items
      BY DEF Items, ClaimNames
    <3> QED
      BY <3>2, <3>3 DEF ItemsOf
  <2>5. /\ Append(old, x) \in Lists /\ Len(old) <= Len(Append(old, x))
        /\ \A i \in 1 .. Len(old) : Append(old, x)[i] = old[i]
    <3> HIDE DEF old
    <3> QED
      BY <2>3, <2>4 DEF Lists
  <2> QED
    BY <2>1, <2>2, <2>5, ListStep
<1>7. ASSUME NEW m, SetMemoryConfiguration(m) PROVE ConfigInv'
  <2>1. Edit("log", config) /\ UNCHANGED <<sect, list, shrunk>>
    BY <1>7 DEF SetMemoryConfiguration
  <2>2. /\ UNCHANGED <<config, Section, Field, pc, Source, SourceList>> /\ had \subseteq had'
    BY <2>1 DEF Edit, Section, Field, Source, SourceList
  <2>4. shrunk' => \E d, e \in had' : d # e
    BY <2>1, <2>2 DEF ConfigInv, HadInv
  <2>5. /\ pc \in {"java", "section"} => sect' = NoSection
        /\ pc \in {"java", "section", "field"} => list' = Null
    BY <2>1 DEF ConfigInv, SourceInv
  <2>6. "log" \in Sections
    BY OrderTable
  <2> QED
    BY <1>0, <2>1, <2>2, <2>4, <2>5, <2>6, SameList, EditKeeps
<1>8. CASE Build
  <2>1. pc = "java" /\ built' = TRUE /\ UNCHANGED <<config, reader, ghosts>>
    BY <1>8 DEF Build
  <2>3. ShapeOK' /\ HadInv'
    BY <2>1 DEF ConfigInv, ShapeOK, HadInv, reader, ghosts, Section
  <2>4. SourceInv' /\ PartInv' /\ ListInv' /\ RejectedForCause'
    BY <2>1 DEF ConfigInv, SourceInv, PartInv, ListInv, RejectedForCause, reader, ghosts
  <2>5. RustInv'
    <3>1. had \subseteq had' /\ UNCHANGED <<rust, shrunk, pc, at>>
      BY <2>1 DEF reader, ghosts
    <3> QED
      BY <3>1, DoneStays, OrderTable DEF ConfigInv, RustInv
  <2> QED
    BY <2>3, <2>4, <2>5 DEF ConfigInv
<1> QED
  BY <1>1, <1>2, <1>5, <1>6, <1>7, <1>8 DEF Application

-----------------------------------------------------------------------------
(* The bridge. *)

LEMMA Positions ==
    ASSUME ConfigInv
    PROVE  /\ Section \in Sections /\ at \in 1 .. 8 /\ getter \in 1 .. Len(Getters[Section])
           /\ Len(Getters[Section]) \in Nat
           /\ Field \in ToSet(Getters[Section])
           /\ ConfigOK(config) /\ DOMAIN config = Sections /\ DOMAIN rust = Sections
<1>1. at \in 1 .. 8 /\ Section \in Sections
  BY OrderTable DEF ConfigInv, ShapeOK, Section
<1>2. getter \in 1 .. Len(Getters[Section]) /\ ConfigOK(config) /\ DOMAIN rust = Sections
  BY DEF ConfigInv, ShapeOK, RustInv
<1>3. Field \in ToSet(Getters[Section])
  BY <1>1, <1>2, GetterLists DEF Field
<1> QED
  BY <1>1, <1>2, <1>3, GetterLists DEF ConfigOK

(* Nothing was edited: the configuration is what was held, and no list shrank. *)
LEMMA UneditedHeld ==
    ASSUME ConfigInv, pc # "java", Unedited
    PROVE  /\ had = {config} /\ ~shrunk
           /\ \A s, f : \A v \in Held(s, f) : config[s] # NoSection /\ v = config[s][f]
<1>1. had = {config}
  BY DEF ConfigInv, HadInv, Unedited
<1>2. ~shrunk
  BY <1>1 DEF ConfigInv, HadInv
<1> QED
  BY <1>1, <1>2 DEF Held

(* What a section that is read shows was held. *)
LEMMA SourceHeld ==
    ASSUME ConfigInv, pc \in {"field", "size", "item"}
    PROVE  /\ Source # NoSection
           /\ \A f : Source[f] \in Held(Section, f)
           /\ \E c \in had : c[Section] = Source /\ c[Section] # NoSection
<1>1. PICK c \in had : Source = c[Section] /\ c[Section] # NoSection
  BY DEF ConfigInv, SourceInv
<1> QED
  BY <1>1 DEF Held

(* A conversion that fails has found the part that was ill formed. *)
LEMMA RejectStep ==
    ASSUME ConfigInv, pc \in {"section", "field", "item"}, Reject, UNCHANGED <<java, ghosts>>,
           shrunk \/ \E c \in had : IllFormed(c, Section)
    PROVE  ConfigInv'
<1> USE DEF Reject, java, ghosts
<1>1. UNCHANGED Section
  BY DEF Section
<1>2. ShapeOK' /\ HadInv' /\ SourceInv' /\ PartInv' /\ ListInv'
  <2>1. ShapeOK'
    BY <1>1 DEF ConfigInv, ShapeOK
  <2>2. HadInv'
    BY DEF ConfigInv, HadInv
  <2> QED
    BY <2>1, <2>2 DEF SourceInv, PartInv, ListInv
<1>3. RustInv'
  <2>1. had \subseteq had' /\ UNCHANGED <<rust, shrunk, at>> /\ pc' # "converted" /\ pc # "converted"
    OBVIOUS
  <2> QED
    BY <2>1, DoneStays, OrderTable DEF ConfigInv, RustInv
<1>4. RejectedForCause'
  <2>1. shrunk \/ \E c \in had, s \in Sections : IllFormed(c, s)
    BY Positions
  <2>2. UNCHANGED <<had, shrunk>>
    OBVIOUS
  <2> QED
    BY <2>1, <2>2 DEF RejectedForCause
<1> QED
  BY <1>2, <1>3, <1>4 DEF ConfigInv

(* A section that is complete, and the next one is begun.                     *)
LEMMA EndSectionStep ==
    ASSUME ConfigInv, pc \in {"section", "field", "item"}, NEW r, EndSection(r),
           UNCHANGED <<java, ghosts>>, NEW s, s = Section,
           rust' = [rust EXCEPT ![s] = r] => DoneSound(s)'
    PROVE  ConfigInv'
<1> USE DEF java, ghosts
<1>1. /\ rust' = [rust EXCEPT ![Section] = r]
      /\ IF at = 8 THEN pc' = "converted" /\ at' = at ELSE pc' = Enter(at + 1) /\ at' = at + 1
      /\ getter' = 1 /\ part' = <<>> /\ size' = 0 /\ index' = 0
      /\ sect' = NoSection /\ list' = Null
      /\ UNCHANGED <<config, built, edits, had, shrunk>>
  BY OrderTable DEF EndSection
<1>2. pc' \in {"section", "field", "converted"}
  BY <1>1 DEF Enter
<1>3. at' \in 1 .. 8 /\ Section' \in Sections
  <2>1. at' \in 1 .. 8
    BY <1>1, Positions
  <2> QED
    BY <2>1, OrderTable DEF Section
<1>4. ShapeOK'
  <2>1. getter' \in 1 .. Len(Getters[Section'])
    BY <1>1, <1>3, GetterLists
  <2> QED
    BY <1>1, <1>2, <1>3, <2>1, OrderTable DEF ConfigInv, ShapeOK
<1>5. HadInv'
  BY <1>1, <1>2 DEF ConfigInv, HadInv
<1>6. SourceInv'
  <2>1. ASSUME pc' = "field"
        PROVE  /\ \E c \in had' : Source' = c[Section'] /\ c[Section'] # NoSection
               /\ Section' # "log"
    <3>1. Section' \in {"name", "limits"}
      BY <1>1, <2>1 DEF Enter, Section
    <3>2. Source' = config[Section'] /\ config[Section'] # NoSection /\ config \in had'
      BY <1>1, <2>1, <3>1, Positions DEF Source, ConfigOK, ConfigInv, HadInv
    <3> QED
      BY <3>1, <3>2
  <2>2. DOMAIN part' = {}
    BY <1>1
  <2> QED
    BY <1>1, <1>2, <2>1, <2>2 DEF SourceInv
<1>7. PartInv'
  <2>1. DOMAIN part' = {} /\ {Getters[Section'][i] : i \in 1 .. getter' - 1} = {}
    BY <1>1
  <2> QED
    BY <1>1, <1>2, <2>1 DEF PartInv
<1>8. ListInv' /\ RejectedForCause'
  BY <1>2 DEF ListInv, RejectedForCause
<1>9. RustInv'
  <2>1. DOMAIN rust' = Sections /\ \A t \in Sections \ {Section} : rust'[t] = rust[t]
    BY <1>1, Positions
  <2>2. had \subseteq had' /\ UNCHANGED shrunk
    BY <1>1
  <2>3. ASSUME NEW k \in 1 .. 8
        PROVE  IF k < at' \/ pc' = "converted" THEN DoneSound(Order[k])'
               ELSE rust'[Order[k]] = NoSection
    <3>0. /\ Order[k] \in Sections /\ at \in 1 .. 8 /\ (k = at <=> Order[k] = Section)
          /\ pc # "converted" /\ (pc' = "converted" <=> at = 8)
      BY <1>1, Positions, OrderTable DEF Section, Enter
    <3>1. CASE k < at
      <4>1. DoneSound(Order[k])
        BY <3>1, OrderTable DEF ConfigInv, RustInv
      <4>2. DoneSound(Order[k])'
        BY <2>1, <2>2, <3>0, <3>1, <4>1, DoneStays
      <4> QED
        BY <1>1, <3>0, <3>1, <4>2
    <3>2. CASE k = at
      BY <1>1, <3>0, <3>2
    <3>3. CASE k > at
      <4>1. rust[Order[k]] = NoSection
        BY <3>0, <3>3, OrderTable DEF ConfigInv, RustInv
      <4>2. rust'[Order[k]] = NoSection
        BY <2>1, <3>0, <3>3, <4>1
      <4> QED
        BY <1>1, <3>0, <3>3, <4>2
    <3> QED
      BY <3>0, <3>1, <3>2, <3>3
  <2> QED
    BY <2>1, <2>3, OrderTable DEF RustInv
<1> QED
  BY <1>4, <1>5, <1>6, <1>7, <1>8, <1>9 DEF ConfigInv

(* What the getters of a section returned, up to and including the current    *)
(* one: last says that none is left to call.                                  *)
PartSound(p, last) ==
    /\ DOMAIN p = {Getters[Section][i] : i \in 1 .. getter}
    /\ \A f \in DOMAIN p : ReadSound(Section, f, p[f])
    /\ Section = "policyStore" => \A f \in DOMAIN p : p[f] = Source[f]
    /\ Section = "log" => LogRead(p)
    /\ Section = "log" /\ getter >= 3 /\ ~last => p.memory # Null
    /\ Section = "log" /\ getter > 3 => p.memory # Null
    /\ IF last THEN IsLast \/ (Section = "log" /\ getter = 3 /\ p.memory = Null)
       ELSE ~IsLast

LEMMA ReadIsSound ==
    ASSUME NEW s, NEW f, NEW v, <<s, f>> \notin ListFields, ReadSound(s, f, v)
    PROVE  FieldSound(s, f, IF <<s, f>> \in Numbers THEN AsUnsigned(v) ELSE v)
<1> DEFINE y == IF <<s, f>> \in Numbers THEN AsUnsigned(v) ELSE v
<1>1. y = Delivered(s, f, v)
  BY DEF Delivered, AsUnsigned
<1>2. f # "jwtCheckSignValidation" => Accepted(s, f, v) /\ v \in Held(s, f)
  BY DEF ReadSound, Accepted
<1> HIDE DEF y
<1>3. FieldSound(s, f, y)
  BY <1>1, <1>2 DEF FieldSound
<1> QED
  BY <1>3 DEF y

LEMMA ConvertedIsSound ==
    ASSUME NEW s, NEW p, NEW f \in DOMAIN p, ReadSound(s, f, p[f])
    PROVE  FieldSound(s, f, Converted(s, p)[f])
<1>1. Converted(s, p)[f] = IF <<s, f>> \in Numbers THEN AsUnsigned(p[f]) ELSE p[f]
  BY DEF Converted
<1>2. CASE <<s, f>> \in ListFields
  <2>1. Converted(s, p)[f] = p[f]
    BY <1>1, <1>2, FieldTable
  <2> QED
    BY <1>2, <2>1 DEF ReadSound, FieldSound
<1>3. CASE <<s, f>> \notin ListFields
  BY <1>1, <1>3, ReadIsSound
<1> QED
  BY <1>2, <1>3

(* The section that is delivered, when its last getter has returned.          *)
LEMMA SectionDone ==
    ASSUME ConfigInv, pc \in {"field", "item"}, NEW p, PartSound(p, TRUE), NEW s, s = Section,
           ~Rejects(s, p), UNCHANGED <<had, shrunk>>, rust' = [rust EXCEPT ![s] = SectionOf(s, p)]
    PROVE  DoneSound(s)'
<1>1. s \in Sections /\ rust'[s] = SectionOf(s, p)
  BY Positions
<1>2. /\ DOMAIN p = {Getters[s][i] : i \in 1 .. getter}
      /\ \A f \in DOMAIN p : ReadSound(s, f, p[f])
      /\ IsLast \/ (s = "log" /\ getter = 3 /\ p.memory = Null)
  BY DEF PartSound
<1>3. IsLast => DOMAIN p = ToSet(Getters[s])
  BY <1>1, <1>2, GetterLists DEF IsLast
<1>4. had \subseteq had' /\ shrunk' = shrunk
  OBVIOUS
<1>5. \E c \in had' : c[s] # NoSection
  BY SourceHeld
<1>6. CASE s = "policyStore"
  <2>1. IsLast /\ DOMAIN p = {"source", "data", "dataPath"}
    BY <1>2, <1>3, <1>6, GetterTable
  <2>2. PICK c \in had : c[s] = Source /\ c[s] # NoSection
    BY SourceHeld
  <2>3. p.source = c[s].source /\ p.data = c[s].data /\ p.dataPath = c[s].dataPath
    BY <1>6, <2>1, <2>2 DEF PartSound
  <2>4. p.source # Null
    <3>1. <<s, "source">> \in Required /\ <<s, "source">> \notin ListFields
      BY <1>6, FieldTable DEF Required, Required_NoTrustMode
    <3> QED
      BY <1>2, <2>1, <3>1 DEF ReadSound, Accepted
  <2>5. PolicyStoreOf(p) = PolicyStoreOf(c[s]) /\ ~Rejects(s, c[s])
    BY <1>6, <2>3 DEF PolicyStoreOf, Rejects
  <2>6. rust'[s] = PolicyStoreOf(c[s])
    BY <1>1, <1>6, <2>5 DEF SectionOf
  <2> QED
    BY <1>4, <1>6, <2>2, <2>3, <2>4, <2>5, <2>6 DEF DoneSound, StoreSound
<1>7. CASE s = "log"
  <2>1. {"logType", "logLevel", "memory"} \subseteq DOMAIN p
    <3>1. DOMAIN p = ToSet(Getters["log"]) \/ DOMAIN p = {Getters["log"][i] : i \in 1 .. 3}
      BY <1>2, <1>3, <1>7
    <3> QED
      BY <3>1, GetterTable, GetterLists
  <2>2. p.logType # "LOCK" /\ (p.logType = "MEMORY" => p.memory # Null)
    BY <1>7 DEF Rejects
  <2>3. CASE p.logType = "MEMORY"
    <3>1. rust'[s] = Converted(s, p) /\ DOMAIN p = ToSet(Getters[s])
      BY <1>1, <1>2, <1>3, <1>7, <2>2, <2>3 DEF SectionOf, LogOf
    <3>2. DOMAIN rust'[s] = ToSet(Getters[s])
      BY <3>1 DEF Converted
    <3>3. rust'[s].logType = "MEMORY" /\ rust'[s].memory # Null
      BY <1>7, <2>1, <2>2, <2>3, <3>1 DEF Converted, Numbers
    <3>4. ASSUME NEW f \in DOMAIN rust'[s] PROVE FieldSound(s, f, rust[s][f])'
      <4>1. FieldSound(s, f, Converted(s, p)[f])
        BY <1>2, <3>1, <3>2, ConvertedIsSound
      <4> QED
        BY <1>4, <3>1, <4>1, Monotone
    <3> QED
      BY <1>5, <1>7, <3>2, <3>3, <3>4 DEF DoneSound, SectionSound
  <2>4. CASE p.logType # "MEMORY"
    <3>1. rust'[s] = [logType |-> p.logType, logLevel |-> p.logLevel]
      BY <1>1, <1>7, <2>4 DEF SectionOf, LogOf
    <3>2. /\ DOMAIN rust'[s] = {"logType", "logLevel"}
          /\ rust'[s].logType = p.logType /\ rust'[s].logLevel = p.logLevel
      BY <3>1
    <3>3. ASSUME NEW f \in {"logType", "logLevel"} PROVE FieldSound(s, f, rust[s][f])'
      <4>1. <<s, f>> \notin Numbers /\ <<s, f>> \notin ListFields
        BY <1>7 DEF Numbers, ListFields
      <4>2. FieldSound(s, f, p[f])
        BY <1>2, <2>1, <4>1, ReadIsSound
      <4>3. rust'[s][f] = p[f]
        BY <3>2
      <4> QED
        BY <1>4, <4>2, <4>3, Monotone
    <3> QED
      BY <1>5, <1>7, <2>2, <2>4, <3>2, <3>3 DEF DoneSound, SectionSound
  <2> QED
    BY <2>3, <2>4
<1>8. CASE s \notin {"policyStore", "log"}
  <2>1. rust'[s] = Converted(s, p) /\ DOMAIN p = ToSet(Getters[s])
    BY <1>1, <1>2, <1>3, <1>8 DEF SectionOf
  <2>2. DOMAIN rust'[s] = ToSet(Getters[s])
    BY <2>1 DEF Converted
  <2>3. ASSUME NEW f \in DOMAIN rust'[s] PROVE FieldSound(s, f, rust[s][f])'
    <3>1. FieldSound(s, f, Converted(s, p)[f])
      BY <1>2, <2>1, <2>2, ConvertedIsSound
    <3> QED
      BY <1>4, <2>1, <3>1, Monotone
  <2> QED
    BY <1>5, <1>8, <2>2, <2>3 DEF DoneSound, SectionSound
<1> QED
  BY <1>6, <1>7, <1>8

(* What makes the bridge reject a section was together in one configuration.  *)
LEMMA RejectedIsIllFormed ==
    ASSUME ConfigInv, pc \in {"field", "item"}, NEW p, PartSound(p, TRUE), Rejects(Section, p)
    PROVE  \E c \in had : IllFormed(c, Section)
<1>1. CASE Section = "log"
  <2>1. "logType" \in DOMAIN p /\ "memory" \in DOMAIN p
    <3>1. DOMAIN p = ToSet(Getters["log"]) \/ DOMAIN p = {Getters["log"][i] : i \in 1 .. 3}
      <4>1. /\ DOMAIN p = {Getters["log"][i] : i \in 1 .. getter}
            /\ getter = Len(Getters["log"]) \/ getter = 3
        BY <1>1 DEF PartSound, IsLast
      <4> QED
        BY <1>1, <4>1, Positions, GetterLists
    <3> QED
      BY <3>1, GetterTable, GetterLists
  <2>2. PICK c \in had : /\ c.log # NoSection /\ c.log.logType = p.logType
                         /\ c.log.memory = p.memory
    BY <1>1, <2>1 DEF PartSound, LogRead
  <2> QED
    BY <1>1, <2>2 DEF Rejects, IllFormed
<1>2. CASE Section = "policyStore"
  <2>1. DOMAIN p = {"source", "data", "dataPath"}
    <3>1. getter = Len(Getters["policyStore"])
      BY <1>2 DEF PartSound, IsLast
    <3>2. DOMAIN p = ToSet(Getters["policyStore"])
      BY <1>2, <3>1, Positions, GetterLists DEF PartSound
    <3> QED
      BY <3>2, GetterTable
  <2>2. PICK c \in had : c[Section] = Source /\ c[Section] # NoSection
    BY SourceHeld
  <2>3. /\ p.source = c[Section].source /\ p.data = c[Section].data
        /\ p.dataPath = c[Section].dataPath
    BY <1>2, <2>1, <2>2 DEF PartSound
  <2>4. IllFormed(c, Section)
    BY <1>2, <2>2, <2>3, ConfigAssumption DEF Rejects, IllFormed, DataSources, FileSources
  <2> QED
    BY <2>4
<1> QED
  BY <1>1, <1>2 DEF Rejects

(* The step after a getter: the next one, the next section, or the error.     *)
LEMMA ContinueStep ==
    ASSUME ConfigInv, pc \in {"field", "item"}, NEW p, NEW last \in BOOLEAN, PartSound(p, last),
           Continue(p, last), UNCHANGED <<java, ghosts>>
    PROVE  ConfigInv'
<1>1. CASE ~last
  <2> USE DEF java, ghosts
  <2>1. /\ pc' = "field" /\ getter' = getter + 1 /\ part' = p /\ index' = 0 /\ list' = Null
        /\ UNCHANGED <<at, sect, rust, config, built, edits, had, shrunk>>
    BY <1>1 DEF Continue
  <2>2. /\ getter # Len(Getters[Section]) /\ UNCHANGED <<Section, Source>>
        /\ getter + 1 \in 1 .. Len(Getters[Section]) /\ getter \in Nat
    <3>1. ~IsLast
      BY <1>1 DEF PartSound
    <3> QED
      BY <2>1, <3>1, Positions DEF Section, Source, IsLast
  <2>3. ShapeOK' /\ HadInv'
    <3>1. ShapeOK'
      BY <2>1, <2>2 DEF ConfigInv, ShapeOK
    <3>2. HadInv'
      BY <2>1 DEF ConfigInv, HadInv
    <3> QED
      BY <3>1, <3>2
  <2>4. SourceInv'
    <3>1. /\ \E c \in had : Source = c[Section] /\ c[Section] # NoSection
          /\ Section = "policyStore" => \A f \in DOMAIN p : p[f] = Source[f]
          /\ Section = "log" => LogRead(p)
      BY DEF ConfigInv, SourceInv, PartSound
    <3>2. LogRead(p) => LogRead(part)'
      BY <2>1, <2>2 DEF LogRead
    <3> QED
      BY <2>1, <2>2, <3>1, <3>2 DEF SourceInv
  <2>5. PartInv'
    <3>1. DOMAIN p = {Getters[Section][i] : i \in 1 .. getter + 1 - 1}
      BY <2>2 DEF PartSound
    <3>2. Section = "log" /\ getter + 1 > 3 => p.memory # Null
      BY <1>1, <2>2 DEF PartSound
    <3>3. ASSUME NEW f \in DOMAIN p PROVE ReadSound(Section, f, part[f])'
      <4>1. ReadSound(Section, f, p[f])
        BY DEF PartSound
      <4>2. had \subseteq had' /\ shrunk' = shrunk
        BY <2>1
      <4> QED
        BY <2>1, <2>2, <4>1, <4>2, Monotone
    <3> QED
      BY <2>1, <2>2, <3>1, <3>2, <3>3 DEF PartInv
  <2>6. ListInv' /\ RejectedForCause'
    BY <2>1 DEF ListInv, RejectedForCause
  <2>7. RustInv'
    <3>1. had \subseteq had' /\ shrunk' = shrunk
      BY <2>1
    <3> QED
      BY <2>1, <3>1, DoneStays, OrderTable DEF ConfigInv, RustInv
  <2> QED
    BY <2>3, <2>4, <2>5, <2>6, <2>7 DEF ConfigInv
<1>2. CASE last /\ Rejects(Section, p)
  <2>1. Reject
    BY <1>2 DEF Continue
  <2>2. PartSound(p, TRUE)
    BY <1>2 DEF PartSound
  <2> QED
    BY <1>2, <2>1, <2>2, RejectStep, RejectedIsIllFormed
<1>3. CASE last /\ ~Rejects(Section, p)
  <2>1. EndSection(SectionOf(Section, p))
    BY <1>3 DEF Continue
  <2>2. PartSound(p, TRUE)
    BY <1>3 DEF PartSound
  <2>3. UNCHANGED <<had, shrunk>>
    BY DEF ghosts
  <2>4. \A s : s = Section /\ rust' = [rust EXCEPT ![s] = SectionOf(s, p)] => DoneSound(s)'
    BY <1>3, <2>2, <2>3, SectionDone
  <2> QED
    BY <2>1, <2>4, EndSectionStep
<1> QED
  BY <1>1, <1>2, <1>3
(* The call begins. *)
LEMMA CallStep == ConfigInv /\ Call => ConfigInv'
<1> SUFFICES ASSUME ConfigInv, Call PROVE ConfigInv'
  OBVIOUS
<1>1. /\ pc = "java" /\ pc' = Enter(at) /\ had' = {config}
      /\ UNCHANGED <<config, built, at, getter, part, size, index, sect, list, rust, edits, shrunk>>
  BY DEF Call, java
<1>2. pc' \in {"section", "field"}
  BY <1>1 DEF Enter
<1>3. UNCHANGED <<Section, Source>>
  BY <1>1 DEF Section, Source
<1>4. /\ had = {} /\ ~shrunk
      /\ sect = NoSection /\ part = <<>> /\ getter = 1 /\ list = Null /\ index = 0
  BY <1>1 DEF ConfigInv, HadInv, SourceInv
<1>5. ShapeOK'
  BY <1>1, <1>2, <1>3 DEF ConfigInv, ShapeOK
<1>6. HadInv'
  BY <1>1, <1>2, <1>4, Positions DEF ConfigInv, HadInv
<1>7. DOMAIN part = {} /\ {Getters[Section][i] : i \in 1 .. getter - 1} = {}
  BY <1>4
<1>8. SourceInv'
  <2>1. ASSUME pc' = "field"
        PROVE  Source = config[Section] /\ config[Section] # NoSection /\ Section # "log"
    <3>1. Section \in {"name", "limits"}
      BY <1>1, <2>1 DEF Enter, Section
    <3> QED
      BY <1>4, <3>1, Positions DEF Source, ConfigOK
  <2> QED
    BY <1>1, <1>2, <1>3, <1>4, <1>7, <2>1 DEF SourceInv
<1>9. PartInv'
  BY <1>1, <1>2, <1>3, <1>4, <1>7 DEF PartInv
<1>10. ListInv' /\ RejectedForCause'
  BY <1>2 DEF ListInv, RejectedForCause
<1>11. RustInv'
  <2>1. \A k \in 1 .. 8 : ~(k < at)
    <3>1. ASSUME NEW k \in 1 .. 8, k < at PROVE FALSE
      <4>1. DoneSound(Order[k])
        BY <3>1, OrderTable DEF ConfigInv, RustInv
      <4> QED
        BY <1>4, <4>1 DEF DoneSound, StoreSound, SectionSound
    <3> QED
      BY <3>1
  <2> QED
    BY <1>1, <1>2, <2>1, OrderTable DEF ConfigInv, RustInv
<1> QED
  BY <1>5, <1>6, <1>8, <1>9, <1>10, <1>11 DEF ConfigInv

(* A section is there, or the bridge may do without it, or it is an error.    *)
LEMMA GetSectionStep == ConfigInv /\ GetSection => ConfigInv'
<1> SUFFICES ASSUME ConfigInv, GetSection PROVE ConfigInv'
  OBVIOUS
<1>1. pc = "section" /\ UNCHANGED <<java, ghosts>> /\ config \in had
  BY DEF GetSection, ConfigInv, HadInv
<1>2. CASE config[Section] # NoSection
  <2>1. /\ pc' = "field" /\ UNCHANGED <<at, getter, part, size, index, sect, list, rust>>
        /\ UNCHANGED <<config, built, edits, had, shrunk>>
    BY <1>2 DEF GetSection, java, ghosts
  <2>2. UNCHANGED <<Section, Source>>
    BY <2>1 DEF Section, Source
  <2>3. sect = NoSection /\ part = <<>> /\ getter = 1 /\ list = Null /\ index = 0
    BY <1>1 DEF ConfigInv, SourceInv
  <2>4. ShapeOK'
    BY <2>1, <2>2 DEF ConfigInv, ShapeOK
  <2>5. HadInv'
    BY <1>1, <2>1 DEF ConfigInv, HadInv
  <2>6. DOMAIN part = {} /\ {Getters[Section][i] : i \in 1 .. getter - 1} = {}
    BY <2>3
  <2>7. SourceInv'
    <3>1. Source = config[Section]
      BY <2>3 DEF Source
    <3>2. LogRead(part)'
      BY <2>1, <2>6 DEF LogRead
    <3> QED
      BY <1>1, <1>2, <2>1, <2>2, <2>3, <2>6, <3>1, <3>2 DEF SourceInv
  <2>8. PartInv'
    BY <2>1, <2>2, <2>3, <2>6 DEF PartInv
  <2>9. ListInv' /\ RejectedForCause'
    BY <2>1 DEF ListInv, RejectedForCause
  <2>10. RustInv'
    <3>1. had \subseteq had' /\ shrunk' = shrunk
      BY <2>1
    <3> QED
      BY <1>1, <2>1, <3>1, DoneStays, OrderTable DEF ConfigInv, RustInv
  <2> QED
    BY <2>4, <2>5, <2>7, <2>8, <2>9, <2>10 DEF ConfigInv
<1>3. CASE config[Section] = NoSection /\ Section = "lock"
  <2>1. EndSection(NoSection)
    BY <1>3 DEF GetSection
  <2>2. had' = had /\ config.lock = NoSection
    BY <1>1, <1>3 DEF ghosts
  <2>3. ASSUME rust' = [rust EXCEPT !["lock"] = NoSection] PROVE DoneSound("lock")'
    <3>1. rust'["lock"] = NoSection
      BY <2>3, OrderTable, Positions
    <3> QED
      BY <1>1, <2>2, <3>1 DEF DoneSound
  <2> QED
    BY <1>1, <1>3, <2>1, <2>3, EndSectionStep
<1>4. CASE config[Section] = NoSection /\ Section # "lock"
  <2>1. Reject /\ IllFormed(config, Section)
    BY <1>4 DEF GetSection, IllFormed
  <2> QED
    BY <1>1, <2>1, RejectStep
<1> QED
  BY <1>2, <1>3, <1>4

(* What a getter returned, besides what the getters before it did.            *)
LEMMA WithIsSound ==
    ASSUME ConfigInv, pc \in {"field", "item"}, NEW v, NEW p,
           p = (IF pc = "field" THEN With(part, Field, v) ELSE part),
           ReadSound(Section, Field, p[Field]),
           Section = "policyStore" => p[Field] = Source[Field],
           Section = "log" => LogRead(p),
           NEW last \in BOOLEAN,
           last <=> IsLast \/ (Section = "log" /\ Field = "memory" /\ p[Field] = Null)
    PROVE  PartSound(p, last)
<1>1. /\ Field = Getters[Section][getter] /\ getter \in 1 .. Len(Getters[Section])
      /\ Len(Getters[Section]) \in Nat
  BY Positions DEF Field
<1>2. /\ DOMAIN part = {Getters[Section][i] :
                             i \in 1 .. (IF pc = "item" THEN getter ELSE getter - 1)}
      /\ \A f \in DOMAIN part :
            ~(pc = "item" /\ f = Field) => ReadSound(Section, f, part[f])
      /\ Section = "log" /\ getter > 3 => part.memory # Null
  BY DEF ConfigInv, PartInv
<1>3. DOMAIN p = {Getters[Section][i] : i \in 1 .. getter}
  <2>1. CASE pc = "item"
    BY <1>2, <2>1
  <2>2. CASE pc = "field"
    <3>1. DOMAIN p = {Getters[Section][i] : i \in 1 .. getter - 1} \cup {Field}
      BY <1>2, <2>2 DEF With
    <3>2. \A i : i \in 1 .. getter <=> i \in 1 .. getter - 1 \/ i = getter
      BY <1>1
    <3> QED
      BY <1>1, <3>1, <3>2
  <2> QED
    BY <2>1, <2>2
<1>4. \A f \in DOMAIN p : f # Field => f \in DOMAIN part /\ p[f] = part[f]
  BY DEF With
<1>5. \A f \in DOMAIN p : ReadSound(Section, f, p[f])
  BY <1>2, <1>4
<1>6. Section = "policyStore" => \A f \in DOMAIN p : p[f] = Source[f]
  <2>1. Section = "policyStore" => \A f \in DOMAIN part : part[f] = Source[f]
    BY DEF ConfigInv, SourceInv
  <2> QED
    BY <1>4, <2>1
<1>7. Section = "log" /\ getter > 3 => p.memory # Null
  <2>1. ASSUME Section = "log", getter > 3
        PROVE  Field # "memory" /\ "memory" \in DOMAIN p
    <3>1. /\ Field = Getters["log"][getter] /\ getter \in 1 .. 6 /\ 3 \in 1 .. getter
          /\ DOMAIN p = {Getters["log"][i] : i \in 1 .. getter}
      BY <1>1, <1>3, <2>1, GetterLists
    <3> QED
      BY <2>1, <3>1, GetterLists
  <2> QED
    BY <1>2, <1>4, <2>1
<1>8. Section = "log" /\ getter >= 3 /\ ~last => p.memory # Null
  <2>1. Section = "log" /\ getter = 3 => Field = "memory"
    BY <1>1, GetterLists
  <2> QED
    BY <1>1, <1>7, <2>1
<1>9. IF last THEN IsLast \/ (Section = "log" /\ getter = 3 /\ p.memory = Null) ELSE ~IsLast
  <2>1. Section = "log" /\ Field = "memory" => getter = 3
    BY <1>1, GetterLists
  <2> QED
    BY <2>1
<1> QED
  BY <1>3, <1>5, <1>6, <1>7, <1>8, <1>9 DEF PartSound

(* A value that a getter may not return makes its section ill formed.         *)
LEMMA RejectedField ==
    ASSUME ConfigInv, pc \in {"field", "item"},
           \/ Source[Field] = Unusable /\ <<Section, Field>> \in Parsed
           \/ Source[Field] = Null /\ <<Section, Field>> \in Required
    PROVE  \E c \in had : IllFormed(c, Section)
<1>0. PICK c \in had : c[Section] = Source /\ c[Section] # NoSection
  BY SourceHeld
<1> SUFFICES IllFormed(c, Section)
  OBVIOUS
<1>1. /\ c[Section] # NoSection /\ Source = c[Section]
      /\ Section \in Sections /\ Field \in ToSet(Getters[Section]) /\ ConfigOK(c)
  BY <1>0, Positions DEF ConfigInv, HadInv
<1>2. CASE Source[Field] = Unusable /\ <<Section, Field>> \in Parsed
  <2>1. Section \in DOMAIN Setters
    BY <1>2, FieldTable, SetterTable, OrderTable
  <2>2. Field \in DOMAIN c[Section]
    BY <1>1, <2>1 DEF ConfigOK
  <2> QED
    BY <1>1, <1>2, <2>2 DEF IllFormed
<1>3. CASE Source[Field] = Null /\ <<Section, Field>> \in Required /\ Section # "policyStore"
  <2>1. Field \in Mandatory(Section)
    BY <1>1, <1>3, FieldTable
  <2> QED
    BY <1>1, <1>3, <2>1 DEF IllFormed
<1>4. CASE Source[Field] = Null /\ <<Section, Field>> \in Required /\ Section = "policyStore"
  <2>1. Field = "source"
    BY <1>4 DEF Required, Required_NoTrustMode, ListFields
  <2>2. Null \notin DataSources \cup FileSources
    BY ConfigAssumption
  <2> QED
    BY <1>1, <1>4, <2>1, <2>2 DEF IllFormed
<1> QED
  BY <1>2, <1>3, <1>4

LEMMA GetFieldStep == ConfigInv /\ GetField => ConfigInv'
<1> SUFFICES ASSUME ConfigInv, GetField PROVE ConfigInv'
  OBVIOUS
<1>1. pc = "field" /\ <<Section, Field>> \notin ListFields /\ UNCHANGED <<java, ghosts>>
  BY DEF GetField
<1>2. PICK v \in Returns(Field) :
          IF \/ v = Unusable /\ <<Section, Field>> \in Parsed
             \/ v = Null /\ <<Section, Field>> \in Required
          THEN Reject
          ELSE Continue(With(part, Field, v), IsLast \/ (Field = "memory" /\ v = Null))
  BY DEF GetField
<1>3. Field = "jwtCheckSignValidation" => <<Section, Field>> \notin Parsed \cup Required
  BY DEF Parsed, Required, Required_NoTrustMode, ListFields
<1>4. Field # "jwtCheckSignValidation" => v = Source[Field]
  BY DEF Returns
<1>5. CASE \/ v = Unusable /\ <<Section, Field>> \in Parsed
           \/ v = Null /\ <<Section, Field>> \in Required
  <2>1. \E c \in had : IllFormed(c, Section)
    BY <1>1, <1>3, <1>4, <1>5, RejectedField
  <2> QED
    BY <1>1, <1>2, <1>5, <2>1, RejectStep
<1>6. CASE ~ \/ v = Unusable /\ <<Section, Field>> \in Parsed
             \/ v = Null /\ <<Section, Field>> \in Required
  <2> DEFINE p == With(part, Field, v)
             last == IsLast \/ (Field = "memory" /\ v = Null)
  <2>1. p[Field] = v
    BY DEF With
  <2>2. Continue(p, last)
    BY <1>2, <1>6
  <2>3. ReadSound(Section, Field, v)
    BY <1>1, <1>4, <1>6, SourceHeld DEF ReadSound, Accepted
  <2>4. Section = "policyStore" => v = Source[Field]
    BY <1>4, Positions, GetterTable
  <2>5. Field = "memory" => Section = "log"
    BY Positions, OrderTable, GetterTable
  <2>6. last \in BOOLEAN
    BY DEF IsLast
  <2>8. Section = "log" => LogRead(p)
    <3> SUFFICES ASSUME Section = "log" PROVE LogRead(p)
      OBVIOUS
    <3>1. LogRead(part)
      BY <1>1 DEF ConfigInv, SourceInv
    <3>2. PICK c \in had : c.log = Source /\ c.log # NoSection
      BY <1>1, SourceHeld
    <3>3. /\ DOMAIN p = DOMAIN part \cup {Field} /\ v = Source[Field]
          /\ \A f \in DOMAIN part : f # Field => p[f] = part[f]
      BY <1>4, Positions, GetterTable DEF With
    <3> HIDE DEF p
    <3>4. ASSUME "logType" \in DOMAIN p
          PROVE  \E d \in had : /\ d.log # NoSection /\ d.log.logType = p["logType"]
                               /\ d.log.memory = Source.memory
      <4>1. CASE Field = "logType"
        BY <2>1, <3>2, <3>3, <4>1
      <4>2. CASE Field # "logType"
        BY <3>1, <3>3, <3>4, <4>2 DEF LogRead
      <4> QED
        BY <4>1, <4>2
    <3>5. ASSUME "memory" \in DOMAIN p PROVE p["memory"] = Source["memory"]
      BY <2>1, <3>1, <3>3, <3>5 DEF LogRead
    <3> QED
      BY <3>4, <3>5 DEF LogRead
  <2>7. PartSound(p, last)
    <3>1. last <=> IsLast \/ (Section = "log" /\ Field = "memory" /\ p[Field] = Null)
      BY <2>1, <2>5
    <3>2. p = (IF pc = "field" THEN With(part, Field, v) ELSE part)
      BY <1>1
    <3> HIDE DEF p, last
    <3> QED
      BY <1>1, <2>1, <2>3, <2>4, <2>6, <2>8, <3>1, <3>2, WithIsSound
  <2> HIDE DEF p, last
  <2> QED
    BY <1>1, <2>2, <2>6, <2>7, ContinueStep
<1> QED
  BY <1>5, <1>6
(* The list that is read is a list of a configuration that was held.          *)
LEMMA ListTable ==
    ASSUME ConfigInv, <<Section, Field>> \in ListFields
    PROVE  /\ Section \in {"jwt", "authz"} /\ <<Section, Field>> \in Required
           /\ Section = "jwt" => Field = "supportedSignatureAlgorithms"
           /\ Field # "memory" /\ Field # "jwtCheckSignValidation"
           /\ <<Section, Field>> \notin Parsed \cup Numbers
           /\ Held(Section, Field) \subseteq Lists \cup {Null}
<1>1. Held(Section, Field) \subseteq Lists \cup {Null}
  BY ListTyped DEF Held, ConfigInv, HadInv
<1> QED
  BY <1>1, FieldTable DEF ListFields

LEMMA GetListStep == ConfigInv /\ GetList => ConfigInv'
<1> SUFFICES ASSUME ConfigInv, GetList PROVE ConfigInv'
  OBVIOUS
<1>1. /\ pc = "field" /\ <<Section, Field>> \in ListFields /\ UNCHANGED <<java, ghosts>>
      /\ Source[Field] \in Held(Section, Field)
  BY SourceHeld DEF GetList
<1>2. CASE Source[Field] = Null
  <2>1. Reject
    BY <1>2 DEF GetList
  <2>2. \E c \in had : IllFormed(c, Section)
    BY <1>1, <1>2, ListTable, RejectedField
  <2> QED
    BY <1>1, <2>1, <2>2, RejectStep
<1>3. CASE Source[Field] # Null
  <2>1. /\ pc' = "size" /\ UNCHANGED <<at, getter, part, size, index, sect, list, rust>>
        /\ UNCHANGED <<config, built, edits, had, shrunk>>
    BY <1>3 DEF GetList, java, ghosts
  <2>2. /\ UNCHANGED <<Section, Field, Source>> /\ list = Null /\ index = 0
        /\ SourceList' = Source[Field]
    <3>1. list = Null /\ index = 0
      BY <1>1 DEF ConfigInv, SourceInv
    <3> QED
      BY <2>1, <3>1 DEF Section, Field, Source, SourceList
  <2>3. ShapeOK'
    BY <2>1, <2>2 DEF ConfigInv, ShapeOK
  <2>4. HadInv'
    BY <1>1, <2>1 DEF ConfigInv, HadInv
  <2>5. SourceInv'
    BY <1>1, <2>1, <2>2, ListTable DEF ConfigInv, SourceInv
  <2>6. had \subseteq had' /\ shrunk' = shrunk
    BY <2>1
  <2>7. PartInv'
    <3>1. ASSUME NEW f \in DOMAIN part PROVE ReadSound(Section, f, part[f])'
      <4>1. ReadSound(Section, f, part[f])
        BY <1>1 DEF ConfigInv, PartInv
      <4> QED
        BY <2>1, <2>2, <2>6, <4>1, Monotone
    <3> QED
      BY <1>1, <2>1, <2>2, <3>1 DEF ConfigInv, PartInv
  <2>8. ListInv'
    <3>1. Held(Section, Field)' = Held(Section, Field)
      BY <2>1, <2>2 DEF Held
    <3> QED
      BY <1>1, <1>3, <2>1, <2>2, <3>1 DEF ListInv
  <2>9. RustInv'
    BY <1>1, <2>1, <2>6, DoneStays, OrderTable DEF ConfigInv, RustInv
  <2>10. RejectedForCause'
    BY <2>1 DEF RejectedForCause
  <2> QED
    BY <2>3, <2>4, <2>5, <2>7, <2>8, <2>9, <2>10 DEF ConfigInv
<1> QED
  BY <1>2, <1>3

LEMMA GetSizeStep == ConfigInv /\ GetSize => ConfigInv'
<1> SUFFICES ASSUME ConfigInv, GetSize PROVE ConfigInv'
  OBVIOUS
<1> DEFINE x == IF Section = "jwt" THEN {} ELSE <<>>
           l == SourceList
<1>1. /\ pc = "size" /\ pc' = "item" /\ size' = Len(l) /\ part' = With(part, Field, x)
      /\ UNCHANGED <<at, getter, index, sect, list, rust>>
      /\ UNCHANGED <<config, built, edits, had, shrunk>>
  BY DEF GetSize, java, ghosts
<1>2. /\ <<Section, Field>> \in ListFields /\ l \in Held(Section, Field) \ {Null}
      /\ index = 0
  BY <1>1 DEF ConfigInv, ListInv, SourceInv
<1>3. UNCHANGED <<Section, Field, Source>> /\ SourceList' = l
  BY <1>1 DEF Section, Field, Source, SourceList
<1>4. l \in Lists /\ Len(l) \in Nat
  BY <1>2, ListTable DEF Lists
<1>5. /\ part'[Field] = x /\ DOMAIN part' = DOMAIN part \cup {Field}
      /\ \A f \in DOMAIN part : f # Field => part'[f] = part[f]
  BY <1>1 DEF With
<1>6. ShapeOK'
  BY <1>1, <1>3 DEF ConfigInv, ShapeOK
<1>7. HadInv'
  BY <1>1 DEF ConfigInv, HadInv
<1>8. SourceInv'
  BY <1>1, <1>2, <1>3, ListTable DEF ConfigInv, SourceInv
<1>9. had \subseteq had' /\ shrunk' = shrunk
  BY <1>1
<1>10. PartInv'
  <2>1. /\ DOMAIN part = {Getters[Section][i] : i \in 1 .. getter - 1}
        /\ \A f \in DOMAIN part : ReadSound(Section, f, part[f])
    BY <1>1 DEF ConfigInv, PartInv
  <2>2. DOMAIN part' = {Getters[Section][i] : i \in 1 .. getter}
    <3>1. \A i : i \in 1 .. getter <=> i \in 1 .. getter - 1 \/ i = getter
      BY Positions
    <3> QED
      BY <1>5, <2>1, <3>1 DEF Field
  <2>3. ASSUME NEW f \in DOMAIN part', f # Field PROVE ReadSound(Section, f, part[f])'
    <3>1. ReadSound(Section, f, part'[f])
      BY <1>5, <2>1, <2>3
    <3> QED
      BY <1>3, <1>9, <3>1, Monotone
  <2> QED
    BY <1>1, <1>2, <1>3, <2>2, <2>3, ListTable DEF PartInv
<1>11. ListInv'
  <2>1. Held(Section, Field)' = Held(Section, Field)
    BY <1>1, <1>3 DEF Held
  <2>2. ElementsHeld(Section, Field, x)
    <3>1. ToSet(<<>>) = {}
      BY DEF ToSet
    <3> QED
      BY <3>1 DEF ElementsHeld
  <2>3. ElementsHeld(Section, Field, part[Field])'
    BY <1>3, <1>5, <1>9, <2>2, Monotone
  <2>4. x = ReadUpTo(Section, l, 0)
    <3>1. {l[i] : i \in 1 .. 0} = {} /\ ClaimsUpTo(l)[0] = <<>>
      BY <1>4, ClaimsRecursion
    <3> HIDE DEF l
    <3> QED
      BY <3>1 DEF ReadUpTo
  <2> HIDE DEF x, l
  <2>5. part'[Field] = ReadUpTo(Section, l, index)
    BY <1>2, <1>5, <2>4
  <2>6. ASSUME ~shrunk'
        PROVE  \E v \in Held(Section, Field)' \ {Null} :
                  /\ Len(v) = size' /\ size' <= Len(SourceList')
                  /\ \A i \in 1 .. size' : SourceList'[i] = v[i]
                  /\ part'[Field'] = ReadUpTo(Section', v, index')
    BY <1>1, <1>2, <1>3, <1>4, <2>1, <2>5
  <2>7. /\ <<Section', Field'>> \in ListFields
        /\ SourceList' \in Held(Section, Field)' \ {Null}
        /\ size' \in Nat /\ index' \in 0 .. size'
    BY <1>1, <1>2, <1>3, <1>4, <2>1
  <2> QED
    BY <2>3, <2>6, <2>7 DEF ListInv, ReadUpTo
<1>12. RustInv'
  BY <1>1, <1>9, DoneStays, OrderTable DEF ConfigInv, RustInv
<1>13. RejectedForCause'
  BY <1>1 DEF RejectedForCause
<1> QED
  BY <1>6, <1>7, <1>8, <1>10, <1>11, <1>12, <1>13 DEF ConfigInv

LEMMA AppendElements ==
    ASSUME NEW S, NEW x \in Seq(S), NEW e
    PROVE  ToSet(Append(x, e)) = ToSet(x) \cup {e}
<1>1. /\ Len(x) \in Nat /\ DOMAIN x = 1 .. Len(x) /\ DOMAIN Append(x, e) = 1 .. Len(x) + 1
      /\ Append(x, e)[Len(x) + 1] = e /\ \A i \in 1 .. Len(x) : Append(x, e)[i] = x[i]
  OBVIOUS
<1> QED
  BY <1>1 DEF ToSet

LEMMA PushIsSound ==
    ASSUME NEW s, NEW f, NEW x, NEW l \in Lists, NEW i \in 1 .. Len(l),
           l \in Held(s, f) \ {Null}, s = "jwt" => l[i] # Null, ElementsHeld(s, f, x)
    PROVE  ElementsHeld(s, f, Push(s, x, l[i]))
<1>1. l[i] \in Items \cup {Null} /\ l[i] \in ToSet(l)
  BY DEF Lists, ToSet
<1>2. l[i] \in UNION {ToSet(v) : v \in Held(s, f) \ {Null}}
  BY <1>1
<1>3. CASE s = "jwt"
  BY <1>1, <1>2, <1>3 DEF ElementsHeld, Push
<1>4. CASE s # "jwt" /\ l[i] # Null
  <2>1. x \in Seq(Items) /\ ToSet(x) \subseteq UNION {ToSet(v) : v \in Held(s, f) \ {Null}}
    BY <1>4 DEF ElementsHeld
  <2>2. /\ Append(x, l[i]) \in Seq(Items)
        /\ ToSet(Append(x, l[i])) = ToSet(x) \cup {l[i]}
    BY <1>1, <1>4, <2>1, AppendElements
  <2>3. Push(s, x, l[i]) = Append(x, l[i])
    BY <1>4 DEF Push
  <2> QED
    BY <1>2, <1>4, <2>1, <2>2, <2>3 DEF ElementsHeld
<1>5. CASE s # "jwt" /\ l[i] = Null
  BY <1>5 DEF ElementsHeld, Push
<1> QED
  BY <1>3, <1>4, <1>5

LEMMA PushIsNext ==
    ASSUME NEW s, NEW v \in Lists, NEW i \in 1 .. Len(v), NEW x, x = ReadUpTo(s, v, i - 1)
    PROVE  Push(s, x, v[i]) = ReadUpTo(s, v, i)
<1>1. Len(v) \in Nat /\ i - 1 \in 0 .. Len(v) - 1 /\ (i - 1) + 1 = i
  BY DEF Lists
<1>2. CASE s = "jwt"
  <2>1. \A k : k \in 1 .. i <=> k \in 1 .. i - 1 \/ k = i
    OBVIOUS
  <2> QED
    BY <1>2, <2>1 DEF Push, ReadUpTo
<1>3. CASE s # "jwt"
  <2>1. ClaimsUpTo(v)[i] = IF v[i] = Null THEN ClaimsUpTo(v)[i - 1]
                           ELSE Append(ClaimsUpTo(v)[i - 1], v[i])
    BY <1>1, ClaimsRecursion
  <2> QED
    BY <1>3, <2>1 DEF Push, ReadUpTo
<1> QED
  BY <1>2, <1>3

LEMMA GetItemStep == ConfigInv /\ GetItem => ConfigInv'
<1> SUFFICES ASSUME ConfigInv, GetItem PROVE ConfigInv'
  OBVIOUS
<1> DEFINE i == index + 1
           l == SourceList
           old == part[Field]
<1>1. /\ pc = "item" /\ i <= size /\ UNCHANGED <<java, ghosts>>
      /\ IF i \notin DOMAIN l \/ (Section = "jwt" /\ (IF i \in DOMAIN l THEN l[i] ELSE Null) = Null)
         THEN Reject
         ELSE /\ part' = [part EXCEPT ![Field] = Push(Section, @, IF i \in DOMAIN l THEN l[i] ELSE Null)]
              /\ index' = i
              /\ UNCHANGED <<pc, at, getter, size, sect, list, rust>>
  BY DEF GetItem
<1>2. /\ <<Section, Field>> \in ListFields
      /\ l \in Held(Section, Field) \ {Null}
      /\ size \in Nat /\ index \in 0 .. size
      /\ ElementsHeld(Section, Field, old)
      /\ ~shrunk => \E v \in Held(Section, Field) \ {Null} :
              /\ Len(v) = size /\ size <= Len(l)
              /\ \A k \in 1 .. size : l[k] = v[k]
              /\ old = ReadUpTo(Section, v, index)
  BY <1>1 DEF ConfigInv, ListInv
<1>3. l \in Lists /\ DOMAIN l = 1 .. Len(l) /\ Len(l) \in Nat /\ i \in 1 .. size /\ i - 1 = index
  BY <1>1, <1>2, ListTable DEF Lists
<1>4. CASE i \notin DOMAIN l \/ (Section = "jwt" /\ l[i] = Null)
  <2>1. Reject
    BY <1>1, <1>4
  <2>2. ASSUME ~shrunk PROVE \E c \in had : IllFormed(c, Section)
    <3>1. i \in DOMAIN l
      BY <1>2, <1>3, <2>2
    <3>2. Section = "jwt" /\ Field = "supportedSignatureAlgorithms" /\ Null \in ToSet(l)
      BY <1>2, <1>4, <3>1, ListTable DEF ToSet
    <3>3. PICK c \in had : c[Section] # NoSection /\ c[Section][Field] = l
      BY <1>2 DEF Held
    <3>4. IllFormed(c, Section)
      BY <3>2, <3>3 DEF IllFormed
    <3> QED
      BY <3>4
  <2> QED
    BY <1>1, <2>1, <2>2, RejectStep
<1>5. CASE i \in DOMAIN l /\ (Section = "jwt" => l[i] # Null)
  <2> DEFINE new == Push(Section, old, l[i])
  <2>1. /\ part' = [part EXCEPT ![Field] = new] /\ index' = i
        /\ UNCHANGED <<pc, at, getter, size, sect, list, rust>>
        /\ UNCHANGED <<config, built, edits, had, shrunk>>
    BY <1>1, <1>5 DEF java, ghosts
  <2>2. UNCHANGED <<Section, Field, Source, SourceList>>
    BY <2>1 DEF Section, Field, Source, SourceList
  <2>3. Field \in DOMAIN part
    BY <1>1, Positions DEF ConfigInv, PartInv, Field
  <2>4. /\ DOMAIN part' = DOMAIN part /\ part'[Field] = new
        /\ \A f \in DOMAIN part : f # Field => part'[f] = part[f]
    BY <2>1, <2>3
  <2> HIDE DEF new
  <2>5. ShapeOK'
    BY <2>1, <2>2 DEF ConfigInv, ShapeOK
  <2>6. HadInv'
    BY <2>1 DEF ConfigInv, HadInv
  <2>7. SourceInv'
    BY <1>1, <1>2, <2>1, <2>2, ListTable DEF ConfigInv, SourceInv
  <2>8. had \subseteq had' /\ shrunk' = shrunk
    BY <2>1
  <2>9. PartInv'
    <3>1. ASSUME NEW f \in DOMAIN part, f # Field PROVE ReadSound(Section, f, part[f])'
      <4>1. ReadSound(Section, f, part[f])
        BY <1>1, <3>1 DEF ConfigInv, PartInv
      <4> QED
        BY <2>2, <2>4, <2>8, <3>1, <4>1, Monotone
    <3>2. DOMAIN part = {Getters[Section][k] : k \in 1 .. getter}
      BY <1>1 DEF ConfigInv, PartInv
    <3> QED
      BY <1>1, <1>2, <2>1, <2>2, <2>4, <3>1, <3>2, ListTable DEF PartInv
  <2>10. ListInv'
    <3>1. Held(Section, Field)' = Held(Section, Field)
      BY <2>1, <2>2 DEF Held
    <3>2. ElementsHeld(Section, Field, new)
      BY <1>2, <1>3, <1>5, PushIsSound DEF new
    <3>3. ElementsHeld(Section, Field, part[Field])'
      BY <2>2, <2>4, <2>8, <3>2, Monotone
    <3>4. ASSUME ~shrunk
          PROVE  \E v \in Held(Section, Field) \ {Null} :
                    /\ Len(v) = size /\ size <= Len(l)
                    /\ \A k \in 1 .. size : l[k] = v[k]
                    /\ new = ReadUpTo(Section, v, i)
      <4>1. PICK v \in Held(Section, Field) \ {Null} :
              /\ Len(v) = size /\ size <= Len(l)
              /\ \A k \in 1 .. size : l[k] = v[k]
              /\ old = ReadUpTo(Section, v, index)
        BY <1>2, <3>4
      <4>2. v \in Lists
        BY <1>2, ListTable
      <4>3. new = ReadUpTo(Section, v, i)
        BY <1>3, <4>1, <4>2, PushIsNext DEF new
      <4> QED
        BY <4>1, <4>3
    <3>5. index' \in 0 .. size
      BY <1>3, <2>1
    <3> HIDE DEF i, l
    <3>6. ASSUME ~shrunk'
          PROVE  \E v \in Held(Section, Field)' \ {Null} :
                    /\ Len(v) = size' /\ size' <= Len(SourceList')
                    /\ \A k \in 1 .. size' : SourceList'[k] = v[k]
                    /\ part'[Field'] = ReadUpTo(Section', v, index')
      BY <2>1, <2>2, <2>4, <3>1, <3>4, <3>6 DEF l
    <3>7. /\ <<Section', Field'>> \in ListFields
          /\ SourceList' \in Held(Section, Field)' \ {Null}
          /\ size' \in Nat /\ index' \in 0 .. size'
      BY <1>2, <2>1, <2>2, <3>1, <3>5 DEF l
    <3> QED
      BY <3>3, <3>6, <3>7 DEF ListInv, ReadUpTo
  <2>11. RustInv'
    BY <2>1, <2>8, DoneStays, OrderTable DEF ConfigInv, RustInv
  <2>12. RejectedForCause'
    BY <1>1, <2>1 DEF RejectedForCause
  <2> QED
    BY <2>5, <2>6, <2>7, <2>9, <2>10, <2>11, <2>12 DEF ConfigInv
<1> QED
  BY <1>3, <1>4, <1>5

LEMMA EndListStep == ConfigInv /\ EndList => ConfigInv'
<1> SUFFICES ASSUME ConfigInv, EndList PROVE ConfigInv'
  OBVIOUS
<1>1. pc = "item" /\ index = size /\ Continue(part, IsLast) /\ UNCHANGED <<java, ghosts>>
  BY DEF EndList
<1>2. /\ <<Section, Field>> \in ListFields
      /\ ElementsHeld(Section, Field, part[Field])
      /\ ~shrunk => \E v \in Held(Section, Field) \ {Null} :
              /\ Len(v) = size
              /\ part[Field] = ReadUpTo(Section, v, index)
  BY <1>1 DEF ConfigInv, ListInv
<1>3. ASSUME NEW v \in Held(Section, Field) \ {Null}
      PROVE  ReadUpTo(Section, v, Len(v)) = Delivered(Section, Field, v)
  <2>1. v \in Lists
    BY <1>2, ListTable
  <2>2. ToSet(v) = {v[i] : i \in 1 .. Len(v)}
    BY <2>1 DEF Lists, ToSet
  <2> QED
    BY <1>2, <2>2, ListTable DEF ReadUpTo, Delivered
<1>4. ReadSound(Section, Field, part[Field])
  BY <1>1, <1>2, <1>3 DEF ReadSound, ListSound
<1>5. IsLast \in BOOLEAN
  BY DEF IsLast
<1>6. PartSound(part, IsLast)
  BY <1>1, <1>2, <1>4, <1>5, ListTable, WithIsSound
<1> QED
  BY <1>1, <1>5, <1>6, ContinueStep

LEMMA InvStep == ConfigInv /\ [Next]_vars => ConfigInv'
<1> SUFFICES ASSUME ConfigInv, [Next]_vars PROVE ConfigInv'
  OBVIOUS
<1>1. CASE UNCHANGED vars
  <2> USE <1>1 DEF vars, java, reader, ghosts
  <2>1. ShapeOK' /\ HadInv' /\ SourceInv'
    BY DEF ConfigInv, ShapeOK, HadInv, SourceInv, LogRead, Section, Source
  <2>2. had \subseteq had' /\ UNCHANGED <<shrunk, Section, Field, Source, SourceList>>
    BY DEF Section, Field, Source, SourceList
  <2>3. PartInv'
    BY <2>2, Monotone DEF ConfigInv, PartInv
  <2>4. ListInv'
    <3>1. Held(Section, Field)' = Held(Section, Field)
      BY <2>2 DEF Held
    <3>2. ElementsHeld(Section, Field, part[Field])' <=> ElementsHeld(Section, Field, part[Field])
      BY <2>2, <3>1 DEF ElementsHeld
    <3>3. \A v : ReadUpTo(Section, v, index)' = ReadUpTo(Section, v, index)
      BY <2>2 DEF ReadUpTo
    <3> QED
      BY <2>2, <3>1, <3>2, <3>3 DEF ConfigInv, ListInv
  <2>5. RustInv'
    BY <2>2, DoneStays, OrderTable DEF ConfigInv, RustInv
  <2>6. RejectedForCause'
    BY DEF ConfigInv, RejectedForCause
  <2> QED
    BY <2>1, <2>3, <2>4, <2>5, <2>6 DEF ConfigInv
<1>2. CASE Application
  BY <1>2, ApplicationStep
<1>3. CASE Call
  BY <1>3, CallStep
<1>4. CASE Bridge
  BY <1>4, GetSectionStep, GetFieldStep, GetListStep, GetSizeStep, GetItemStep, EndListStep DEF Bridge
<1> QED
  BY <1>1, <1>2, <1>3, <1>4 DEF Next, Terminated
(* All that the properties below rest on, of every reachable state.           *)
THEOREM Invariant == Spec => []ConfigInv
BY InvInit, InvStep, PTL DEF Spec

-----------------------------------------------------------------------------
(* The properties of the Rust configuration that was delivered.               *)

LEMMA NothingDelivered == DOMAIN NoSection = {}
BY DEF NoSection

(* A setting of a section that is delivered, and where it is from.            *)
LEMMA FieldDone ==
    ASSUME ConfigInv, NEW s \in Sections \ {"policyStore"}, NEW f \in DOMAIN rust[s]
    PROVE  SectionSound(s) /\ FieldSound(s, f, rust[s][f]) /\ f \in ToSet(Getters[s])
<1>1. PICK k \in 1 .. 8 : s = Order[k]
  BY OrderTable
<1>2. DoneSound(s)
  BY <1>1, NothingDelivered, OrderTable DEF ConfigInv, RustInv
<1>3. SectionSound(s)
  BY <1>2, NothingDelivered DEF DoneSound
<1>4. f \in ToSet(Getters[s])
  BY <1>3, GetterTable DEF SectionSound
<1> QED
  BY <1>3, <1>4 DEF SectionSound

(* The sections of a configuration that was accepted.                         *)
LEMMA AllDone ==
    ASSUME ConfigInv, pc = "converted"
    PROVE  /\ \A s \in Sections \ {"lock", "policyStore"} : SectionSound(s)
           /\ StoreSound
           /\ \/ rust.lock = NoSection /\ \E c \in had : c.lock = NoSection
              \/ SectionSound("lock")
<1>1. \A s \in Sections : DoneSound(s)
  BY OrderTable DEF ConfigInv, RustInv
<1> QED
  BY <1>1, OrderTable DEF DoneSound

(* A number that some configuration had is a long, or null; what could not be *)
(* converted was not accepted.                                                *)
LEMMA NumberDelivered ==
    ASSUME ConfigInv, NEW s, NEW f, <<s, f>> \in Numbers, f \in DOMAIN rust[s]
    PROVE  \E n \in Held(s, f) : n \in Longs \cup {Null} /\ rust[s][f] = Delivered(s, f, n)
<1>1. /\ s \in DOMAIN Setters /\ s \in Sections \ {"policyStore"} /\ <<s, f>> \notin ListFields
      /\ f # "jwtCheckSignValidation" /\ f # "memory"
  BY FieldTable, SetterTable, OrderTable DEF Numbers
<1>2. f \in DOMAIN Setters[s]
  BY <1>1, FieldDone, SetterTable
<1>3. PICK n \in Held(s, f) : Accepted(s, f, n) /\ rust[s][f] = Delivered(s, f, n)
  BY <1>1, FieldDone DEF FieldSound
<1>4. n \in Setters[s][f] /\ (<<s, f>> \in Parsed => n # Unusable)
  BY <1>1, <1>2, <1>3 DEF Accepted, Held, ConfigInv, HadInv, ConfigOK
<1> QED
  BY <1>1, <1>2, <1>3, <1>4, SetterTable

(* The application's configurations and the bridge's place in them keep their *)
(* types, and the numbers delivered are machine words.                        *)
THEOREM TypeCorrect == Spec => []TypeOK
<1>1. ConfigInv => TypeOK
  <2> SUFFICES ASSUME ConfigInv, NEW s \in Sections, NEW f \in DOMAIN rust[s], <<s, f>> \in Numbers
               PROVE  rust[s][f] \in 0 .. 2 * MaxLong + 1 \cup {Null}
    BY DEF TypeOK, ConfigInv
  <2>1. PICK n \in Longs \cup {Null} : rust[s][f] = Delivered(s, f, n)
    BY NumberDelivered
  <2>2. CASE n = Null
    BY <2>1, <2>2 DEF Delivered
  <2>3. CASE n # Null
    <3>1. rust[s][f] = n % (2 * (MaxLong + 1))
      BY <2>1, <2>3 DEF Delivered
    <3> QED
      BY <2>3, <3>1, Unsigned
  <2> QED
    BY <2>2, <2>3
<1> QED
  BY Invariant, <1>1, PTL

(* A configuration is rejected because, at some moment of the call, it had a  *)
(* part that the bridge may not accept, or because a list lost an element     *)
(* while it was read: not because its parts changed between two getters.      *)
THEOREM RejectedWithCause == Spec => []RejectedForCause
<1>1. ConfigInv => RejectedForCause
  BY DEF ConfigInv
<1> QED
  BY Invariant, <1>1, PTL

(* Every setting that the engine is given was set under its name at some      *)
(* moment of the call, and its policies are those of one store.               *)
THEOREM SettingsHeld == Spec => []SettingsWereHeld
<1>1. ConfigInv => SettingsWereHeld
  <2> SUFFICES ASSUME ConfigInv, pc = "converted" PROVE SettingsWereHeld
    BY DEF SettingsWereHeld
  <2>1. ASSUME NEW s \in Sections \ {"policyStore"}, NEW f, f # "jwtCheckSignValidation",
               <<s, f>> \notin ListFields, f \in DOMAIN rust[s]
        PROVE  \E v \in Held(s, f) : rust[s][f] = Delivered(s, f, v)
    BY <2>1, FieldDone DEF FieldSound
  <2>2. \E c \in had : c.policyStore # NoSection /\ rust.policyStore = PolicyStoreOf(c.policyStore)
    BY AllDone DEF StoreSound
  <2> QED
    BY <2>1, <2>2 DEF SettingsWereHeld
<1> QED
  BY Invariant, <1>1, PTL

(* The lists that the engine is given are lists that the configuration had,   *)
(* or were put together of one of them while it shrank.                       *)
THEOREM ListsHeld == Spec => []ListsWereHeld
<1>1. ConfigInv => ListsWereHeld
  <2> SUFFICES ASSUME ConfigInv, pc = "converted", NEW s, NEW f, <<s, f>> \in ListFields
               PROVE  LET lists == Held(s, f) \ {Null}
                          given == rust[s][f]
                      IN IF ~shrunk THEN \E v \in lists : given = Delivered(s, f, v)
                         ELSE (IF s = "jwt" THEN given ELSE ToSet(given))
                                 \subseteq UNION {ToSet(v) : v \in lists}
    BY DEF ListsWereHeld, ListFields
  <2>1. s \in {"jwt", "authz"} /\ f \in ToSet(Getters[s])
    BY GetterTable DEF ListFields
  <2>2. f \in DOMAIN rust[s]
    BY <2>1, AllDone, OrderTable DEF SectionSound
  <2>3. ListSound(s, f, rust[s][f])
    BY <2>1, <2>2, FieldDone, OrderTable DEF FieldSound
  <2> QED
    BY <2>3 DEF ListSound, ElementsHeld
<1> QED
  BY Invariant, <1>1, PTL

(* A limit is kept, or becomes larger than every limit that Java can express. *)
THEOREM LimitsKept == Spec => []LimitsNeverTighten
<1>1. ConfigInv => LimitsNeverTighten
  <2> SUFFICES ASSUME ConfigInv, NEW s, NEW f, <<s, f>> \in Numbers, f \in DOMAIN rust[s]
               PROVE  \E n \in Held(s, f) :
                         IF n = Null THEN rust[s][f] = Null
                         ELSE IF n >= 0 THEN rust[s][f] = n
                         ELSE \A m \in Longs : rust[s][f] > m
    BY DEF LimitsNeverTighten, Numbers
  <2>1. PICK n \in Held(s, f) : n \in Longs \cup {Null} /\ rust[s][f] = Delivered(s, f, n)
    BY NumberDelivered
  <2>2. CASE n = Null
    BY <2>1, <2>2 DEF Delivered
  <2>3. CASE n # Null
    <3>1. n \in Longs /\ rust[s][f] = n % (2 * (MaxLong + 1))
      BY <2>1, <2>3 DEF Delivered
    <3>2. /\ rust[s][f] \in Int
          /\ n >= 0 => rust[s][f] = n
          /\ n < 0 => rust[s][f] > MaxLong
      BY <3>1, Unsigned, ConfigAssumption
    <3>3. n < 0 => \A m \in Longs : rust[s][f] > m
      BY <3>2, ConfigAssumption DEF Longs
    <3> QED
      BY <2>1, <2>3, <3>1, <3>2, <3>3 DEF Longs
  <2> QED
    BY <2>2, <2>3
<1> QED
  BY Invariant, <1>1, PTL

(* Whatever the application does meanwhile, the engine never gets a           *)
(* configuration with a hole in it.                                           *)
THEOREM NeverIllFormed == Spec => []EngineNeverIllFormed
<1>1. ConfigInv => EngineNeverIllFormed
  <2> SUFFICES ASSUME ConfigInv, pc = "converted" PROVE EngineNeverIllFormed
    BY DEF EngineNeverIllFormed
  <2>1. ASSUME NEW s \in Sections \ {"policyStore"}, SectionSound(s)
        PROVE  rust[s] # NoSection /\ \A f \in Mandatory(s) : IsThere(s, f)
    <3>1. Mandatory(s) \subseteq DOMAIN rust[s] /\ DOMAIN rust[s] # {}
      <4>1. Mandatory(s) \subseteq ToSet(Getters[s]) /\ Mandatory("log") = {"logType", "logLevel"}
        BY FieldTable DEF Mandatory
      <4>2. ToSet(Getters[s]) # {}
        BY GetterTable, OrderTable
      <4> QED
        BY <2>1, <4>1, <4>2 DEF SectionSound
    <3>2. ASSUME NEW f \in Mandatory(s) PROVE IsThere(s, f)
      <4>1. <<s, f>> \in Required /\ f # "jwtCheckSignValidation" /\ <<s, f>> \notin Numbers
        BY FieldTable
      <4>2. <<s, f>> \in Parsed => <<s, f>> \notin ListFields
        BY FieldTable
      <4>3. ASSUME <<s, f>> \notin ListFields
            PROVE  rust[s][f] # Null /\ (<<s, f>> \in Parsed => rust[s][f] # Unusable)
        <5>1. PICK v : Accepted(s, f, v) /\ rust[s][f] = Delivered(s, f, v)
          BY <3>1, <4>1, <4>3, FieldDone DEF FieldSound
        <5>2. rust[s][f] = v
          BY <4>1, <4>3, <5>1 DEF Delivered, Accepted
        <5> QED
          BY <4>1, <5>1, <5>2 DEF Accepted
      <4> QED
        BY <4>2, <4>3 DEF IsThere
    <3> QED
      BY <3>1, <3>2, NothingDelivered
  <2>2. \A s \in Sections \ {"lock", "policyStore"} :
           rust[s] # NoSection /\ \A f \in Mandatory(s) : IsThere(s, f)
    BY <2>1, AllDone
  <2>3. rust.lock # NoSection => \A f \in Mandatory("lock") : IsThere("lock", f)
    BY <2>1, AllDone, OrderTable
  <2>4. /\ rust.log.logType # "LOCK"
        /\ rust.log.logType = "MEMORY" =>
              rust.log.memory # Null /\ MemoryFields \subseteq DOMAIN rust.log
    <3>1. SectionSound("log")
      BY AllDone, OrderTable
    <3> QED
      BY <3>1, GetterTable DEF SectionSound, MemoryFields
  <2>5. rust.policyStore.from # Null
    <3>1. PICK c \in had :
            /\ c.policyStore # NoSection /\ c.policyStore.source # Null
            /\ ~Rejects("policyStore", c.policyStore)
            /\ rust.policyStore = PolicyStoreOf(c.policyStore)
      BY AllDone DEF StoreSound
    <3>2. c.policyStore \in Stores
      BY <3>1 DEF ConfigInv, HadInv, ConfigOK
    <3>3. c.policyStore.source \in DataSources \cup FileSources
      BY <3>1, <3>2 DEF Stores
    <3> QED
      BY <3>1, <3>3 DEF Rejects, PolicyStoreOf
  <2>6. /\ rust.jwt.supportedSignatureAlgorithms \subseteq Items
        /\ \A f \in {"decisionLogUserClaims", "decisionLogWorkloadClaims"} :
              rust.authz[f] \in Seq(Items)
    <3>1. SectionSound("jwt") /\ SectionSound("authz")
      BY AllDone, OrderTable
    <3>2. /\ "supportedSignatureAlgorithms" \in DOMAIN rust["jwt"]
          /\ {"decisionLogUserClaims", "decisionLogWorkloadClaims"} \subseteq DOMAIN rust["authz"]
      BY <3>1, GetterTable DEF SectionSound
    <3> QED
      BY <3>1, <3>2 DEF SectionSound, FieldSound, ListFields, ListSound, ElementsHeld
  <2> QED
    BY <2>2, <2>3, <2>4, <2>5, <2>6 DEF EngineNeverIllFormed
<1> QED
  BY Invariant, <1>1, PTL

(* A configuration that nobody changed is delivered as it is.                 *)
LEMMA UneditedDelivered ==
    ASSUME ConfigInv, pc = "converted", Unedited,
           NEW s \in Sections \ {"policyStore"}, NEW f \in DOMAIN rust[s],
           f # "jwtCheckSignValidation"
    PROVE  /\ config[s] # NoSection
           /\ rust[s][f] = Delivered(s, f, config[s][f])
           /\ <<s, f>> \in Required => config[s][f] # Null
           /\ <<s, f>> \in Parsed => config[s][f] # Unusable
<1>1. /\ ~shrunk /\ \A v \in Held(s, f) : config[s] # NoSection /\ v = config[s][f]
  BY UneditedHeld
<1>2. FieldSound(s, f, rust[s][f])
  BY FieldDone
<1>3. CASE <<s, f>> \in ListFields
  BY <1>1, <1>2, <1>3, FieldTable DEF FieldSound, ListSound
<1>4. CASE <<s, f>> \notin ListFields
  BY <1>1, <1>2, <1>4 DEF FieldSound, Accepted
<1> QED
  BY <1>3, <1>4

(* Every setting of an accepted configuration that nobody changes reaches the *)
(* engine, in its own place.                                                  *)
THEOREM Faithful == Spec => []DeliveredFaithfully
<1>1. ConfigInv => DeliveredFaithfully
  <2> SUFFICES ASSUME ConfigInv, pc = "converted", Unedited PROVE DeliveredFaithfully
    BY DEF DeliveredFaithfully
  <2>0. had = {config}
    BY UneditedHeld
  <2>1. ASSUME NEW s \in Sections, NEW f \in Settings(config, s)
        PROVE  rust[s][f] = Delivered(s, f, config[s][f])
    <3>1. /\ config[s] # NoSection /\ s # "policyStore"
          /\ f \in DOMAIN Setters[s] /\ f # "jwtCheckSignValidation"
          /\ f \in MemoryFields => config.log.logType = "MEMORY"
      BY DEF Settings
    <3>2. SectionSound(s)
      BY <2>0, <3>1, AllDone
    <3>3. f \in ToSet(Getters[s])
      BY <3>1, SetterTable
    <3>4. s = "log" => f \in DOMAIN rust["log"]
      <4>1. SUFFICES ASSUME s = "log", f \in MemoryFields PROVE rust.log.logType = "MEMORY"
        BY <3>1, <3>2, <3>3, GetterTable, SetterTable DEF SectionSound, MemoryFields
      <4>2. "logType" \in DOMAIN rust["log"]
        BY <3>2, <4>1, GetterTable DEF SectionSound
      <4>3. rust.log.logType = Delivered("log", "logType", config.log.logType)
        BY <3>1, <4>1, <4>2, UneditedDelivered
      <4> QED
        BY <3>1, <4>1, <4>3 DEF Delivered, Numbers, ListFields
    <3>5. f \in DOMAIN rust[s]
      BY <3>2, <3>3, <3>4 DEF SectionSound
    <3> QED
      BY <3>1, <3>5, UneditedDelivered
  <2>2. config.lock = NoSection => rust.lock = NoSection
    BY <2>0, AllDone DEF SectionSound
  <2>3. rust.policyStore = PolicyStoreOf(config.policyStore)
    BY <2>0, AllDone DEF StoreSound
  <2> QED
    BY <2>1, <2>2, <2>3 DEF DeliveredFaithfully, PolicyStoreOf
<1> QED
  BY Invariant, <1>1, PTL

(* A configuration that nobody changes is accepted exactly when it has no     *)
(* hole, wherever it is nested.                                               *)
THEOREM AcceptedIff == Spec => []AcceptedIffWellFormed
<1>1. ConfigInv => AcceptedIffWellFormed
  <2>a. ASSUME ConfigInv, Unedited, pc = "failed" PROVE \E s \in Sections : IllFormed(config, s)
    BY <2>a, UneditedHeld DEF ConfigInv, RejectedForCause
  <2> SUFFICES ASSUME ConfigInv, Unedited, pc = "converted", NEW s \in Sections,
                      IllFormed(config, s)
               PROVE  FALSE
    BY <2>a DEF AcceptedIffWellFormed
  <2>0. had = {config}
    BY UneditedHeld
  <2>1. CASE s = "policyStore"
    <3>1. /\ config.policyStore # NoSection /\ config.policyStore.source # Null
          /\ ~Rejects("policyStore", config.policyStore)
      BY <2>0, AllDone DEF StoreSound
    <3>2. config.policyStore \in Stores
      BY <3>1, Positions DEF ConfigOK
    <3>3. config.policyStore.source \in DataSources \cup FileSources
      BY <3>1, <3>2 DEF Stores
    <3>4. Mandatory("policyStore") = {} /\ \A f : <<"policyStore", f>> \notin Parsed
      BY DEF Mandatory, Parsed
    <3> QED
      BY <2>1, <3>1, <3>3, <3>4 DEF Rejects, IllFormed
  <2>2. CASE s # "policyStore"
    <3>1. config[s] # NoSection
      BY <2>0, <2>2, AllDone DEF IllFormed, SectionSound
    <3>2. SectionSound(s)
      BY <2>0, <2>2, <3>1, AllDone
    <3>3. Mandatory(s) \subseteq DOMAIN rust[s]
      <4>1. Mandatory(s) \subseteq ToSet(Getters[s]) /\ Mandatory("log") = {"logType", "logLevel"}
        BY FieldTable DEF Mandatory
      <4> QED
        BY <3>2, <4>1 DEF SectionSound
    <3>4. ASSUME NEW f \in Mandatory(s) PROVE config[s][f] # Null
      BY <2>2, <3>3, <3>4, UneditedDelivered, FieldTable
    <3>5. ASSUME NEW f \in DOMAIN config[s], <<s, f>> \in Parsed PROVE config[s][f] # Unusable
      <4>1. s # "log" /\ f # "jwtCheckSignValidation"
        BY <3>5 DEF Parsed
      <4>2. f \in DOMAIN rust[s]
        BY <2>2, <3>1, <3>2, <4>1, Positions, SetterTable DEF SectionSound, ConfigOK
      <4> QED
        BY <2>2, <3>5, <4>1, <4>2, UneditedDelivered
    <3>6. s = "log" => config.log.logType # "LOCK"
                       /\ (config.log.logType = "MEMORY" => config.log.memory # Null)
      <4>1. SUFFICES ASSUME s = "log"
                     PROVE  config.log.logType # "LOCK"
                            /\ (config.log.logType = "MEMORY" => config.log.memory # Null)
        OBVIOUS
      <4>2. "logType" \in DOMAIN rust["log"]
        BY <3>2, <4>1, GetterTable DEF SectionSound
      <4>3. rust.log.logType = config.log.logType
        <5>1. rust.log.logType = Delivered("log", "logType", config.log.logType)
          BY <4>1, <4>2, UneditedDelivered
        <5> QED
          BY <5>1 DEF Delivered, Numbers, ListFields
      <4>4. ASSUME rust.log.logType = "MEMORY" PROVE config.log.memory # Null
        <5>1. "memory" \in DOMAIN rust["log"] /\ rust.log.memory # Null
          BY <3>2, <4>1, <4>4, GetterTable DEF SectionSound
        <5>2. rust.log.memory = Delivered("log", "memory", config.log.memory)
          BY <4>1, <5>1, UneditedDelivered
        <5> QED
          BY <5>1, <5>2 DEF Delivered
      <4> QED
        BY <3>2, <4>1, <4>3, <4>4 DEF SectionSound
    <3>7. s = "jwt" => Null \notin ToSet(config.jwt.supportedSignatureAlgorithms)
      <4>1. SUFFICES ASSUME s = "jwt"
                     PROVE  Null \notin ToSet(config.jwt.supportedSignatureAlgorithms)
        OBVIOUS
      <4> DEFINE f == "supportedSignatureAlgorithms"
      <4>2. f \in DOMAIN rust["jwt"] /\ <<"jwt", f>> \in ListFields /\ <<"jwt", f>> \notin Numbers
        BY <3>2, <4>1, GetterTable DEF SectionSound, ListFields, Numbers
      <4>3. rust["jwt"][f] \subseteq Items
        BY <4>1, <4>2, FieldDone DEF FieldSound, ListSound, ElementsHeld
      <4>4. config["jwt"][f] # Null /\ rust["jwt"][f] = Delivered("jwt", f, config["jwt"][f])
        BY <4>1, <4>2, UneditedDelivered, FieldTable
      <4>5. rust["jwt"][f] = ToSet(config["jwt"][f])
        BY <4>2, <4>4 DEF Delivered
      <4> QED
        BY <4>3, <4>5, ConfigAssumption
    <3> QED
      BY <2>2, <3>1, <3>4, <3>5, <3>6, <3>7 DEF IllFormed
  <2> QED
    BY <2>1, <2>2
<1> QED
  BY Invariant, <1>1, PTL
=============================================================================
