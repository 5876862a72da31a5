------------------------------- MODULE Bridge -------------------------------
(***************************************************************************)
(* The native methods with the locks of the whole process.  Cedarling has  *)
(* the locks of each instance; its conversions are single steps.  Here the *)
(* conversion of a result is that of ResultConversion, with the mutexes    *)
(* that all instances share, and the conversion of a configuration calls   *)
(* Java under the mutex of jni/util.rs, which all constructors share.      *)
(***************************************************************************)
EXTENDS Cedarling, Sequences, FiniteSets

CONSTANTS NoCall, NoResponse, Principals, Results,   \* as in ResultConversion
          MaxHelp   \* bound: calls under the mutex of util.rs per constructor

ASSUME BridgeAssumption == MaxHelp \in Nat

VARIABLES
    cpc, rust, lock, todo, slot, ahead, index, leaf, item, resp, java,
             \* as there, cpc for pc
    util,   \* the thread with the mutex of util.rs
    help    \* help[t]: calls under that mutex the last constructor of t made

convVars == <<cpc, rust, lock, todo, slot, ahead, index, leaf, item, resp, java>>
utilVars == <<util, help>>
bridgeVars == <<vars, convVars, utilVars>>

(* The n-th call of a thread converts at most one result. *)
Conversions == Threads \X (1 .. MaxCalls)
Conversion(t) == <<t, calls[t]>>

Result == INSTANCE ResultConversion WITH Calls <- Conversions, pc <- cpc

ASSUME ConversionsAssumption ==
    /\ NoCall \notin Conversions
    /\ Principals \cap {"person", "workload", "requestId", "decision"} = {}
    /\ \A r \in Results : Result!IsResult(r)

-----------------------------------------------------------------------------
BridgeInit ==
    /\ Init
    /\ Result!Init
    /\ util = NoThread
    /\ help = [t \in Threads |-> 0]

BridgeInvoke(t) ==
    /\ Invoke(t)
    /\ help' = [help EXCEPT ![t] = 0]
    /\ UNCHANGED <<convVars, util>>

(* call_jni_method_to_string and call_jni_opt_long_method lock the mutex of  *)
(* util.rs for a lookup and keep it while they call Java: toString of an     *)
(* enum or a URI, longValue of a Long.                                       *)
HelpLock(t) ==
    /\ pc[t] = "convertConfig"
    /\ help[t] < MaxHelp
    /\ util = NoThread
    /\ util' = t
    /\ help' = [help EXCEPT ![t] = @ + 1]
    /\ UNCHANGED <<vars, convVars>>

HelpReturn(t) ==
    /\ util = t
    /\ util' = NoThread
    /\ \/ UNCHANGED vars
       \/ ConvertConfig(t) /\ pc'[t] = "throw"
    /\ UNCHANGED <<help, convVars>>

(* Faulty variant: the guard of the last lookup outlives the conversion. *)
EndConfig_GuardKept(t) ==
    /\ ConvertConfig(t)
    /\ UNCHANGED <<convVars, utilVars>>

(* The rest of the conversion of the configuration. *)
EndConfig(t) ==
    /\ util # t
    /\ ConvertConfig(t)
    /\ UNCHANGED <<convVars, utilVars>>

(* The engine answers, the guard is dropped, and then as_java_object runs.   *)
AuthorizeAndConvert(t) ==
    /\ Authorize(t)
    /\ IF pc'[t] = "convertResult"
       THEN Result!Start(Conversion(t))
       ELSE UNCHANGED convVars
    /\ UNCHANGED utilVars

ConvertPart(t) ==
    /\ pc[t] = "convertResult"
    /\ Result!Step(Conversion(t))
    /\ UNCHANGED <<vars, utilVars>>

(* Faulty variant: an Err of the conversion is taken for a result. *)
EndResult_ErrIgnored(t) ==
    /\ ConvertResult(t)
    /\ cpc[Conversion(t)] \in {"returned", "failed"}
    /\ pc'[t] = "return"
    /\ UNCHANGED <<convVars, utilVars>>

EndResult(t) ==
    /\ ConvertResult(t)
    /\ cpc[Conversion(t)] \in {"returned", "failed"}
    /\ pc'[t] = "return" <=> cpc[Conversion(t)] = "returned"
    /\ UNCHANGED <<convVars, utilVars>>

(* The steps of an instance that no other instance sees. *)
InstanceStep(t) ==
    /\ \/ NewEngine(t) \/ SetField(t)
       \/ ConvertRequest(t) \/ GetField(t) \/ ReadField(t) \/ LockEngine(t)
       \/ LeaveMonitor(t)
       \/ TakeField(t) \/ TryTake(t) \/ DropEngine(t)
       \/ Throw(t) \/ Return(t)
    /\ UNCHANGED <<convVars, utilVars>>

BridgeStep(t) ==
    \/ InstanceStep(t)
    \/ HelpLock(t) \/ HelpReturn(t) \/ EndConfig(t)
    \/ AuthorizeAndConvert(t) \/ ConvertPart(t) \/ EndResult(t)

BridgeTerminated == Terminated /\ UNCHANGED <<convVars, utilVars>>

BridgeNext == (\E t \in Threads : BridgeInvoke(t) \/ BridgeStep(t)) \/ BridgeTerminated

BridgeSafe == BridgeInit /\ [][BridgeNext]_bridgeVars

-----------------------------------------------------------------------------
(* Who has which lock and who waits for which. *)

Locks ==
    {<<"monitor", o>> : o \in Objects} \cup {<<"engine", o>> : o \in Objects}
    \cup {<<"util", NoObject>>} \cup {<<k, NoObject>> : k \in Result!Caches}

Has(t) ==
    {<<"monitor", o>> : o \in {p \in Objects : monitor[p] = t}}
    \cup {<<"engine", o>> : o \in {p \in Objects : mutex[p] = t}}
    \cup (IF util = t THEN {<<"util", NoObject>>} ELSE {})
    \cup {<<k, NoObject>> : k \in {c \in Result!Caches :
                                    \E n \in 1 .. MaxCalls : lock[c] = <<t, n>>}}

WaitsFor(t) ==
    CASE pc[t] \in {"setField", "getField", "takeField"} -> {<<"monitor", obj[t]>>}
      [] pc[t] = "lockEngine" -> {<<"engine", obj[t]>>}
      [] pc[t] = "convertConfig" /\ util # t -> {<<"util", NoObject>>}
      [] pc[t] = "convertResult" ->
            {<<k, NoObject>> : k \in Result!Wanted(Conversion(t))}
      [] OTHER -> {}

Level(l) ==
    CASE l[1] = "monitor" -> 1
      [] l[1] = "engine" -> 2
      [] l[1] = "util" -> 3
      [] l[1] = "AuthorizeResult" -> 4
      [] l[1] = "PolicyResponse" -> 5
      [] l[1] \in {"AuthzDecision", "Diagnostics"} -> 6
      [] OTHER -> 7

BridgeTypeOK ==
    /\ TypeOK
    /\ Result!TypeOK
    /\ util \in Threads \cup {NoThread}
    /\ help \in [Threads -> 0 .. MaxHelp]

(* All locks of the process have an order in which every thread takes them:   *)
(* the monitor of an object, its engine, the mutex of util.rs, the nest of    *)
(* result caches.  So no circle of threads waits, over all instances, though  *)
(* the locks are taken in different files and one of them is kept while Java  *)
(* runs (cedarling.rs:146, util.rs:109 and 175, authorize_result.rs:165).     *)
LocksClimb ==
    \A t \in Threads : \A h \in Has(t), w \in WaitsFor(t) : Level(h) < Level(w)

(* A thread that holds a lock that all instances share holds no lock of an    *)
(* instance: the guard of the engine is dropped with the block at             *)
(* cedarling.rs:144-149, before the result is converted.  Who waits for an    *)
(* instance waits for the engine only.                                        *)
SharedLocksAlone ==
    \A t \in Threads :
        (\E h \in Has(t) : Level(h) > 2) => \A h \in Has(t) : Level(h) > 2

(* What authorize returns is the whole answer that the engine gave to that    *)
(* very call, however many other calls are converted by then; and no lock of  *)
(* the bridge stays with a thread that is back in Java.                       *)
AnswerIsOwn ==
    \A t \in Threads : pc[t] = "idle" =>
        /\ Has(t) = {}
        /\ result[t] = "decision" =>
              java[Conversion(t)] = Result!JavaOf(rust[Conversion(t)])

-----------------------------------------------------------------------------
(* The inductive invariant behind the order of the locks: those of the        *)
(* instances and of the conversions, and who is converting what.              *)

(* The mutex of util.rs is taken by constructors that convert. *)
UtilInv == \A t \in Threads : util = t => pc[t] = "convertConfig"

(* The one conversion of a thread that is under way is that of its call.      *)
CallsConvert ==
    /\ \A t \in Threads : pc[t] # "idle" => calls[t] # 0
    /\ \A c \in Conversions : cpc[c] \notin {"start", "returned", "failed"} =>
          pc[c[1]] = "convertResult" /\ c = Conversion(c[1])

(* A call that has a result has it from its own conversion. *)
ResultsConverted ==
    \A t \in Threads : result[t] = "decision" =>
        /\ calls[t] # 0 /\ pc[t] \in {"return", "idle"}
        /\ cpc[Conversion(t)] = "returned"

BridgeInv == /\ IInv /\ Result!TypeOK /\ Result!LocksScoped /\ Result!DataInv
             /\ UtilInv /\ CallsConvert /\ ResultsConverted
=============================================================================
