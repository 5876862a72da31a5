---------------------------- MODULE Bridge_proofs ----------------------------
(***************************************************************************)
(* Proofs about module Bridge, for any threads, instances and results: the *)
(* locks of the process are taken in one order.  The invariants of the     *)
(* instances and of the conversions hold here because every step of the    *)
(* bridge is a step of theirs, or leaves them alone.                       *)
(***************************************************************************)
EXTENDS Bridge, Cedarling_proofs

(* The facts about the conversions, of the same variables as Result. *)
Proved == INSTANCE ResultConversion_proofs WITH Calls <- Conversions, pc <- cpc

LEMMA ResultsAreResults == Proved!ConversionAssumption
  BY ConversionsAssumption
     DEF Proved!ConversionAssumption, Proved!IsResult, Result!IsResult,
         Proved!IsFiniteSet, Result!IsFiniteSet

LEMMA SameTypes == Result!TypeOK <=> Proved!TypeOK
  BY DEF Result!TypeOK, Proved!TypeOK, Result!PCs, Proved!PCs, Result!Caches,
         Proved!Caches, Result!Leaves, Proved!Leaves

LEMMA SameScopes == Result!LocksScoped <=> Proved!LocksScoped
  BY DEF Result!LocksScoped, Proved!LocksScoped, Result!Held, Proved!Held,
         Result!Caches, Proved!Caches

LEMMA SameData ==
    /\ Result!DataInv <=> Proved!DataInv
    /\ Result!ResultFaithful <=> Proved!ResultFaithful
  BY DEF Result!DataInv, Proved!DataInv, Result!DeliveredInv, Proved!DeliveredInv,
         Result!PartInv, Proved!PartInv, Result!JavaOf, Proved!JavaOf, Result!Source,
         Proved!Source, Result!Converting, Proved!Converting, Result!Diagnosing,
         Proved!Diagnosing, Result!AtItem, Proved!AtItem, Result!Unwinding, Proved!Unwinding,
         Result!ResultFaithful, Proved!ResultFaithful

LEMMA SameSteps ==
    ASSUME NEW c \in Conversions, Result!Start(c) \/ Result!Step(c)
    PROVE  Proved!Next
<1>1. Result!Start(c) => Proved!Start(c)
  BY DEF Result!Start, Proved!Start, Result!Goto, Proved!Goto, Result!data, Proved!data,
         Result!loops, Proved!loops
<1>2. Result!Step(c) => Proved!Step(c)
  BY DEF Result!Step, Proved!Step, Result!NewResult, Proved!NewResult,
         Result!LockResult, Proved!LockResult, Result!FillSlot, Proved!FillSlot,
         Result!NewResponse, Proved!NewResponse, Result!LockResponse,
         Proved!LockResponse, Result!LockDecision, Proved!LockDecision,
         Result!ReadDecision, Proved!ReadDecision, Result!NewDiagnostics,
         Proved!NewDiagnostics, Result!LockDiagnostics, Proved!LockDiagnostics,
         Result!NextReason, Proved!NextReason, Result!NextError, Proved!NextError,
         Result!NewLeaf, Proved!NewLeaf, Result!LockLeaf, Proved!LockLeaf,
         Result!MakeLeaf, Proved!MakeLeaf, Result!WithItem,
         Proved!WithItem, Result!EndDiagnostics, Proved!EndDiagnostics, Result!MakeResponse, Proved!MakeResponse,
         Result!EndSlots, Proved!EndSlots, Result!SetRequestId,
         Proved!SetRequestId, Result!SetDecision, Proved!SetDecision,
         Result!Return, Proved!Return, Result!Unwind, Proved!Unwind, Result!Goto,
         Proved!Goto, Result!Acquire, Proved!Acquire, Result!Release, Proved!Release,
         Result!Lookup, Proved!Lookup, Result!Fail, Proved!Fail, Result!Source,
         Proved!Source, Result!NextSlots, Proved!NextSlots, Result!SetField,
         Proved!SetField, Result!data, Proved!data, Result!loops, Proved!loops
<1> QED
  BY <1>1, <1>2 DEF Proved!Next

LEMMA ConversionStep ==
    ASSUME Result!TypeOK, Result!LocksScoped, Result!DataInv,
           (\E c \in Conversions : Result!Start(c) \/ Result!Step(c)) \/ UNCHANGED convVars
    PROVE  Result!TypeOK' /\ Result!LocksScoped' /\ Result!DataInv'
<1>1. [Proved!Next]_(Proved!vars)
  BY SameSteps DEF convVars, Proved!vars, Proved!loops
<1>2. Proved!TypeOK' /\ Proved!LocksScoped' /\ Proved!DataInv'
  BY <1>1, SameTypes, SameScopes, SameData, ResultsAreResults, Proved!TypeStep,
     Proved!ScopedStep, Proved!DataStep
<1>3. /\ (Result!TypeOK <=> Proved!TypeOK)' /\ (Result!LocksScoped <=> Proved!LocksScoped)'
      /\ (Result!DataInv <=> Proved!DataInv)'
  BY SameTypes, SameScopes, SameData, PTL
<1> QED
  BY <1>2, <1>3

-----------------------------------------------------------------------------
(* Every step of the bridge is a step of its instances, or none of theirs. *)
LEMMA InstanceSteps == [BridgeNext]_bridgeVars => [Next]_vars
<1> SUFFICES ASSUME [BridgeNext]_bridgeVars PROVE [Next]_vars
  OBVIOUS
<1>1. ASSUME NEW t \in Threads, BridgeInvoke(t) PROVE Next
  BY <1>1 DEF BridgeInvoke, Next
<1>2. ASSUME NEW t \in Threads, BridgeStep(t) PROVE [Next]_vars
  <2>1. Step(t) \/ UNCHANGED vars
    BY <1>2
       DEF BridgeStep, InstanceStep, HelpLock, HelpReturn, EndConfig,
           AuthorizeAndConvert, ConvertPart, EndResult, Step
  <2> QED
    BY <2>1 DEF Next
<1> QED
  BY <1>1, <1>2 DEF BridgeNext, BridgeTerminated, Terminated, bridgeVars

LEMMA ConversionSteps ==
    ASSUME BridgeInv, [BridgeNext]_bridgeVars
    PROVE  (\E c \in Conversions : Result!Start(c) \/ Result!Step(c)) \/ UNCHANGED convVars
<1>1. ASSUME NEW t \in Threads, pc[t] # "idle" PROVE Conversion(t) \in Conversions
  BY <1>1, CedarlingAssumption
     DEF BridgeInv, CallsConvert, IInv, TypeOK, Conversion, Conversions
<1>2. ASSUME NEW t \in Threads, AuthorizeAndConvert(t) \/ ConvertPart(t)
      PROVE  (\E c \in Conversions : Result!Start(c) \/ Result!Step(c)) \/ UNCHANGED convVars
  <2>1. pc[t] # "idle"
    BY <1>2 DEF AuthorizeAndConvert, Authorize, Goto, Fail, ConvertPart
  <2> QED
    BY <1>1, <1>2, <2>1 DEF AuthorizeAndConvert, ConvertPart
<1>3. ASSUME NEW t \in Threads, BridgeInvoke(t) \/ BridgeStep(t),
             ~AuthorizeAndConvert(t), ~ConvertPart(t)
      PROVE  UNCHANGED convVars
  BY <1>3 DEF BridgeInvoke, BridgeStep, InstanceStep, HelpLock, HelpReturn, EndConfig, EndResult
<1> QED
  BY <1>2, <1>3 DEF BridgeNext, BridgeStep, BridgeTerminated, bridgeVars

-----------------------------------------------------------------------------
(* Who converts, and who has the mutex of util.rs. *)

LEMMA StepMoves ==
    ASSUME NEW t \in Threads, Step(t)
    PROVE  /\ pc[t] # "idle" /\ UNCHANGED calls
           /\ \E p : pc' = [pc EXCEPT ![t] = p]
  BY DEF Step, ConvertConfig, NewEngine, SetField, ConvertRequest, GetField,
         ReadField, LockEngine, LeaveMonitor, Authorize, ConvertResult,
         TakeField, TryTake, DropEngine, Throw, Return,
         Goto, Fail, Convert, locals

LEMMA InvokeMoves ==
    ASSUME TypeOK, NEW t \in Threads, BridgeInvoke(t)
    PROVE  /\ pc[t] = "idle" /\ UNCHANGED <<convVars, util>>
           /\ \E p : pc' = [pc EXCEPT ![t] = p]
           /\ calls' = [calls EXCEPT ![t] = @ + 1]
  BY DEF BridgeInvoke, Invoke, CallNew, CallClose, CallAuthorize, Call, Goto

LEMMA UtilStep == BridgeInv /\ [BridgeNext]_bridgeVars => UtilInv'
<1> SUFFICES ASSUME BridgeInv, [BridgeNext]_bridgeVars PROVE UtilInv'
  OBVIOUS
<1> USE CedarlingAssumption DEF UtilInv, BridgeInv
<1>t. TypeOK
  BY DEF IInv
<1>1. ASSUME NEW t \in Threads, BridgeInvoke(t) PROVE UtilInv'
  BY <1>t, <1>1, InvokeMoves DEF TypeOK
<1>2. ASSUME NEW t \in Threads, BridgeStep(t) PROVE UtilInv'
  <2>1. CASE HelpLock(t)
    BY <2>1 DEF HelpLock, vars
  <2>2. CASE HelpReturn(t)
    BY <2>2 DEF HelpReturn
  <2>3. CASE EndConfig(t)
    BY <1>t, <2>3, StepMoves DEF EndConfig, Step, utilVars, TypeOK
  <2>4. CASE InstanceStep(t) \/ AuthorizeAndConvert(t) \/ EndResult(t)
    <3>1. Step(t) /\ pc[t] # "convertConfig" /\ UNCHANGED util
      BY <2>4
         DEF InstanceStep, AuthorizeAndConvert, EndResult, utilVars, Step,
             NewEngine, SetField, ConvertRequest, GetField,
             ReadField, LockEngine, LeaveMonitor, Authorize, ConvertResult,
             TakeField, TryTake, DropEngine, Throw, Return,
             Goto, Fail, Convert
    <3> QED
      BY <1>t, <3>1, StepMoves DEF TypeOK
  <2>5. CASE ConvertPart(t)
    BY <2>5 DEF ConvertPart, vars, utilVars
  <2> QED
    BY <1>2, <2>1, <2>2, <2>3, <2>4, <2>5 DEF BridgeStep
<1>3. CASE UNCHANGED bridgeVars
  BY <1>3 DEF bridgeVars, vars, utilVars
<1> QED
  BY <1>1, <1>2, <1>3 DEF BridgeNext, BridgeTerminated, Terminated, bridgeVars

(* A step of a conversion moves that conversion only. *)
LEMMA PartMoves ==
    ASSUME NEW c \in Conversions, Result!Start(c) \/ Result!Step(c)
    PROVE  \E p : cpc' = [cpc EXCEPT ![c] = p]
  BY DEF Result!Start, Result!Step, Result!NewResult, Result!LockResult,
         Result!FillSlot, Result!NewResponse, Result!LockResponse,
         Result!LockDecision, Result!ReadDecision, Result!NewDiagnostics,
         Result!LockDiagnostics, Result!NextReason, Result!NextError,
         Result!NewLeaf, Result!LockLeaf, Result!MakeLeaf,
         Result!EndDiagnostics, Result!MakeResponse, Result!EndSlots,
         Result!SetRequestId, Result!SetDecision, Result!Return,
         Result!Unwind, Result!Goto, Result!Lookup, Result!Fail

LEMMA CallsStep == BridgeInv /\ [BridgeNext]_bridgeVars => CallsConvert'
<1> SUFFICES ASSUME BridgeInv, [BridgeNext]_bridgeVars PROVE CallsConvert'
  OBVIOUS
<1> USE CedarlingAssumption DEF CallsConvert, BridgeInv, Conversion
<1>t. TypeOK /\ cpc \in [Conversions -> Result!PCs]
  BY DEF IInv, Result!TypeOK
<1>1. ASSUME NEW t \in Threads, BridgeInvoke(t) PROVE CallsConvert'
  <2>1. \A u \in Threads : pc'[u] # "idle" => calls'[u] # 0
    BY <1>t, <1>1, InvokeMoves DEF TypeOK
  <2>2. ASSUME NEW c \in Conversions, cpc'[c] \notin {"start", "returned", "failed"}
        PROVE  pc'[c[1]] = "convertResult" /\ c = <<c[1], calls'[c[1]]>>
    <3>1. c[1] \in Threads /\ UNCHANGED cpc
      <4>1. c[1] \in Threads
        BY DEF Conversions
      <4>2. UNCHANGED convVars
        BY <1>t, <1>1, InvokeMoves
      <4> QED
        BY <4>1, <4>2 DEF convVars
    <3>2. pc[c[1]] = "convertResult" /\ c = <<c[1], calls[c[1]]>>
      BY <2>2, <3>1
    <3>3. c[1] # t
      BY <1>t, <1>1, <3>2, InvokeMoves
    <3> QED
      BY <1>t, <1>1, <3>1, <3>2, <3>3, InvokeMoves DEF TypeOK
  <2> QED
    BY <2>1, <2>2
<1>2. ASSUME NEW t \in Threads, UNCHANGED <<calls, cpc>>, pc[t] # "idle",
             \E p : pc' = [pc EXCEPT ![t] = p],
             pc[t] = "convertResult" => cpc[Conversion(t)] \in {"returned", "failed"}
      PROVE  CallsConvert'
  BY <1>t, <1>2 DEF TypeOK, Conversions
<1>3. ASSUME NEW t \in Threads, BridgeStep(t) PROVE CallsConvert'
  <2>1. CASE HelpLock(t)
    BY <2>1 DEF HelpLock, vars, convVars
  <2>2. CASE HelpReturn(t)
    <3>1. CASE UNCHANGED vars
      BY <2>2, <3>1 DEF HelpReturn, vars, convVars
    <3>2. CASE ConvertConfig(t)
      <4>1. pc[t] = "convertConfig" /\ Step(t)
        BY <3>2 DEF ConvertConfig, Convert, Goto, Fail, Step
      <4> QED
        BY <1>2, <2>2, <4>1, StepMoves DEF HelpReturn, convVars
    <3> QED
      BY <2>2, <3>1, <3>2 DEF HelpReturn
  <2>3. CASE InstanceStep(t) \/ EndConfig(t)
    <3>1. Step(t) /\ pc[t] # "convertResult" /\ UNCHANGED cpc
      BY <2>3
         DEF InstanceStep, EndConfig, ConvertConfig, convVars, Step,
             NewEngine, SetField, ConvertRequest, GetField,
             ReadField, LockEngine, LeaveMonitor,
             TakeField, TryTake, DropEngine, Throw, Return,
             Goto, Fail, Convert
    <3> QED
      BY <1>2, <3>1, StepMoves
  <2>4. CASE EndResult(t)
    <3>1. Step(t) /\ UNCHANGED cpc /\ cpc[Conversion(t)] \in {"returned", "failed"}
      BY <2>4 DEF EndResult, Step, convVars
    <3> QED
      BY <1>2, <3>1, StepMoves
  <2>5. CASE AuthorizeAndConvert(t)
    <3>1. Step(t) /\ pc[t] = "authorize"
      BY <2>5 DEF AuthorizeAndConvert, Authorize, Goto, Fail, Step
    <3>2. CASE pc'[t] = "convertResult"
      <4>1. cpc' = [cpc EXCEPT ![Conversion(t)] = "arNew"]
        BY <2>5, <3>2 DEF AuthorizeAndConvert, Result!Start, Result!Goto
      <4> QED
        BY <1>t, <3>1, <3>2, <4>1, StepMoves DEF TypeOK, Conversions
    <3>3. CASE pc'[t] # "convertResult"
      BY <1>2, <2>5, <3>1, <3>3, StepMoves DEF AuthorizeAndConvert, convVars
    <3> QED
      BY <3>2, <3>3
  <2>6. CASE ConvertPart(t)
    <3>1. pc[t] = "convertResult" /\ UNCHANGED <<pc, calls>> /\ Result!Step(Conversion(t))
      BY <2>6 DEF ConvertPart, vars
    <3>2. Conversion(t) \in Conversions
      BY <1>t, <3>1 DEF TypeOK, Conversions
    <3>3. PICK p : cpc' = [cpc EXCEPT ![Conversion(t)] = p]
      BY <3>1, <3>2, PartMoves
    <3> QED
      BY <1>t, <3>1, <3>2, <3>3
  <2> QED
    BY <1>3, <2>1, <2>2, <2>3, <2>4, <2>5, <2>6 DEF BridgeStep
<1>4. CASE UNCHANGED bridgeVars
  BY <1>4 DEF bridgeVars, vars, convVars
<1> QED
  BY <1>1, <1>3, <1>4 DEF BridgeNext, BridgeTerminated, Terminated, bridgeVars

(* Only the end of a conversion gives its thread a result. *)
LEMMA ResultsStep == BridgeInv /\ [BridgeNext]_bridgeVars => ResultsConverted'
<1> SUFFICES ASSUME BridgeInv, [BridgeNext]_bridgeVars, NEW t \in Threads,
                    result'[t] = "decision"
             PROVE  /\ calls'[t] # 0 /\ pc'[t] \in {"return", "idle"}
                    /\ cpc'[<<t, calls'[t]>>] = "returned"
  BY DEF ResultsConverted, Conversion
<1>t. TypeOK /\ cpc \in [Conversions -> Result!PCs]
  BY DEF BridgeInv, IInv, Result!TypeOK
(* The result was there before this step, and its call moves at most home. *)
<1>1. ASSUME result[t] = "decision", cpc'[Conversion(t)] = cpc[Conversion(t)],
             calls'[t] = calls[t], pc'[t] = pc[t] \/ pc'[t] = "idle"
      PROVE  /\ calls'[t] # 0 /\ pc'[t] \in {"return", "idle"}
             /\ cpc'[<<t, calls'[t]>>] = "returned"
  BY <1>1 DEF BridgeInv, ResultsConverted, Conversion
<1>2. result[t] = "decision" => pc[t] \in {"return", "idle"}
  BY DEF BridgeInv, ResultsConverted
<1>3. ASSUME NEW u \in Threads, BridgeInvoke(u)
      PROVE  /\ calls'[t] # 0 /\ pc'[t] \in {"return", "idle"}
             /\ cpc'[<<t, calls'[t]>>] = "returned"
  <2>1. result[t] = "decision" /\ u # t
    BY <1>t, <1>3 DEF BridgeInvoke, Invoke, CallNew, CallClose, CallAuthorize, Call, TypeOK
  <2>2. calls'[t] = calls[t] /\ pc'[t] = pc[t] /\ UNCHANGED cpc
    BY <1>t, <1>3, <2>1, InvokeMoves DEF TypeOK, convVars
  <2> QED
    BY <1>1, <2>1, <2>2
<1>4. ASSUME NEW u \in Threads, Step(u), ~ConvertResult(u), UNCHANGED cpc
      PROVE  /\ calls'[t] # 0 /\ pc'[t] \in {"return", "idle"}
             /\ cpc'[<<t, calls'[t]>>] = "returned"
  <2>1. UNCHANGED result /\ (pc[u] = "return" => pc' = [pc EXCEPT ![u] = "idle"])
    BY <1>4
       DEF Step, ConvertConfig, NewEngine, SetField, ConvertRequest, GetField,
           ReadField, LockEngine, LeaveMonitor, Authorize, TakeField, TryTake,
           DropEngine, Throw, Return, Goto, Fail, Convert
  <2>2. pc[u] # "idle" /\ UNCHANGED calls /\ \E p : pc' = [pc EXCEPT ![u] = p]
    BY <1>4, StepMoves
  <2> QED
    BY <1>t, <1>1, <1>2, <1>4, <2>1, <2>2 DEF TypeOK
<1>5. ASSUME NEW u \in Threads, BridgeStep(u)
      PROVE  /\ calls'[t] # 0 /\ pc'[t] \in {"return", "idle"}
             /\ cpc'[<<t, calls'[t]>>] = "returned"
  <2>1. CASE HelpLock(u)
    BY <1>1, <2>1 DEF HelpLock, vars, convVars
  <2>2. CASE HelpReturn(u) /\ UNCHANGED vars
    BY <1>1, <2>2 DEF HelpReturn, vars, convVars
  <2>3. CASE InstanceStep(u) \/ EndConfig(u) \/ (HelpReturn(u) /\ ~UNCHANGED vars)
    <3>1. Step(u) /\ pc[u] # "convertResult" /\ UNCHANGED cpc
      BY <2>3
         DEF InstanceStep, EndConfig, HelpReturn, ConvertConfig, convVars, Step,
             NewEngine, SetField, ConvertRequest, GetField,
             ReadField, LockEngine, LeaveMonitor,
             TakeField, TryTake, DropEngine, Throw, Return,
             Goto, Fail, Convert
    <3>2. ~ConvertResult(u)
      BY <3>1 DEF ConvertResult, Convert, Goto, Fail
    <3> QED
      BY <1>4, <3>1, <3>2
  <2>4. CASE EndResult(u)
    <3>1. /\ pc[u] = "convertResult" /\ UNCHANGED <<calls, cpc>>
          /\ \E p : pc' = [pc EXCEPT ![u] = p]
          /\ result' = [result EXCEPT ![u] = IF pc'[u] = "return" THEN "decision" ELSE "null"]
          /\ pc'[u] = "return" => cpc[Conversion(u)] = "returned"
      BY <2>4 DEF EndResult, ConvertResult, Convert, Goto, Fail, locals, convVars
    <3>2. CASE u = t
      <4>1. pc'[t] = "return" /\ calls[t] # 0
        BY <1>t, <3>1, <3>2 DEF TypeOK, BridgeInv, CallsConvert
      <4> QED
        BY <3>1, <3>2, <4>1 DEF Conversion
    <3>3. CASE u # t
      <4>1. result[t] = "decision" /\ pc'[t] = pc[t]
        BY <1>t, <3>1, <3>3 DEF TypeOK
      <4> QED
        BY <1>1, <3>1, <4>1
    <3> QED
      BY <3>2, <3>3
  <2>5. CASE AuthorizeAndConvert(u) \/ ConvertPart(u)
    <3>1. /\ pc[u] \in {"authorize", "convertResult"} /\ UNCHANGED <<calls, result>>
          /\ pc' = pc \/ \E p : pc' = [pc EXCEPT ![u] = p]
          /\ UNCHANGED cpc \/ Result!Start(Conversion(u)) \/ Result!Step(Conversion(u))
      BY <2>5
         DEF AuthorizeAndConvert, ConvertPart, Authorize, Goto, Fail, vars, convVars, locals
    <3>2. result[t] = "decision" /\ u # t /\ pc'[t] = pc[t]
      BY <1>t, <1>2, <3>1 DEF TypeOK
    <3>3. Conversion(u) \in Conversions
      BY <1>t, <3>1, CedarlingAssumption
         DEF BridgeInv, CallsConvert, TypeOK, Conversion, Conversions
    <3>4. UNCHANGED cpc \/ \E p : cpc' = [cpc EXCEPT ![Conversion(u)] = p]
      BY <3>1, <3>3, PartMoves
    <3>5. Conversion(t) # Conversion(u) /\ Conversion(t) \in Conversions
      BY <1>t, <3>2, CedarlingAssumption
         DEF BridgeInv, ResultsConverted, TypeOK, Conversion, Conversions
    <3>6. cpc'[Conversion(t)] = cpc[Conversion(t)]
      BY <1>t, <3>4, <3>5
    <3> QED
      BY <1>1, <3>1, <3>2, <3>6
  <2> QED
    BY <1>5, <2>1, <2>2, <2>3, <2>4, <2>5 DEF BridgeStep
<1>6. CASE UNCHANGED bridgeVars
  BY <1>1, <1>6 DEF bridgeVars, vars, convVars
<1> QED
  BY <1>3, <1>5, <1>6 DEF BridgeNext, BridgeTerminated, Terminated, bridgeVars

-----------------------------------------------------------------------------
LEMMA BridgeInvInit == BridgeInit => BridgeInv
<1> SUFFICES ASSUME BridgeInit PROVE BridgeInv
  OBVIOUS
<1>1. IInv
  BY InvInit DEF BridgeInit
<1>d. Result!DataInv
  <2>1. Proved!Init
    BY DEF BridgeInit, Result!Init, Proved!Init, Result!Caches, Proved!Caches
  <2> QED
    BY <2>1, SameData, ResultsAreResults, Proved!DataInit
<1>2. Result!TypeOK /\ Result!LocksScoped
  BY ConversionsAssumption
     DEF BridgeInit, Result!Init, Result!TypeOK, Result!LocksScoped, Result!Held,
         Result!PCs, Result!Leaves
<1>3. UtilInv /\ CallsConvert /\ ResultsConverted
  BY CedarlingAssumption
     DEF BridgeInit, Init, Result!Init, UtilInv, CallsConvert, ResultsConverted
<1> QED
  BY <1>1, <1>2, <1>3, <1>d DEF BridgeInv

LEMMA BridgeInvStep == BridgeInv /\ [BridgeNext]_bridgeVars => BridgeInv'
<1> SUFFICES ASSUME BridgeInv, [BridgeNext]_bridgeVars PROVE BridgeInv'
  OBVIOUS
<1>1. IInv'
  BY InstanceSteps, InvStep DEF BridgeInv
<1>2. Result!TypeOK' /\ Result!LocksScoped' /\ Result!DataInv'
  <2>1. (\E c \in Conversions : Result!Start(c) \/ Result!Step(c)) \/ UNCHANGED convVars
    BY ConversionSteps
  <2> QED
    BY <2>1, ConversionStep DEF BridgeInv
<1>3. UtilInv' /\ CallsConvert' /\ ResultsConverted'
  BY UtilStep, CallsStep, ResultsStep
<1> QED
  BY <1>1, <1>2, <1>3 DEF BridgeInv

(* In every reachable state of the process each lock, of an instance or of   *)
(* all of them, is held exactly by the thread that is in its scope.          *)
THEOREM BridgeInvariant == BridgeSafe => []BridgeInv
  BY BridgeInvInit, BridgeInvStep, PTL DEF BridgeSafe

(* The mutex of util.rs belongs to threads only, and no constructor takes it  *)
(* more often than the bound allows.                                          *)
LEMMA HelpStep ==
    ASSUME BridgeInv, BridgeTypeOK, [BridgeNext]_bridgeVars
    PROVE  util' \in Threads \cup {NoThread} /\ help' \in [Threads -> 0 .. MaxHelp]
<1> USE BridgeAssumption DEF BridgeTypeOK
<1>1. ASSUME NEW t \in Threads, BridgeInvoke(t)
      PROVE  util' \in Threads \cup {NoThread} /\ help' \in [Threads -> 0 .. MaxHelp]
  BY <1>1 DEF BridgeInvoke
<1>2. ASSUME NEW t \in Threads, BridgeStep(t)
      PROVE  util' \in Threads \cup {NoThread} /\ help' \in [Threads -> 0 .. MaxHelp]
  BY <1>2
     DEF BridgeStep, InstanceStep, HelpLock, HelpReturn, EndConfig,
         AuthorizeAndConvert, ConvertPart, EndResult, utilVars
<1> QED
  BY <1>1, <1>2 DEF BridgeNext, BridgeTerminated, bridgeVars, utilVars

(* Every reachable state of the process is well typed.                        *)
THEOREM BridgeTypeCorrect == BridgeSafe => []BridgeTypeOK
<1>1. BridgeInit => BridgeTypeOK
  BY BridgeInvInit, BridgeAssumption DEF BridgeInit, BridgeInv, IInv, BridgeTypeOK
<1>2. BridgeInv /\ BridgeTypeOK /\ [BridgeNext]_bridgeVars => BridgeTypeOK'
  <2>1. BridgeInv /\ BridgeTypeOK /\ [BridgeNext]_bridgeVars => BridgeInv'
    BY BridgeInvStep
  <2> QED
    BY <2>1, HelpStep DEF BridgeInv, IInv, BridgeTypeOK
<1> QED
  BY <1>1, <1>2, BridgeInvariant, PTL DEF BridgeSafe

(* Each instance of the process behaves as the atomic object of               *)
(* CedarlingService, although the instances share mutexes and their results   *)
(* are converted step by step.                                                *)
THEOREM BridgeImplementsService == BridgeSafe => ServiceSafe
<1>1. BridgeInit => Init
  BY DEF BridgeInit
<1> QED
  BY <1>1, InstanceSteps, ImplementsService, PTL DEF BridgeSafe

-----------------------------------------------------------------------------
(* What a thread can have, by where it is. *)
LEMMA HasInstanceLocks ==
    ASSUME BridgeInv, NEW t \in Threads, NEW o
    PROVE  /\ <<"monitor", o>> \in Has(t) => o = obj[t] /\ pc[t] \in HoldsMonitor
           /\ <<"engine", o>> \in Has(t) => o = obj[t] /\ pc[t] \in HoldsMutex
  BY DEF BridgeInv, IInv, LockInv, Has, Result!Caches

LEMMA HasSharedLocks ==
    ASSUME BridgeInv, NEW t \in Threads, NEW k \in Result!Caches, <<k, NoObject>> \in Has(t)
    PROVE  pc[t] = "convertResult" /\ k \in Result!Held(Conversion(t))
<1>1. PICK n \in 1 .. MaxCalls : lock[k] = <<t, n>>
  BY DEF Has, Result!Caches
<1>2. <<t, n>> \in Conversions /\ k \in Result!Held(<<t, n>>)
  BY <1>1 DEF BridgeInv, Result!LocksScoped, Conversions
<1>3. cpc[<<t, n>>] \notin {"start", "returned", "failed"}
  BY <1>2 DEF Result!Held
<1>4. pc[t] = "convertResult" /\ <<t, n>> = Conversion(t)
  BY <1>2, <1>3 DEF BridgeInv, CallsConvert
<1> QED
  BY <1>2, <1>4

(* The levels of the locks of an instance, and of the mutex of util.rs. *)
LEMMA Levels ==
    /\ \A o : Level(<<"monitor", o>>) = 1 /\ Level(<<"engine", o>>) = 2
    /\ Level(<<"util", NoObject>>) = 3
    /\ \A k \in Result!Caches : Level(<<k, NoObject>>) \in 4 .. 7
  BY DEF Level, Result!Caches

LEMMA HasOnly ==
    ASSUME NEW t, NEW h \in Has(t)
    PROVE  \/ \E o \in Objects : h = <<"monitor", o>> \/ h = <<"engine", o>>
           \/ h = <<"util", NoObject>> /\ util = t
           \/ \E k \in Result!Caches : h = <<k, NoObject>>
  BY DEF Has

(* The nest of the result mutexes is entered from the outside. *)
LEMMA NestClimbs ==
    ASSUME Result!TypeOK, NEW c \in Conversions,
           NEW k \in Result!Held(c), NEW w \in Result!Wanted(c)
    PROVE  Level(<<k, NoObject>>) < Level(<<w, NoObject>>)
  BY DEF Result!TypeOK, Result!PCs, Result!Leaves, Result!Held, Result!Wanted, Level

(* Who waits for the monitor or for the mutex of util.rs has nothing, who     *)
(* waits for the engine has the monitor, and who waits in the nest is in it.  *)
LEMMA InvClimbs == BridgeInv => LocksClimb
<1> SUFFICES ASSUME BridgeInv, NEW t \in Threads, NEW h \in Has(t), NEW w \in WaitsFor(t)
             PROVE  Level(h) < Level(w)
  BY DEF LocksClimb
<1>1. CASE \E o \in Objects : h = <<"monitor", o>> \/ h = <<"engine", o>>
  <2>1. PICK o \in Objects : h = <<"monitor", o>> \/ h = <<"engine", o>>
    BY <1>1
  <2>2. pc[t] \in HoldsMonitor \cup HoldsMutex
    BY <2>1, HasInstanceLocks
  <2>3. pc[t] = "lockEngine" /\ w = <<"engine", obj[t]>>
    BY <2>2 DEF WaitsFor, HoldsMonitor, HoldsMutex
  <2>4. h = <<"monitor", o>>
    BY <2>1, <2>3, HasInstanceLocks DEF HoldsMutex
  <2> QED
    BY <2>3, <2>4, Levels
<1>2. CASE h = <<"util", NoObject>> /\ util = t
  BY <1>2 DEF BridgeInv, UtilInv, WaitsFor
<1>3. CASE \E k \in Result!Caches : h = <<k, NoObject>>
  <2>1. PICK k \in Result!Caches : h = <<k, NoObject>>
    BY <1>3
  <2>2. pc[t] = "convertResult" /\ k \in Result!Held(Conversion(t))
    BY <2>1, HasSharedLocks
  <2>3. PICK v \in Result!Wanted(Conversion(t)) : w = <<v, NoObject>>
    BY <2>2 DEF WaitsFor
  <2>4. Conversion(t) \in Conversions
    BY <2>2, CedarlingAssumption
       DEF BridgeInv, CallsConvert, IInv, TypeOK, Conversion, Conversions
  <2> QED
    BY <2>1, <2>2, <2>3, <2>4, NestClimbs DEF BridgeInv
<1> QED
  BY <1>1, <1>2, <1>3, HasOnly

LEMMA InvAlone == BridgeInv => SharedLocksAlone
<1> SUFFICES ASSUME BridgeInv, NEW t \in Threads,
                    NEW s \in Has(t), Level(s) > 2, NEW h \in Has(t)
             PROVE  Level(h) > 2
  BY DEF SharedLocksAlone
<1>1. pc[t] \in {"convertConfig", "convertResult"}
  <2>1. ~ \E o \in Objects : s = <<"monitor", o>> \/ s = <<"engine", o>>
    BY Levels
  <2> QED
    BY <2>1, HasOnly, HasSharedLocks DEF BridgeInv, UtilInv
<1>2. ~ \E o \in Objects : h = <<"monitor", o>> \/ h = <<"engine", o>>
  BY <1>1, HasInstanceLocks DEF HoldsMonitor, HoldsMutex
<1> QED
  BY <1>2, HasOnly, Levels

(* Every thread of the process takes the locks in one order, whatever number  *)
(* of instances, threads and results: no circle of threads waits.             *)
THEOREM LocksAreOrdered == BridgeSafe => []LocksClimb
  BY InvClimbs, BridgeInvariant, PTL

(* Nobody keeps a lock of one instance while holding a lock of all of them:   *)
(* the conversion of a result starts after the guard of the engine is gone.   *)
THEOREM SharedAlone == BridgeSafe => []SharedLocksAlone
  BY InvAlone, BridgeInvariant, PTL

(* Who is back in Java has no lock, and has the whole answer to his call.     *)
LEMMA InvAnswers == BridgeInv => AnswerIsOwn
<1> SUFFICES ASSUME BridgeInv, NEW t \in Threads, pc[t] = "idle"
             PROVE  /\ Has(t) = {}
                    /\ result[t] = "decision" =>
                          java[Conversion(t)] = Result!JavaOf(rust[Conversion(t)])
  BY DEF AnswerIsOwn
<1>1. Has(t) = {}
  <2> SUFFICES ASSUME NEW h \in Has(t) PROVE FALSE
    OBVIOUS
  <2>1. ~ \E o \in Objects : h = <<"monitor", o>> \/ h = <<"engine", o>>
    BY HasInstanceLocks DEF HoldsMonitor, HoldsMutex
  <2>2. ~ \E k \in Result!Caches : h = <<k, NoObject>>
    BY HasSharedLocks
  <2>3. util # t
    BY DEF BridgeInv, UtilInv
  <2> QED
    BY <2>1, <2>2, <2>3, HasOnly
<1>2. ASSUME result[t] = "decision"
      PROVE  java[Conversion(t)] = Result!JavaOf(rust[Conversion(t)])
  <2>1. cpc[Conversion(t)] = "returned" /\ Conversion(t) \in Conversions
    BY <1>2, CedarlingAssumption
       DEF BridgeInv, ResultsConverted, IInv, TypeOK, Conversion, Conversions
  <2>2. Result!ResultFaithful
    BY SameTypes, SameData, ResultsAreResults, Proved!DataFaithful DEF BridgeInv
  <2> QED
    BY <2>1, <2>2 DEF Result!ResultFaithful
<1> QED
  BY <1>1, <1>2

(* However many calls convert their results at the same time, each returns    *)
(* its own whole answer, and leaves no lock behind.                           *)
THEOREM OwnAnswers == BridgeSafe => []AnswerIsOwn
  BY InvAnswers, BridgeInvariant, PTL
=============================================================================
