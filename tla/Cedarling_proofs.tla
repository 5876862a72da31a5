-------------------------- MODULE Cedarling_proofs --------------------------
(***************************************************************************)
(* Proofs about module Cedarling, for any threads, instances and number of *)
(* calls: its types, and the inductive invariant from which the safety of  *)
(* the native engine follows.                                              *)
(***************************************************************************)
EXTENDS Cedarling, TLAPS

(* The steps of the proofs below, one for each action. *)
LEMMA NextCases ==
    ASSUME Next
    PROVE  \/ \E t \in Threads, o \in Objects :
                 \/ CallNew(t, o) \/ CallClose(t, o)
                 \/ \E m \in AuthorizeOps : CallAuthorize(t, m, o)
           \/ \E t \in Threads : Step(t)
           \/ UNCHANGED vars
  BY DEF Next, Invoke, Terminated

-----------------------------------------------------------------------------
LEMMA TypeInit == Init => TypeOK
  BY CedarlingAssumption
     DEF Init, TypeOK, PCs, Ops, AuthorizeOps, Errs, Exceptions

LEMMA TypeStep == TypeOK /\ [Next]_vars => TypeOK'
<1> SUFFICES ASSUME TypeOK, [Next]_vars PROVE TypeOK'
  OBVIOUS
<1> USE CedarlingAssumption
    DEF TypeOK, PCs, Ops, AuthorizeOps, Errs, Exceptions, locals, natives,
        Goto, Fail, Convert, Enter, Leave
<1>1. ASSUME NEW t \in Threads, NEW o \in Objects, CallNew(t, o) PROVE TypeOK'
  BY <1>1 DEF CallNew, Call
<1>2. ASSUME NEW t \in Threads, NEW o \in Objects, CallClose(t, o) PROVE TypeOK'
  BY <1>2 DEF CallClose, Call
<1>3. ASSUME NEW t \in Threads, NEW o \in Objects, NEW m \in AuthorizeOps,
             CallAuthorize(t, m, o)
      PROVE TypeOK'
  BY <1>3 DEF CallAuthorize, Call
<1>4. ASSUME NEW t \in Threads, Step(t) PROVE TypeOK'
  <2>1. CASE ConvertConfig(t) \/ ConvertRequest(t)
    BY <2>1 DEF ConvertConfig, ConvertRequest
  <2>2. CASE NewEngine(t)
    <3>1. engine' \in [Objects -> {"none", "built", "live", "taken", "freed"}]
      BY <2>2 DEF NewEngine
    <3> QED
      BY <2>2, <3>1 DEF NewEngine
  <2>3. CASE SetField(t)
    <3>1. engine' \in [Objects -> {"none", "built", "live", "taken", "freed"}]
      BY <2>3 DEF SetField
    <3> QED
      BY <2>3, <3>1 DEF SetField
  <2>10. CASE DropEngine(t)
    <3>1. engine' \in [Objects -> {"none", "built", "live", "taken", "freed"}]
      BY <2>10 DEF DropEngine
    <3> QED
      BY <2>10, <3>1 DEF DropEngine
  <2>4. CASE GetField(t) \/ TakeField(t) \/ LockEngine(t)
    BY <2>4 DEF GetField, TakeField, LockEngine
  <2>5. CASE ReadField(t) \/ LeaveMonitor(t) \/ Authorize(t)
    BY <2>5 DEF ReadField, LeaveMonitor, Authorize
  <2>6. CASE ConvertResult(t)
    BY <2>6 DEF ConvertResult
  <2>7. CASE TryTake(t)
    <3>1. engine' \in [Objects -> {"none", "built", "live", "taken", "freed"}]
      BY <2>7 DEF TryTake
    <3>2. err' \in [Threads -> Errs]
      BY <2>7 DEF TryTake
    <3>6. pc' \in [Threads -> PCs]
      BY <2>7 DEF TryTake
    <3>3. ref' \in [Objects -> BOOLEAN]
      <4>1. ref' = ref \/ ref' = [ref EXCEPT ![obj[t]] = FALSE]
        BY <2>7 DEF TryTake
      <4> QED
        BY <4>1
    <3>4. monitor' \in [Objects -> Threads \cup {NoThread}]
      BY <2>7 DEF TryTake
    <3>5. UNCHANGED <<op, obj, calls, exc, result, object, mutex>>
      BY <2>7 DEF TryTake
    <3> QED
      BY <3>1, <3>2, <3>3, <3>4, <3>5, <3>6
  <2>8. CASE Throw(t)
    BY <2>8 DEF Throw, Thrown
  <2>9. CASE Return(t)
    BY <2>9 DEF Return
  <2> QED
    BY <1>4, <2>1, <2>2, <2>3, <2>4, <2>5, <2>6, <2>7, <2>8, <2>9, <2>10
       DEF Step
<1>5. CASE UNCHANGED vars
  BY <1>5 DEF vars
<1> QED
  BY <1>1, <1>2, <1>3, <1>4, <1>5, NextCases

(* Every variable keeps the type the code gives it. *)
THEOREM TypeCorrect == Spec => []TypeOK
  BY TypeInit, TypeStep, PTL DEF Spec
-----------------------------------------------------------------------------
LEMMA InvInit == Init => IInv
<1> SUFFICES ASSUME Init PROVE IInv
  OBVIOUS
<1>1. TypeOK
  BY TypeInit
<1>2. CallInv /\ LockInv /\ ConstructInv
  BY CedarlingAssumption
     DEF Init, CallInv, LockInv, ConstructInv, Calling, NewPCs,
         AuthorizePCs, ClosePCs

<1>3. PublishedHadEngine /\ EngineInUseIsLive /\ DroppedOnce
  BY DEF Init, PublishedHadEngine, EngineInUseIsLive, DroppedOnce
<1>4. OutcomeInv
  BY DEF Init, OutcomeInv, AuthorizeOps
<1> QED
  BY <1>1, <1>2, <1>3, <1>4 DEF IInv

LEMMA InvStep == IInv /\ [Next]_vars => IInv'
<1> SUFFICES ASSUME IInv, [Next]_vars PROVE IInv'
  OBVIOUS
<1>1. TypeOK /\ TypeOK'
  BY TypeStep DEF IInv
<1> USE CedarlingAssumption
    DEF IInv, TypeOK, Goto, Fail, Convert, Enter, Leave, locals, natives,
        Ops, AuthorizeOps, Calling
<1>2. ASSUME NEW t \in Threads, NEW o \in Objects, CallNew(t, o) PROVE IInv'
  <2>1. CallInv'
    BY <1>2 DEF CallNew, Call, CallInv, AuthorizePCs, ClosePCs
  <2>2. LockInv'
    BY <1>2 DEF CallNew, Call, LockInv, HoldsMonitor, HoldsMutex
  <2>3. ConstructInv'
    BY <1>2 DEF CallNew, Call, ConstructInv, PublishedHadEngine
  <2>4. PublishedHadEngine'
    BY <1>2 DEF CallNew, Call, PublishedHadEngine
  <2>5. EngineInUseIsLive' /\ DroppedOnce'
    BY <1>2 DEF CallNew, Call, EngineInUseIsLive, DroppedOnce
  <2>6. OutcomeInv'
    BY <1>2 DEF CallNew, Call, OutcomeInv
  <2> QED
    BY <1>1, <2>1, <2>2, <2>3, <2>4, <2>5, <2>6
<1>3. ASSUME NEW t \in Threads, NEW o \in Objects, CallClose(t, o) PROVE IInv'
  <2>1. CallInv'
    BY <1>3 DEF CallClose, Call, CallInv, NewPCs, AuthorizePCs
  <2>2. LockInv'
    BY <1>3 DEF CallClose, Call, LockInv, HoldsMonitor, HoldsMutex
  <2>3. ConstructInv'
    BY <1>3 DEF CallClose, Call, ConstructInv
  <2>4. PublishedHadEngine'
    BY <1>3 DEF CallClose, Call, PublishedHadEngine
  <2>5. EngineInUseIsLive'
    BY <1>3 DEF CallClose, Call, EngineInUseIsLive
  <2>6. DroppedOnce'
    BY <1>3 DEF CallClose, Call, DroppedOnce
  <2>7. OutcomeInv'
    BY <1>3 DEF CallClose, Call, OutcomeInv
  <2> QED
    BY <1>1, <2>1, <2>2, <2>3, <2>4, <2>5, <2>6, <2>7
<1>4. ASSUME NEW t \in Threads, NEW o \in Objects, NEW m \in AuthorizeOps,
             CallAuthorize(t, m, o)
      PROVE IInv'
  <2>1. CallInv'
    BY <1>4 DEF CallAuthorize, Call, CallInv, NewPCs, ClosePCs
  <2>2. LockInv'
    BY <1>4 DEF CallAuthorize, Call, LockInv, HoldsMonitor, HoldsMutex
  <2>3. ConstructInv'
    BY <1>4 DEF CallAuthorize, Call, ConstructInv
  <2>4. PublishedHadEngine'
    BY <1>4 DEF CallAuthorize, Call, PublishedHadEngine
  <2>5. EngineInUseIsLive'
    BY <1>4 DEF CallAuthorize, Call, EngineInUseIsLive
  <2>6. DroppedOnce'
    BY <1>4 DEF CallAuthorize, Call, DroppedOnce
  <2>7. OutcomeInv'
    BY <1>4 DEF CallAuthorize, Call, OutcomeInv
  <2> QED
    BY <1>1, <2>1, <2>2, <2>3, <2>4, <2>5, <2>6, <2>7
<1>5. ASSUME NEW t \in Threads, ConvertConfig(t) PROVE IInv'
  <2>1. CallInv'
    BY <1>5 DEF ConvertConfig, CallInv, NewPCs, AuthorizePCs, ClosePCs
  <2>2. LockInv'
    BY <1>5 DEF ConvertConfig, LockInv, HoldsMonitor, HoldsMutex
  <2>3. ConstructInv'
    BY <1>5 DEF ConvertConfig, ConstructInv
  <2>4. PublishedHadEngine'
    BY <1>5 DEF ConvertConfig, PublishedHadEngine
  <2>5. EngineInUseIsLive'
    BY <1>5 DEF ConvertConfig, EngineInUseIsLive
  <2>6. DroppedOnce'
    BY <1>5 DEF ConvertConfig, DroppedOnce
  <2>7. OutcomeInv'
    BY <1>5 DEF ConvertConfig, OutcomeInv
  <2> QED
    BY <1>1, <2>1, <2>2, <2>3, <2>4, <2>5, <2>6, <2>7
<1>6. ASSUME NEW t \in Threads, NewEngine(t) PROVE IInv'
  <2>1. CallInv'
    BY <1>6 DEF NewEngine, CallInv, NewPCs, AuthorizePCs, ClosePCs
  <2>2. LockInv'
    BY <1>6 DEF NewEngine, LockInv, HoldsMonitor, HoldsMutex
  <2>3. ConstructInv'
    BY <1>6 DEF NewEngine, CallInv, ConstructInv
  <2>4. PublishedHadEngine'
    BY <1>6 DEF NewEngine, CallInv, ConstructInv, PublishedHadEngine, NewPCs
  <2>5. EngineInUseIsLive'
    BY <1>6 DEF NewEngine, CallInv, EngineInUseIsLive, NewPCs
  <2>6. DroppedOnce'
    BY <1>6 DEF NewEngine, CallInv, DroppedOnce, NewPCs
  <2>7. OutcomeInv'
    BY <1>6 DEF NewEngine, OutcomeInv
  <2> QED
    BY <1>1, <2>1, <2>2, <2>3, <2>4, <2>5, <2>6, <2>7
<1>7. ASSUME NEW t \in Threads, SetField(t) PROVE IInv'
  <2>1. CallInv'
    BY <1>7 DEF SetField, CallInv, NewPCs, AuthorizePCs, ClosePCs
  <2>2. LockInv'
    BY <1>7 DEF SetField, LockInv, HoldsMonitor, HoldsMutex
  <2>3. ConstructInv'
    BY <1>7 DEF SetField, CallInv, OutcomeInv, ConstructInv
  <2>4. PublishedHadEngine'
    BY <1>7 DEF SetField, CallInv, PublishedHadEngine
  <2>5. EngineInUseIsLive'
    BY <1>7 DEF SetField, EngineInUseIsLive
  <2>6. DroppedOnce'
    BY <1>7 DEF SetField, CallInv, DroppedOnce, NewPCs
  <2>7. OutcomeInv'
    BY <1>7 DEF SetField, CallInv, OutcomeInv, NewPCs
  <2> QED
    BY <1>1, <2>1, <2>2, <2>3, <2>4, <2>5, <2>6, <2>7
<1>8. ASSUME NEW t \in Threads, ConvertRequest(t) PROVE IInv'
  <2>1. CallInv'
    BY <1>8 DEF ConvertRequest, CallInv, NewPCs, AuthorizePCs, ClosePCs
  <2>2. LockInv'
    BY <1>8 DEF ConvertRequest, LockInv, HoldsMonitor, HoldsMutex
  <2>3. ConstructInv'
    BY <1>8 DEF ConvertRequest, ConstructInv
  <2>4. PublishedHadEngine'
    BY <1>8 DEF ConvertRequest, PublishedHadEngine
  <2>5. EngineInUseIsLive'
    BY <1>8 DEF ConvertRequest, EngineInUseIsLive
  <2>6. DroppedOnce'
    BY <1>8 DEF ConvertRequest, DroppedOnce
  <2>7. OutcomeInv'
    BY <1>8 DEF ConvertRequest, OutcomeInv
  <2> QED
    BY <1>1, <2>1, <2>2, <2>3, <2>4, <2>5, <2>6, <2>7
<1>9. ASSUME NEW t \in Threads, GetField(t) PROVE IInv'
  <2>1. CallInv'
    BY <1>9 DEF GetField, CallInv, NewPCs, AuthorizePCs, ClosePCs
  <2>2. LockInv'
    BY <1>9 DEF GetField, LockInv, HoldsMonitor, HoldsMutex
  <2>3. ConstructInv'
    BY <1>9 DEF GetField, ConstructInv
  <2>4. PublishedHadEngine'
    BY <1>9 DEF GetField, PublishedHadEngine
  <2>5. EngineInUseIsLive'
    BY <1>9 DEF GetField, EngineInUseIsLive
  <2>6. DroppedOnce'
    BY <1>9 DEF GetField, DroppedOnce
  <2>7. OutcomeInv'
    BY <1>9 DEF GetField, OutcomeInv
  <2> QED
    BY <1>1, <2>1, <2>2, <2>3, <2>4, <2>5, <2>6, <2>7
<1>10. ASSUME NEW t \in Threads, ReadField(t) PROVE IInv'
  <2>1. CallInv'
    BY <1>10 DEF ReadField, CallInv, NewPCs, AuthorizePCs, ClosePCs
  <2>2. LockInv'
    BY <1>10 DEF ReadField, LockInv, HoldsMonitor, HoldsMutex
  <2>3. ConstructInv'
    BY <1>10 DEF ReadField, ConstructInv
  <2>4. PublishedHadEngine'
    BY <1>10 DEF ReadField, PublishedHadEngine
  <2>5. EngineInUseIsLive'
    BY <1>10 DEF ReadField, CallInv, PublishedHadEngine, EngineInUseIsLive
  <2>6. DroppedOnce'
    BY <1>10 DEF ReadField, DroppedOnce
  <2>7. OutcomeInv'
    BY <1>10 DEF ReadField, OutcomeInv
  <2> QED
    BY <1>1, <2>1, <2>2, <2>3, <2>4, <2>5, <2>6, <2>7
<1>11. ASSUME NEW t \in Threads, LockEngine(t) PROVE IInv'
  <2>1. CallInv'
    BY <1>11 DEF LockEngine, CallInv, NewPCs, AuthorizePCs, ClosePCs
  <2>2. LockInv'
    BY <1>11 DEF LockEngine, LockInv, HoldsMonitor, HoldsMutex
  <2>3. ConstructInv'
    BY <1>11 DEF LockEngine, ConstructInv
  <2>4. PublishedHadEngine'
    BY <1>11 DEF LockEngine, PublishedHadEngine
  <2>5. EngineInUseIsLive'
    BY <1>11 DEF LockEngine, EngineInUseIsLive
  <2>6. DroppedOnce'
    BY <1>11 DEF LockEngine, DroppedOnce
  <2>7. OutcomeInv'
    BY <1>11 DEF LockEngine, OutcomeInv
  <2> QED
    BY <1>1, <2>1, <2>2, <2>3, <2>4, <2>5, <2>6, <2>7
<1>12. ASSUME NEW t \in Threads, LeaveMonitor(t) PROVE IInv'
  <2>1. CallInv'
    BY <1>12 DEF LeaveMonitor, CallInv, NewPCs, AuthorizePCs, ClosePCs
  <2>2. LockInv'
    BY <1>12 DEF LeaveMonitor, LockInv, HoldsMonitor, HoldsMutex
  <2>3. ConstructInv'
    BY <1>12 DEF LeaveMonitor, ConstructInv
  <2>4. PublishedHadEngine'
    BY <1>12 DEF LeaveMonitor, PublishedHadEngine
  <2>5. EngineInUseIsLive'
    BY <1>12 DEF LeaveMonitor, EngineInUseIsLive
  <2>6. DroppedOnce'
    BY <1>12 DEF LeaveMonitor, DroppedOnce
  <2>7. OutcomeInv'
    BY <1>12 DEF LeaveMonitor, OutcomeInv
  <2> QED
    BY <1>1, <2>1, <2>2, <2>3, <2>4, <2>5, <2>6, <2>7
<1>13. ASSUME NEW t \in Threads, Authorize(t) PROVE IInv'
  <2>1. CallInv'
    BY <1>13 DEF Authorize, CallInv, NewPCs, AuthorizePCs, ClosePCs
  <2>2. LockInv'
    BY <1>13 DEF Authorize, LockInv, HoldsMonitor, HoldsMutex
  <2>3. ConstructInv'
    BY <1>13 DEF Authorize, ConstructInv
  <2>4. PublishedHadEngine'
    BY <1>13 DEF Authorize, PublishedHadEngine
  <2>5. EngineInUseIsLive'
    BY <1>13 DEF Authorize, EngineInUseIsLive
  <2>6. DroppedOnce'
    BY <1>13 DEF Authorize, DroppedOnce
  <2>7. OutcomeInv'
    BY <1>13 DEF Authorize, OutcomeInv
  <2> QED
    BY <1>1, <2>1, <2>2, <2>3, <2>4, <2>5, <2>6, <2>7
<1>14. ASSUME NEW t \in Threads, ConvertResult(t) PROVE IInv'
  <2>1. CallInv'
    BY <1>14 DEF ConvertResult, CallInv, NewPCs, AuthorizePCs, ClosePCs
  <2>2. LockInv'
    BY <1>14 DEF ConvertResult, LockInv, HoldsMonitor, HoldsMutex
  <2>3. ConstructInv'
    BY <1>14 DEF ConvertResult, CallInv, ConstructInv, AuthorizePCs
  <2>4. PublishedHadEngine'
    BY <1>14 DEF ConvertResult, PublishedHadEngine
  <2>5. EngineInUseIsLive'
    BY <1>14 DEF ConvertResult, EngineInUseIsLive
  <2>6. DroppedOnce'
    BY <1>14 DEF ConvertResult, DroppedOnce
  <2>7. OutcomeInv'
    BY <1>14 DEF ConvertResult, OutcomeInv
  <2> QED
    BY <1>1, <2>1, <2>2, <2>3, <2>4, <2>5, <2>6, <2>7
<1>15. ASSUME NEW t \in Threads, TakeField(t) PROVE IInv'
  <2>1. CallInv'
    BY <1>15 DEF TakeField, CallInv, NewPCs, AuthorizePCs, ClosePCs
  <2>2. LockInv'
    BY <1>15 DEF TakeField, LockInv, HoldsMonitor, HoldsMutex
  <2>3. ConstructInv'
    BY <1>15 DEF TakeField, ConstructInv
  <2>4. PublishedHadEngine'
    BY <1>15 DEF TakeField, PublishedHadEngine
  <2>5. EngineInUseIsLive'
    BY <1>15 DEF TakeField, EngineInUseIsLive
  <2>6. DroppedOnce'
    BY <1>15 DEF TakeField, DroppedOnce
  <2>7. OutcomeInv'
    BY <1>15 DEF TakeField, OutcomeInv
  <2> QED
    BY <1>1, <2>1, <2>2, <2>3, <2>4, <2>5, <2>6, <2>7
<1>16. ASSUME NEW t \in Threads, TryTake(t) PROVE IInv'
  <2>1. CallInv'
    BY <1>16 DEF TryTake, CallInv, NewPCs, AuthorizePCs, ClosePCs
  <2>2. LockInv'
    BY <1>16 DEF TryTake, LockInv, HoldsMonitor, HoldsMutex
  <2>3. ConstructInv'
    BY <1>16 DEF TryTake, CallInv, ConstructInv, PublishedHadEngine
  <2>4. PublishedHadEngine'
    BY <1>16 DEF TryTake, PublishedHadEngine
  <2>5. EngineInUseIsLive'
    BY <1>16
       DEF TryTake, CallInv, LockInv, HoldsMonitor, HoldsMutex,
           EngineInUseIsLive
  <2>6. DroppedOnce'
    BY <1>16 DEF TryTake, CallInv, DroppedOnce
  <2>7. OutcomeInv'
    BY <1>16 DEF TryTake, OutcomeInv
  <2> QED
    BY <1>1, <2>1, <2>2, <2>3, <2>4, <2>5, <2>6, <2>7
<1>17. ASSUME NEW t \in Threads, DropEngine(t) PROVE IInv'
  <2>1. CallInv'
    BY <1>17 DEF DropEngine, CallInv, NewPCs, AuthorizePCs, ClosePCs
  <2>2. LockInv'
    BY <1>17 DEF DropEngine, LockInv, HoldsMonitor, HoldsMutex
  <2>3. ConstructInv'
    BY <1>17 DEF DropEngine, CallInv, ConstructInv, ClosePCs
  <2>4. PublishedHadEngine'
    BY <1>17 DEF DropEngine, PublishedHadEngine, DroppedOnce
  <2>5. EngineInUseIsLive'
    BY <1>17 DEF DropEngine, DroppedOnce, EngineInUseIsLive
  <2>6. DroppedOnce'
    BY <1>17 DEF DropEngine, DroppedOnce
  <2>7. OutcomeInv'
    BY <1>17 DEF DropEngine, CallInv, OutcomeInv, ClosePCs
  <2> QED
    BY <1>1, <2>1, <2>2, <2>3, <2>4, <2>5, <2>6, <2>7
<1>18. ASSUME NEW t \in Threads, Throw(t) PROVE IInv'
  <2>1. CallInv'
    BY <1>18 DEF Throw, Thrown, CallInv, NewPCs, AuthorizePCs, ClosePCs
  <2>2. LockInv'
    BY <1>18 DEF Throw, Thrown, LockInv, HoldsMonitor, HoldsMutex
  <2>3. ConstructInv'
    BY <1>18 DEF Throw, Thrown, OutcomeInv, ConstructInv
  <2>4. PublishedHadEngine'
    BY <1>18 DEF Throw, Thrown, PublishedHadEngine
  <2>5. EngineInUseIsLive'
    BY <1>18 DEF Throw, Thrown, EngineInUseIsLive
  <2>6. DroppedOnce'
    BY <1>18 DEF Throw, Thrown, DroppedOnce
  <2>7. OutcomeInv'
    BY <1>18 DEF Throw, Thrown, OutcomeInv
  <2> QED
    BY <1>1, <2>1, <2>2, <2>3, <2>4, <2>5, <2>6, <2>7
<1>19. ASSUME NEW t \in Threads, Return(t) PROVE IInv'
  <2>1. CallInv'
    BY <1>19 DEF Return, CallInv, NewPCs, AuthorizePCs, ClosePCs
  <2>2. LockInv'
    BY <1>19 DEF Return, LockInv, HoldsMonitor, HoldsMutex
  <2>3. ConstructInv'
    BY <1>19 DEF Return, ConstructInv
  <2>4. PublishedHadEngine'
    BY <1>19 DEF Return, OutcomeInv, ConstructInv, PublishedHadEngine
  <2>5. EngineInUseIsLive'
    BY <1>19 DEF Return, EngineInUseIsLive
  <2>6. DroppedOnce'
    BY <1>19 DEF Return, DroppedOnce
  <2>7. OutcomeInv'
    BY <1>19 DEF Return, OutcomeInv
  <2> QED
    BY <1>1, <2>1, <2>2, <2>3, <2>4, <2>5, <2>6, <2>7
<1>20. CASE UNCHANGED vars
  BY <1>20
     DEF vars, CallInv, LockInv, ConstructInv, PublishedHadEngine,
         EngineInUseIsLive, DroppedOnce, OutcomeInv

<1> QED
  BY <1>2, <1>3, <1>4, <1>5, <1>6, <1>7, <1>8, <1>9, <1>10, <1>11, <1>12,
     <1>13, <1>14, <1>15, <1>16, <1>17, <1>18, <1>19, <1>20, NextCases
     DEF Step

(* IInv holds in every reachable state, whatever the number of threads,        *)
(* instances and calls: the steps above, one for each JNI entry point's step.  *)
THEOREM Invariant == Spec => []IInv
<1>1. IInv /\ [Next]_vars => IInv'
  BY InvStep
<1> QED
  BY InvInit, <1>1, PTL DEF Spec

-----------------------------------------------------------------------------
(* An authorization never works on an engine that close has taken             *)
(* (cedarling.rs:125 against :146).                                           *)
THEOREM NoUseAfterFree == Spec => []EngineInUseIsLive
<1>1. IInv => EngineInUseIsLive
  BY DEF IInv
<1> QED
  BY Invariant, <1>1, PTL

(* The mutable borrow of the engine in cedarling.rs:147 is exclusive.         *)
THEOREM Exclusive == Spec => []EngineExclusive
<1>1. IInv => EngineExclusive
  BY DEF IInv, LockInv, TypeOK, HoldsMutex, CallInv, EngineExclusive
<1> QED
  BY Invariant, <1>1, PTL

(* Concurrent calls of close drop the engine once (cedarling.rs:125).         *)
THEOREM NoDoubleFree == Spec => []DroppedOnce
<1>1. IInv => DroppedOnce
  BY DEF IInv
<1> QED
  BY Invariant, <1>1, PTL

(* The thread that get_rust_field waits for, monitor in hand, is inside the   *)
(* engine and needs no monitor: the two locks never wait for each other       *)
(* (cedarling.rs:146).                                                        *)
THEOREM LocksOrdered == Spec => []WaitsOnlyForEngine
<1>1. IInv => WaitsOnlyForEngine
  <2> SUFFICES ASSUME IInv, NEW t \in Threads, pc[t] = "lockEngine",
                      mutex[obj[t]] # NoThread
               PROVE  /\ mutex[obj[t]] # t
                      /\ pc[mutex[obj[t]]] = "authorize"
    BY DEF WaitsOnlyForEngine
  <2>1. obj[t] \in Objects
    BY DEF IInv, CallInv
  <2>2. PICK s \in Threads : mutex[obj[t]] = s
    BY <2>1 DEF IInv, TypeOK
  <2>3. obj[s] = obj[t] /\ pc[s] \in {"leaveMonitor", "authorize"}
    BY <2>1, <2>2 DEF IInv, LockInv, HoldsMutex
  <2>4. monitor[obj[t]] = t
    BY <2>1 DEF IInv, LockInv, HoldsMonitor
  <2>5. pc[s] # "leaveMonitor"
    BY <2>1, <2>3, <2>4 DEF IInv, LockInv, HoldsMonitor
  <2> QED
    BY <2>2, <2>3, <2>5
<1> QED
  BY Invariant, <1>1, PTL

(* A call that ends in Err leaves its caller an exception, although the       *)
(* entry points ignore the result of throw_new (cedarling.rs:41, 57, 74, 86). *)
THEOREM FailuresSurface == Spec => []NoSilentFailure
<1>1. IInv => NoSilentFailure
  BY DEF IInv, OutcomeInv, NoSilentFailure
<1> QED
  BY Invariant, <1>1, PTL

(* Java code holds an instance only after its engine was stored, and nothing  *)
(* but a constructor or a close has an engine without a field that points to  *)
(* it (cedarling.rs:115-126).                                                 *)
THEOREM EngineFollowsInstance == Spec => []PublishedHadEngine
<1>1. IInv => PublishedHadEngine
  BY DEF IInv
<1> QED
  BY Invariant, <1>1, PTL

-----------------------------------------------------------------------------
(* The refinement of CedarlingService: what a step does to the abstract       *)
(* variables.                                                                 *)

LEMMA PhaseMoves ==
    ASSUME TypeOK, NEW t \in Threads, NEW p, pc' = [pc EXCEPT ![t] = p]
    PROVE  phase' = [phase EXCEPT ![t] = PhaseOf(p)]
  BY DEF TypeOK, phase

LEMMA ReplyMoves ==
    ASSUME TypeOK, NEW t \in Threads, NEW p, NEW e,
           pc' = [pc EXCEPT ![t] = p], err' = [err EXCEPT ![t] = e],
           \A u \in Threads \ {t} : op'[u] = op[u]
    PROVE  reply' = [reply EXCEPT ![t] = ReplyOf(p, e, op'[t])]
  BY DEF TypeOK, reply

LEMMA CalledReply ==
    ASSUME NEW p, NEW e, NEW m, PhaseOf(p) = "called"
    PROVE  ReplyOf(p, e, m) = "none"
  BY DEF PhaseOf, ReplyOf

LEMMA StatusMoves ==
    ASSUME TypeOK, NEW o \in Objects, NEW e, engine' = [engine EXCEPT ![o] = e]
    PROVE  status' = [status EXCEPT ![o] = StatusOf(e)]
  BY DEF TypeOK, status

LEMMA StatusStays == UNCHANGED engine => UNCHANGED status
  BY DEF status

LEMMA ServiceInit == Init => Service!Init
  BY DEF Init, Service!Init, status, phase, reply, StatusOf, PhaseOf, ReplyOf, EndOf, Ops,
         AuthorizeOps

(* Every step of the bridge is a step of the service, or none.               *)
LEMMA ServiceStep ==
    IInv /\ [Next]_vars => [Service!Next]_(Service!svars)
<1> SUFFICES ASSUME IInv, [Next]_vars
             PROVE  [Service!Next]_(Service!svars)
  OBVIOUS
<1>t. TypeOK /\ CallInv
  BY DEF IInv
<1> USE DEF Service!svars, Goto, Fail, Convert, Enter, Leave, locals, natives
<1>1. ASSUME NEW t \in Threads, NEW o \in Objects, NEW m \in Ops, NEW p,
             Call(t, m, o, p), (m = "new") <=> (object[o] = "unborn"),
             object[o] \in {"unborn", "published"}, PhaseOf(p) = "called"
      PROVE  Service!Call(t)
  <2>1. pc[t] = "idle" /\ phase[t] = "idle"
    BY <1>1 DEF Call, phase, PhaseOf
  <2>2. (m = "new") <=> (status[o] = "absent")
    BY <1>1 DEF IInv, PublishedHadEngine, status, StatusOf
  <2>3. phase' = [phase EXCEPT ![t] = "called"]
    BY <1>t, <1>1, PhaseMoves DEF Call
  <2>4. reply' = [reply EXCEPT ![t] = "none"]
    <3>1. \A u \in Threads \ {t} : op'[u] = op[u]
      BY <1>t, <1>1 DEF Call, TypeOK
    <3>2. ReplyOf(p, "none", op'[t]) = "none"
      BY <1>1, CalledReply
    <3>3. pc' = [pc EXCEPT ![t] = p] /\ err' = [err EXCEPT ![t] = "none"]
      BY <1>1 DEF Call
    <3>4. reply' = [reply EXCEPT ![t] = ReplyOf(p, "none", op'[t])]
      BY <1>t, <3>1, <3>3, ReplyMoves
    <3> QED
      BY <3>2, <3>4
  <2>5. m \in Service!Ops
    BY DEF Service!Ops, Ops, Service!AuthorizeOps, AuthorizeOps
  <2> QED
    BY <1>1, <2>1, <2>2, <2>3, <2>4, <2>5, StatusStays DEF Call, Service!Call
<1>2. ASSUME NEW t \in Threads, NEW o \in Objects,
             \/ CallNew(t, o) \/ CallClose(t, o)
             \/ \E m \in AuthorizeOps : CallAuthorize(t, m, o)
      PROVE  Service!Next
  <2>1. CASE CallNew(t, o)
    BY <1>1, <2>1 DEF CallNew, Ops, AuthorizeOps, PhaseOf, Service!Next
  <2>2. CASE CallClose(t, o)
    BY <1>1, <2>2 DEF CallClose, Ops, AuthorizeOps, PhaseOf, Service!Next
  <2>3. CASE \E m \in AuthorizeOps : CallAuthorize(t, m, o)
    BY <1>1, <2>3 DEF CallAuthorize, Ops, AuthorizeOps, PhaseOf, Service!Next
  <2> QED
    BY <1>2, <2>1, <2>2, <2>3
<1>3. ASSUME NEW t \in Threads, NEW p, NEW e, Goto(t, pc[t], p),
             err' = [err EXCEPT ![t] = e], UNCHANGED locals
      PROVE  /\ phase' = [phase EXCEPT ![t] = PhaseOf(p)]
             /\ reply' = [reply EXCEPT ![t] = ReplyOf(p, e, op[t])]
  BY <1>t, <1>3, PhaseMoves, ReplyMoves
(* A call fails before its effect. *)
<1>4. ASSUME NEW t \in Threads, NEW e \in {"Config", "NewEngine", "Request", "Engine"},
             PhaseOf(pc[t]) = "called", op[t] # "close",
             Fail(t, pc[t], e), UNCHANGED <<locals, engine>>
      PROVE  Service!Next
  <2>1. /\ phase' = [phase EXCEPT ![t] = PhaseOf("throw")]
        /\ reply' = [reply EXCEPT ![t] = ReplyOf("throw", e, op[t])]
    BY <1>t, <1>4, PhaseMoves, ReplyMoves
  <2>3. PhaseOf("throw") = "done" /\ ReplyOf("throw", e, op[t]) = "invalid"
    BY <1>4 DEF PhaseOf, ReplyOf, EndOf
  <2>2. Service!Reject(t)
    BY <1>4, <2>1, <2>3, StatusStays DEF Service!Reject, Service!Finish, phase
  <2> QED
    BY <2>2 DEF Service!Next, Service!Serve
(* A call goes on before its effect. *)
<1>5. ASSUME NEW t \in Threads, NEW p, PhaseOf(pc[t]) = PhaseOf(p),
             ReplyOf(pc[t], err[t], op[t]) = ReplyOf(p, err[t], op[t]),
             Goto(t, pc[t], p), UNCHANGED <<locals, err, status>>
      PROVE  UNCHANGED Service!svars
  <2>1. UNCHANGED phase /\ UNCHANGED reply
    BY <1>t, <1>5 DEF phase, reply, TypeOK
  <2> QED
    BY <1>5, <2>1
<1>6. ASSUME NEW t \in Threads, NEW p, Goto(t, pc[t], p), UNCHANGED <<locals, err>>
      PROVE  /\ phase' = [phase EXCEPT ![t] = PhaseOf(p)]
             /\ reply' = [reply EXCEPT ![t] = ReplyOf(p, err[t], op[t])]
  <2>1. err' = [err EXCEPT ![t] = err[t]]
    BY <1>t, <1>6 DEF TypeOK
  <2> QED
    BY <1>3, <1>6, <2>1
(* A call finds that another one has closed the instance. *)
<1>7. ASSUME NEW t \in Threads, obj[t] \in Objects, PhaseOf(pc[t]) = "called",
             op[t] # "new", object[obj[t]] = "published", ~ref[obj[t]],
             Fail(t, pc[t], "NullPtr"), UNCHANGED <<locals, engine>>
      PROVE  Service!Next
  <2>1. PhaseOf("throw") = "done" /\ ReplyOf("throw", "NullPtr", op[t]) = "closed"
    BY DEF PhaseOf, ReplyOf, EndOf
  <2>2. phase' = [phase EXCEPT ![t] = "done"] /\ reply' = [reply EXCEPT ![t] = "closed"]
    <3>1. Goto(t, pc[t], "throw") /\ err' = [err EXCEPT ![t] = "NullPtr"]
      BY <1>7
    <3>2. /\ phase' = [phase EXCEPT ![t] = PhaseOf("throw")]
          /\ reply' = [reply EXCEPT ![t] = ReplyOf("throw", "NullPtr", op[t])]
      BY <1>3, <1>7, <3>1
    <3> QED
      BY <2>1, <3>2
  <2>3. status[obj[t]] = "closed"
    BY <1>7 DEF IInv, PublishedHadEngine, status, StatusOf
  <2>4. Service!RefuseClosed(t)
    BY <1>7, <2>2, <2>3, StatusStays DEF Service!RefuseClosed, Service!Finish, phase
  <2> QED
    BY <2>4 DEF Service!Next, Service!Serve
<1>8. ASSUME NEW t \in Threads, Step(t) PROVE [Service!Next]_(Service!svars)
  <2>t. t \in Threads /\ op[t] \in Ops /\ obj[t] \in Objects
    BY <1>t, <1>8
       DEF CallInv, Step, ConvertConfig, NewEngine, SetField, ConvertRequest, GetField,
           ReadField, LockEngine, LeaveMonitor, Authorize, ConvertResult, TakeField,
           TryTake, DropEngine, Throw, Return
  <2>1. CASE ConvertConfig(t)
    <3>1. op[t] # "close" /\ PhaseOf(pc[t]) = "called"
      BY <1>t, <2>1 DEF ConvertConfig, CallInv, NewPCs, AuthorizeOps, PhaseOf
    <3>2. CASE Goto(t, pc[t], "newEngine") /\ UNCHANGED err
      <4>1. PhaseOf("newEngine") = "called"
        BY DEF PhaseOf
      <4>2. UNCHANGED <<locals, err, status>>
        BY <2>1, <3>2, StatusStays DEF ConvertConfig
      <4> QED
        BY <1>5, <3>1, <3>2, <4>1, <4>2, CalledReply
    <3>3. CASE Fail(t, pc[t], "Config")
      <4>1. UNCHANGED <<locals, engine>>
        BY <2>1 DEF ConvertConfig
      <4> QED
        BY <1>4, <3>1, <3>3, <4>1
    <3> QED
      BY <2>1, <3>2, <3>3 DEF ConvertConfig
  <2>2. CASE ConvertRequest(t)
    <3>1. op[t] # "close" /\ PhaseOf(pc[t]) = "called"
      BY <1>t, <2>2 DEF ConvertRequest, CallInv, AuthorizePCs, AuthorizeOps, PhaseOf
    <3>2. CASE Goto(t, pc[t], "getField") /\ UNCHANGED err
      <4>1. PhaseOf("getField") = "called"
        BY DEF PhaseOf
      <4>2. UNCHANGED <<locals, err, status>>
        BY <2>2, <3>2, StatusStays DEF ConvertRequest
      <4> QED
        BY <1>5, <3>1, <3>2, <4>1, <4>2, CalledReply
    <3>3. CASE Fail(t, pc[t], "Request")
      <4>1. UNCHANGED <<locals, engine>>
        BY <2>2 DEF ConvertRequest
      <4> QED
        BY <1>4, <3>1, <3>3, <4>1
    <3> QED
      BY <2>2, <3>2, <3>3 DEF ConvertRequest
  <2>3. CASE NewEngine(t)
    <3>1. op[t] # "close" /\ PhaseOf(pc[t]) = "called"
      BY <1>t, <2>3 DEF NewEngine, CallInv, NewPCs, PhaseOf
    <3>2. CASE Goto(t, pc[t], "setField") /\ UNCHANGED err /\ engine' = [engine EXCEPT ![obj[t]] = "built"]
      <4>1. engine[obj[t]] = "none"
        BY <1>t, <2>t, <2>3 DEF NewEngine, CallInv, IInv, ConstructInv, Calling, NewPCs
      <4>2. UNCHANGED status
        BY <1>t, <2>t, <3>2, <4>1 DEF status, StatusOf, TypeOK
      <4>3. PhaseOf("setField") = "called"
        BY DEF PhaseOf
      <4>4. UNCHANGED <<locals, err>>
        BY <2>3, <3>2 DEF NewEngine
      <4> QED
        BY <1>5, <3>1, <3>2, <4>2, <4>3, <4>4, CalledReply
    <3>3. CASE Fail(t, pc[t], "NewEngine") /\ UNCHANGED engine
      <4>1. UNCHANGED <<locals, engine>>
        BY <2>3, <3>3 DEF NewEngine
      <4> QED
        BY <1>4, <3>1, <3>3, <4>1
    <3> QED
      BY <2>3, <3>2, <3>3 DEF NewEngine
  <2>4. CASE SetField(t)
    <3>1. op[t] = "new" /\ phase[t] = "called" /\ status[obj[t]] = "absent" /\ err[t] = "none"
      BY <1>t, <2>t, <2>4
         DEF SetField, CallInv, IInv, ConstructInv, OutcomeInv, Calling, NewPCs,
             phase, PhaseOf, status, StatusOf
    <3>2. status' = [status EXCEPT ![obj[t]] = "open"]
      BY <1>t, <2>t, <2>4, StatusMoves DEF SetField, StatusOf
    <3>3. phase' = [phase EXCEPT ![t] = "done"] /\ reply' = [reply EXCEPT ![t] = "ok"]
      <4>1. Goto(t, pc[t], "return") /\ UNCHANGED <<locals, err>>
        BY <2>4 DEF SetField
      <4>2. PhaseOf("return") = "done" /\ ReplyOf("return", err[t], op[t]) = "ok"
        BY <3>1 DEF PhaseOf, ReplyOf, EndOf, AuthorizeOps, Ops
      <4> QED
        BY <1>6, <4>1, <4>2
    <3>4. Service!Open(t)
      BY <2>4, <3>1, <3>2, <3>3 DEF SetField, Service!Open, Service!Finish
    <3> QED
      BY <3>4 DEF Service!Next, Service!Serve
  <2>5. CASE GetField(t)
    <3>1. PICK p \in PCs : Goto(t, pc[t], p) /\ PhaseOf(pc[t]) = "called" /\ PhaseOf(p) = "called"
      BY <2>5 DEF GetField, PCs, PhaseOf
    <3>2. UNCHANGED <<locals, err, status>>
      BY <2>5, StatusStays DEF GetField
    <3> QED
      BY <1>5, <3>1, <3>2, CalledReply
  <2>6. CASE LockEngine(t)
    <3>1. PICK p \in PCs : Goto(t, pc[t], p) /\ PhaseOf(pc[t]) = "called" /\ PhaseOf(p) = "called"
      BY <2>6 DEF LockEngine, PCs, PhaseOf
    <3>2. UNCHANGED <<locals, err, status>>
      BY <2>6, StatusStays DEF LockEngine
    <3> QED
      BY <1>5, <3>1, <3>2, CalledReply
  <2>7. CASE LeaveMonitor(t)
    <3>1. PICK p \in PCs : Goto(t, pc[t], p) /\ PhaseOf(pc[t]) = "called" /\ PhaseOf(p) = "called"
      BY <2>7 DEF LeaveMonitor, PCs, PhaseOf
    <3>2. UNCHANGED <<locals, err, status>>
      BY <2>7, StatusStays DEF LeaveMonitor
    <3> QED
      BY <1>5, <3>1, <3>2, CalledReply
  <2>8. CASE TakeField(t)
    <3>1. PICK p \in PCs : Goto(t, pc[t], p) /\ PhaseOf(pc[t]) = "called" /\ PhaseOf(p) = "called"
      BY <2>8 DEF TakeField, PCs, PhaseOf
    <3>2. UNCHANGED <<locals, err, status>>
      BY <2>8, StatusStays DEF TakeField
    <3> QED
      BY <1>5, <3>1, <3>2, CalledReply
  <2>9. CASE ReadField(t)
    <3>1. PhaseOf(pc[t]) = "called" /\ op[t] \in AuthorizeOps /\ object[obj[t]] = "published"
      BY <1>t, <2>t, <2>9 DEF ReadField, CallInv, AuthorizePCs, Calling, AuthorizeOps, PhaseOf
    <3>2. CASE Goto(t, pc[t], "lockEngine") /\ UNCHANGED err
      <4>1. PhaseOf("lockEngine") = "called"
        BY DEF PhaseOf
      <4>2. UNCHANGED <<locals, err, status>>
        BY <2>9, <3>2, StatusStays DEF ReadField
      <4> QED
        BY <1>5, <3>1, <3>2, <4>1, <4>2, CalledReply
    <3>3. CASE Fail(t, pc[t], "NullPtr") /\ ~ref[obj[t]]
      BY <1>7, <2>t, <2>9, <3>1, <3>3 DEF ReadField, AuthorizeOps
    <3> QED
      BY <2>9, <3>2, <3>3 DEF ReadField
  <2>10. CASE Authorize(t)
    <3>1. PhaseOf(pc[t]) = "called" /\ op[t] \in AuthorizeOps /\ status[obj[t]] = "open"
      BY <1>t, <2>t, <2>10
         DEF Authorize, CallInv, AuthorizePCs, IInv, EngineInUseIsLive, PhaseOf, status, StatusOf
    <3>2. CASE Goto(t, pc[t], "convertResult") /\ UNCHANGED err
      <4>1. UNCHANGED <<locals, err, status>>
        BY <2>10, <3>2, StatusStays DEF Authorize
      <4>2. PhaseOf("convertResult") = "decided" /\ ReplyOf("convertResult", err[t], op[t]) = "none"
        BY DEF PhaseOf, ReplyOf
      <4>3. phase' = [phase EXCEPT ![t] = "decided"]
        BY <1>6, <3>2, <4>1, <4>2
      <4>4. UNCHANGED reply
        BY <1>t, <3>1, <3>2, <4>1, <4>2, CalledReply DEF reply, TypeOK
      <4>5. Service!Decide(t)
        BY <3>1, <4>1, <4>3, <4>4 DEF Service!Decide, Service!AuthorizeOps, AuthorizeOps, phase
      <4> QED
        BY <4>5 DEF Service!Next, Service!Serve
    <3>3. CASE Fail(t, pc[t], "Engine")
      <4>1. UNCHANGED <<locals, engine>> /\ op[t] # "close"
        BY <2>10, <3>1 DEF Authorize, AuthorizeOps
      <4> QED
        BY <1>4, <3>1, <3>3, <4>1
    <3> QED
      BY <2>10, <3>2, <3>3 DEF Authorize
  <2>11. CASE ConvertResult(t)
    <3>1. phase[t] = "decided" /\ err[t] = "none" /\ op[t] \in AuthorizeOps
      BY <1>t, <2>11 DEF ConvertResult, CallInv, AuthorizePCs, IInv, OutcomeInv, phase, PhaseOf
    <3>2. PICK p \in {"return", "throw"}, e \in {"none", "Result"} :
             /\ pc' = [pc EXCEPT ![t] = p] /\ err' = [err EXCEPT ![t] = e]
      <4>1. CASE Goto(t, "convertResult", "return") /\ UNCHANGED err
        <5>1. err' = [err EXCEPT ![t] = "none"]
          BY <1>t, <3>1, <4>1 DEF TypeOK
        <5> QED
          BY <4>1, <5>1
      <4>2. CASE Fail(t, "convertResult", "Result")
        BY <4>2
      <4> QED
        BY <2>11, <4>1, <4>2 DEF ConvertResult
    <3>3. PhaseOf(p) = "done" /\ ReplyOf(p, e, op[t]) \in {"decision", "invalid"}
      BY <3>1 DEF PhaseOf, ReplyOf, EndOf
    <3>4. UNCHANGED <<locals, status>>
      BY <2>11, StatusStays DEF ConvertResult
    <3>5. phase' = [phase EXCEPT ![t] = "done"]
          /\ reply' = [reply EXCEPT ![t] = ReplyOf(p, e, op[t])]
      BY <1>3, <3>2, <3>3, <3>4
    <3>6. Service!Answer(t)
      BY <3>1, <3>3, <3>4, <3>5 DEF Service!Answer, Service!Finish
    <3> QED
      BY <3>6 DEF Service!Next, Service!Serve
  <2>12. CASE TryTake(t)
    <3>1. PhaseOf(pc[t]) = "called" /\ op[t] = "close" /\ object[obj[t]] = "published" /\ err[t] = "none"
      BY <1>t, <2>t, <2>12 DEF TryTake, CallInv, ClosePCs, Calling, AuthorizeOps, PhaseOf, IInv, OutcomeInv
    <3>u. UNCHANGED locals
      BY <2>12 DEF TryTake
    <3>2. CASE Fail(t, pc[t], "NullPtr") /\ ~ref[obj[t]] /\ UNCHANGED engine
      BY <1>7, <2>t, <3>1, <3>2, <3>u
    <3>3. CASE Fail(t, pc[t], "TryLock") /\ ref[obj[t]] /\ mutex[obj[t]] # NoThread /\ UNCHANGED engine
      <4>1. PICK s \in Threads : obj[s] = obj[t] /\ pc[s] \in HoldsMutex
        BY <1>t, <2>t, <3>3 DEF TypeOK, IInv, LockInv
      <4>2. op[s] \in AuthorizeOps /\ phase[s] = "called"
        BY <1>t, <4>1 DEF CallInv, AuthorizePCs, HoldsMutex, phase, PhaseOf
      <4>3. status[obj[t]] = "open"
        BY <2>t, <3>3 DEF IInv, PublishedHadEngine, status, StatusOf
      <4>4. PhaseOf("throw") = "done" /\ ReplyOf("throw", "TryLock", op[t]) = "busy"
        BY DEF PhaseOf, ReplyOf, EndOf
      <4>5. phase' = [phase EXCEPT ![t] = "done"] /\ reply' = [reply EXCEPT ![t] = "busy"]
        <5>1. Goto(t, pc[t], "throw") /\ err' = [err EXCEPT ![t] = "TryLock"]
          BY <3>3
        <5>2. /\ phase' = [phase EXCEPT ![t] = PhaseOf("throw")]
              /\ reply' = [reply EXCEPT ![t] = ReplyOf("throw", "TryLock", op[t])]
          BY <1>3, <3>u, <5>1
        <5> QED
          BY <4>4, <5>2
      <4>6. UNCHANGED status /\ phase[t] = "called"
        BY <3>1, <3>3, StatusStays DEF phase
      <4>7. Service!RefuseBusy(t)
        BY <3>1, <3>u, <4>1, <4>2, <4>3, <4>5, <4>6
           DEF Service!RefuseBusy, Service!Finish, Service!AuthorizeOps, AuthorizeOps
      <4> QED
        BY <4>7 DEF Service!Next, Service!Serve
    <3>4. CASE /\ Goto(t, pc[t], "dropEngine") /\ ref[obj[t]] /\ UNCHANGED err
               /\ engine' = [engine EXCEPT ![obj[t]] = "taken"]
      <4>1. status[obj[t]] = "open" /\ phase[t] = "called"
        BY <2>t, <3>1, <3>4 DEF IInv, PublishedHadEngine, status, StatusOf, phase
      <4>2. status' = [status EXCEPT ![obj[t]] = "closed"]
        BY <1>t, <2>t, <3>4, StatusMoves DEF StatusOf
      <4>3. PhaseOf("dropEngine") = "done" /\ ReplyOf("dropEngine", err[t], op[t]) = "ok"
        BY <3>1 DEF PhaseOf, ReplyOf, EndOf, Ops, AuthorizeOps
      <4>4. phase' = [phase EXCEPT ![t] = "done"] /\ reply' = [reply EXCEPT ![t] = "ok"]
        BY <1>6, <3>4, <3>u, <4>3
      <4>5. Service!Close(t)
        BY <3>1, <3>u, <4>1, <4>2, <4>4 DEF Service!Close, Service!Finish
      <4> QED
        BY <4>5 DEF Service!Next, Service!Serve
    <3> QED
      BY <2>12, <3>2, <3>3, <3>4 DEF TryTake
  <2>13. CASE DropEngine(t)
    <3>1. engine[obj[t]] = "taken"
      BY <2>13 DEF DropEngine, IInv, DroppedOnce
    <3>2. UNCHANGED status
      BY <1>t, <2>t, <2>13, <3>1 DEF DropEngine, status, StatusOf, TypeOK
    <3>3. Goto(t, pc[t], "return") /\ UNCHANGED <<locals, err>>
      BY <2>13 DEF DropEngine
    <3>4. PhaseOf(pc[t]) = PhaseOf("return") /\ ReplyOf(pc[t], err[t], op[t]) = ReplyOf("return", err[t], op[t])
      BY <2>13 DEF DropEngine, PhaseOf, ReplyOf
    <3> QED
      BY <1>5, <3>2, <3>3, <3>4
  <2>14. CASE Throw(t)
    <3>1. Goto(t, pc[t], "return") /\ UNCHANGED <<locals, err, status>>
      BY <2>14, StatusStays DEF Throw
    <3>2. PhaseOf(pc[t]) = PhaseOf("return") /\ ReplyOf(pc[t], err[t], op[t]) = ReplyOf("return", err[t], op[t])
      BY <2>14 DEF Throw, PhaseOf, ReplyOf
    <3> QED
      BY <1>5, <3>1, <3>2
  <2>15. CASE Return(t)
    <3>1. Goto(t, pc[t], "idle") /\ UNCHANGED <<locals, err, status>> /\ phase[t] = "done"
      BY <2>15, StatusStays DEF Return, phase, PhaseOf
    <3>2. phase' = [phase EXCEPT ![t] = "idle"]
      BY <1>6, <3>1 DEF PhaseOf
    <3>3. ReplyOf("idle", err[t], op[t]) = ReplyOf(pc[t], err[t], op[t])
      BY <2>15 DEF Return, ReplyOf
    <3>4. UNCHANGED reply
      BY <1>t, <3>1, <3>3 DEF reply, TypeOK
    <3>5. Service!Return(t)
      BY <3>1, <3>2, <3>4 DEF Service!Return
    <3> QED
      BY <3>5 DEF Service!Next, Service!Serve
  <2> QED
    BY <1>8, <2>1, <2>2, <2>3, <2>4, <2>5, <2>6, <2>7, <2>8, <2>9, <2>10,
       <2>11, <2>12, <2>13, <2>14, <2>15
       DEF Step
<1>9. CASE UNCHANGED vars
  BY <1>9 DEF vars, status, phase, reply
<1> QED
  BY <1>2, <1>8, <1>9, NextCases

(* The locks and the native pointer implement the atomic object that          *)
(* CedarlingService describes: an instance is opened once and closed at most  *)
(* once, every decision is made while it is open, a close gives up only while *)
(* a thread authorizes (cedarling.rs:104-175).                                *)
THEOREM ImplementsService == Init /\ [][Next]_vars => ServiceSafe
<1>1. Init /\ [][Next]_vars => []IInv
  BY InvInit, InvStep, PTL
<1> QED
  BY <1>1, ServiceInit, ServiceStep, PTL DEF ServiceSafe, Service!SafeSpec
=============================================================================
