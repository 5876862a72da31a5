----------------------- MODULE ResultConversion_proofs -----------------------
(***************************************************************************)
(* Proofs about module ResultConversion, for any number of calls and any   *)
(* results: the mutexes are scoped, and the nest of mutexes cannot block.  *)
(***************************************************************************)
EXTENDS ResultConversion, TLAPS

LEMMA TypeStep == TypeOK /\ [Next]_vars => TypeOK'
<1> SUFFICES ASSUME TypeOK, [Next]_vars PROVE TypeOK'
  OBVIOUS
<1> USE DEF TypeOK, PCs, Leaves, Caches, Goto, Fail, Lookup, Acquire, Release, data, loops
<1>1. ASSUME NEW c \in Calls, Start(c) \/ Step(c) PROVE TypeOK'
  <2>1. CASE Start(c) \/ NewResult(c) \/ NewResponse(c) \/ NewDiagnostics(c)
    BY <2>1 DEF Start, NewResult, NewResponse, NewDiagnostics
  <2>2. CASE LockResult(c) \/ LockResponse(c) \/ LockDiagnostics(c)
    BY <2>2 DEF LockResult, LockResponse, LockDiagnostics
  <2>3. CASE LockDecision(c) \/ ReadDecision(c)
    BY <2>3 DEF LockDecision, ReadDecision
  <2>4. CASE FillSlot(c) \/ EndSlots(c) \/ SetRequestId(c) \/ SetDecision(c)
    BY <2>4 DEF FillSlot, EndSlots, SetRequestId, SetDecision
  <2>5. CASE NextReason(c) \/ NextError(c) \/ EndDiagnostics(c)
    BY <2>5 DEF NextReason, NextError, EndDiagnostics
  <2>6. CASE NewLeaf(c) \/ LockLeaf(c)
    BY <2>6 DEF NewLeaf, LockLeaf
  <2>7. CASE MakeLeaf(c)
    BY <2>7 DEF MakeLeaf
  <2>8. CASE MakeResponse(c) \/ Return(c)
    BY <2>8 DEF MakeResponse, Return
  <2>9. CASE Unwind(c)
    BY <2>9 DEF Unwind
  <2> QED
    BY <1>1, <2>1, <2>2, <2>3, <2>4, <2>5, <2>6, <2>7, <2>8, <2>9 DEF Step
<1>2. CASE UNCHANGED vars
  BY <1>2 DEF vars
<1> QED
  BY <1>1, <1>2 DEF Next, Terminated

THEOREM TypeCorrect == Spec => []TypeOK
<1>1. Init => TypeOK
  BY DEF Init, TypeOK, PCs, Leaves
<1> QED
  BY <1>1, TypeStep, PTL DEF Spec

-----------------------------------------------------------------------------
LEMMA ScopedInit == Init => LocksScoped
  BY ConversionAssumption DEF Init, LocksScoped, Held

LEMMA ScopedStep == TypeOK /\ LocksScoped /\ [Next]_vars => LocksScoped'
<1> SUFFICES ASSUME TypeOK, LocksScoped, [Next]_vars PROVE LocksScoped'
  OBVIOUS
<1> USE ConversionAssumption
    DEF TypeOK, LocksScoped, Held, PCs, Leaves, Caches,
        Goto, Fail, Lookup, Acquire, Release, data, loops
<1>1. ASSUME NEW c \in Calls, Start(c) \/ Step(c) PROVE LocksScoped'
  <2>1. CASE Start(c)
    BY <2>1 DEF Start
  <2>2. CASE NewResult(c)
    BY <2>2 DEF NewResult
  <2>3. CASE LockResult(c)
    BY <2>3 DEF LockResult
  <2>4. CASE FillSlot(c)
    BY <2>4 DEF FillSlot
  <2>5. CASE NewResponse(c)
    BY <2>5 DEF NewResponse
  <2>6. CASE LockResponse(c)
    BY <2>6 DEF LockResponse
  <2>7. CASE LockDecision(c)
    BY <2>7 DEF LockDecision
  <2>8. CASE ReadDecision(c)
    BY <2>8 DEF ReadDecision
  <2>9. CASE NewDiagnostics(c)
    BY <2>9 DEF NewDiagnostics
  <2>10. CASE LockDiagnostics(c)
    BY <2>10 DEF LockDiagnostics
  <2>11. CASE NextReason(c)
    BY <2>11 DEF NextReason
  <2>12. CASE NextError(c)
    BY <2>12 DEF NextError
  <2>13. CASE NewLeaf(c)
    BY <2>13 DEF NewLeaf
  <2>14. CASE LockLeaf(c)
    BY <2>14 DEF LockLeaf
  <2>15. CASE MakeLeaf(c)
    BY <2>15 DEF MakeLeaf
  <2>16. CASE EndDiagnostics(c)
    BY <2>16 DEF EndDiagnostics
  <2>17. CASE MakeResponse(c)
    BY <2>17 DEF MakeResponse
  <2>18. CASE EndSlots(c)
    BY <2>18 DEF EndSlots
  <2>19. CASE SetRequestId(c)
    BY <2>19 DEF SetRequestId
  <2>20. CASE SetDecision(c)
    BY <2>20 DEF SetDecision
  <2>21. CASE Return(c)
    BY <2>21 DEF Return
  <2>22. CASE Unwind(c)
    BY <2>22 DEF Unwind
  <2> QED
    BY <1>1, <2>1, <2>2, <2>3, <2>4, <2>5, <2>6, <2>7, <2>8, <2>9, <2>10, <2>11, <2>12, <2>13, <2>14, <2>15, <2>16, <2>17, <2>18, <2>19, <2>20, <2>21, <2>22 DEF Step
<1>2. CASE UNCHANGED vars
  BY <1>2 DEF vars
<1> QED
  BY <1>1, <1>2 DEF Next, Terminated

(* A guard lives exactly as long as the scope that owns it, on every path    *)
(* through a conversion, the failing ones included: no mutex is left locked. *)
THEOREM GuardsAreScoped == Spec => []LocksScoped
<1>1. Init => TypeOK
  BY DEF Init, TypeOK, PCs, Leaves
<1> QED
  BY <1>1, TypeStep, ScopedInit, ScopedStep, PTL DEF Spec

-----------------------------------------------------------------------------
(* The holder of an inner mutex is inside the outermost one. *)
LEMMA InnerInOuter ==
    ASSUME TypeOK, NEW c \in Calls, NEW k \in Held(c)
    PROVE  "AuthorizeResult" \in Held(c)
  BY DEF TypeOK, PCs, Held

(* A call waits only for a mutex it does not hold, and it waits for an inner *)
(* one only from inside the outermost.                                       *)
LEMMA WantedNotHeld ==
    ASSUME TypeOK, NEW c \in Calls, NEW k \in Wanted(c)
    PROVE  /\ k \in Caches /\ k \notin Held(c)
           /\ k # "AuthorizeResult" => "AuthorizeResult" \in Held(c)
  BY DEF TypeOK, PCs, Leaves, Caches, Held, Wanted

LEMMA ScopedNest == TypeOK /\ LocksScoped => NestNeverBlocks
<1> SUFFICES ASSUME TypeOK, LocksScoped,
                    NEW c \in Calls, NEW k \in Wanted(c), lock[k] # NoCall
             PROVE  k = "AuthorizeResult" /\ lock[k] # c
  BY DEF NestNeverBlocks
<1>1. k \in Caches /\ k \notin Held(c)
  BY WantedNotHeld
<1>2. PICK d \in Calls : lock[k] = d
  BY <1>1 DEF TypeOK
<1>3. k \in Held(d) /\ c # d
  BY <1>1, <1>2 DEF LocksScoped
<1>4. ASSUME k # "AuthorizeResult" PROVE FALSE
  <2>1. "AuthorizeResult" \in Held(c) /\ "AuthorizeResult" \in Held(d)
    BY <1>3, <1>4, WantedNotHeld, InnerInOuter
  <2>2. lock["AuthorizeResult"] = c /\ lock["AuthorizeResult"] = d
    BY <2>1 DEF LocksScoped, Caches
  <2> QED
    BY <1>3, <2>2
<1> QED
  BY <1>2, <1>3, <1>4

(* However many calls convert their results, none waits inside the nest of   *)
(* mutexes, nor for a mutex of its own: the nest adds no deadlock.           *)
THEOREM NestIsSafe == Spec => []NestNeverBlocks
<1>1. Spec => []TypeOK /\ []LocksScoped
  BY TypeCorrect, GuardsAreScoped
<1> QED
  BY <1>1, ScopedNest, PTL

-----------------------------------------------------------------------------
(* What a conversion delivers. *)

LEMMA Fields ==
    ASSUME NEW r \in Results
    PROVE  /\ DOMAIN JavaOf(r) = DOMAIN r.slots \cup {"requestId", "decision"}
           /\ \A s \in DOMAIN r.slots : JavaOf(r)[s] = r.slots[s]
           /\ JavaOf(r)["requestId"] = r.requestId
           /\ JavaOf(r)["decision"] = r.decision
           /\ {"requestId", "decision"} \cap DOMAIN r.slots = {}
  BY ConversionAssumption DEF JavaOf, IsResult

(* Setting a field right keeps right what is there. *)
LEMMA SetRight ==
    ASSUME DataInv, NEW c \in Calls, NEW f \in DOMAIN JavaOf(rust[c]), NEW v,
           v = JavaOf(rust[c])[f], SetField(c, f, v)
    PROVE  /\ DOMAIN java'[c] = DOMAIN java[c] \cup {f}
           /\ java'[c] = [g \in DOMAIN java'[c] |-> JavaOf(rust[c])[g]]
  BY DEF DataInv, DeliveredInv, SetField

(* A step of FillSlot that does not fail. *)
FillOne(c, s) ==
    /\ todo' = [todo EXCEPT ![c] = @ \ {s}] /\ slot' = [slot EXCEPT ![c] = s]
    /\ IF rust[c].slots[s] = NoResponse
       THEN Goto(c, "fill", "fill") /\ SetField(c, s, NoResponse)
       ELSE Goto(c, "fill", "prNew") /\ UNCHANGED java
    /\ UNCHANGED <<lock, rust, loops, leaf, item, resp>>

LEMMA FillCases ==
    ASSUME NEW c \in Calls, FillSlot(c)
    PROVE  \/ todo[c] # {} /\ Fail(c, "fill", "unwindAR")
           \/ \E s \in NextSlots(c) : s \in todo[c] /\ FillOne(c, s)
  BY DEF FillSlot, FillOne, NextSlots

(* A step of a call leaves the data of the others alone. *)
LEMMA OthersStay ==
    ASSUME TypeOK, DataInv, NEW c \in Calls, Start(c) \/ Step(c)
    PROVE  /\ UNCHANGED rust
           /\ todo' \in [Calls -> SUBSET (Principals \cup {"person", "workload"})]
           /\ Calls = DOMAIN slot' /\ Calls = DOMAIN item'
           /\ Calls = DOMAIN ahead' /\ Calls = DOMAIN index'
           /\ Calls = DOMAIN resp' /\ Calls = DOMAIN java'
           /\ todo'[c] \subseteq todo[c]
           /\ \A d \in Calls \ {c} :
                 /\ pc'[d] = pc[d] /\ todo'[d] = todo[d] /\ slot'[d] = slot[d]
                 /\ ahead'[d] = ahead[d] /\ index'[d] = index[d]
                 /\ leaf'[d] = leaf[d] /\ item'[d] = item[d]
                 /\ resp'[d] = resp[d] /\ java'[d] = java[d]
<1> USE DEF TypeOK, DataInv, Goto, Fail, Lookup, data, loops
<1>1. CASE Start(c) \/ NewResult(c) \/ LockResult(c) \/ NewResponse(c) \/ LockResponse(c)
  BY <1>1 DEF Start, NewResult, LockResult, NewResponse, LockResponse
<1>2. CASE FillSlot(c)
  <2>1. CASE todo[c] # {} /\ Fail(c, "fill", "unwindAR")
    BY <2>1
  <2>2. ASSUME NEW s \in NextSlots(c), todo' = [todo EXCEPT ![c] = @ \ {s}],
               slot' = [slot EXCEPT ![c] = s], UNCHANGED <<rust, loops, leaf, item, resp>>,
               pc' = [pc EXCEPT ![c] = pc'[c]],
               UNCHANGED java \/ SetField(c, s, NoResponse)
        PROVE  /\ UNCHANGED rust
               /\ todo' \in [Calls -> SUBSET (Principals \cup {"person", "workload"})]
               /\ Calls = DOMAIN slot' /\ Calls = DOMAIN item'
               /\ Calls = DOMAIN ahead' /\ Calls = DOMAIN index'
               /\ Calls = DOMAIN resp' /\ Calls = DOMAIN java'
               /\ todo'[c] \subseteq todo[c]
               /\ \A d \in Calls \ {c} :
                     /\ pc'[d] = pc[d] /\ todo'[d] = todo[d] /\ slot'[d] = slot[d]
                     /\ ahead'[d] = ahead[d] /\ index'[d] = index[d]
                     /\ leaf'[d] = leaf[d] /\ item'[d] = item[d]
                     /\ resp'[d] = resp[d] /\ java'[d] = java[d]
    BY <2>2 DEF SetField
  <2>3. ASSUME NEW s \in NextSlots(c), FillOne(c, s)
        PROVE  /\ UNCHANGED <<rust, loops, leaf, item, resp>>
               /\ todo' = [todo EXCEPT ![c] = @ \ {s}] /\ slot' = [slot EXCEPT ![c] = s]
               /\ pc' = [pc EXCEPT ![c] = pc'[c]]
               /\ UNCHANGED java \/ SetField(c, s, NoResponse)
    BY <2>3 DEF FillOne
  <2> QED
    BY <1>2, <2>1, <2>2, <2>3, FillCases
<1>3. CASE LockDecision(c) \/ ReadDecision(c)
  BY <1>3 DEF LockDecision, ReadDecision
<1>4. CASE NewDiagnostics(c) \/ LockDiagnostics(c) \/ NextReason(c) \/ NextError(c)
  BY <1>4 DEF NewDiagnostics, LockDiagnostics, NextReason, NextError
<1>5. CASE NewLeaf(c) \/ LockLeaf(c) \/ MakeLeaf(c) \/ EndDiagnostics(c)
  BY <1>5 DEF NewLeaf, LockLeaf, MakeLeaf, EndDiagnostics
<1>6. CASE MakeResponse(c)
  BY <1>6 DEF MakeResponse, SetField
<1>7. CASE EndSlots(c) \/ SetRequestId(c) \/ SetDecision(c)
  BY <1>7 DEF EndSlots, SetRequestId, SetDecision, SetField
<1>8. CASE Return(c) \/ Unwind(c)
  BY <1>8 DEF Return, Unwind
<1> QED
  BY <1>1, <1>2, <1>3, <1>4, <1>5, <1>6, <1>7, <1>8 DEF Step

LEMMA DeliveredStep ==
    ASSUME TypeOK, DataInv, NEW c \in Calls, Start(c) \/ Step(c)
    PROVE  DeliveredInv(c)'
<1>r. rust[c] \in Results /\ UNCHANGED rust /\ DeliveredInv(c) /\ PartInv(c) /\ todo'[c] \subseteq todo[c]
  BY OthersStay DEF DataInv
<1> USE <1>r DEF TypeOK, Goto, Fail, Lookup, data
<1>1. ASSUME UNCHANGED <<todo, slot, java>>, pc'[c] \notin {"requestId", "decision", "arUnlock"},
             pc'[c] \in Unwinding \/ (pc[c] \in Converting <=> pc'[c] \in Converting),
             pc'[c] = "returned" <=> pc[c] = "arUnlock",
             pc[c] \notin {"returned"}, pc[c] = "arUnlock" => pc'[c] = "returned",
             pc[c] \in Unwinding => pc'[c] \in Unwinding
      PROVE  DeliveredInv(c)'
  BY <1>1 DEF DeliveredInv
<1>2. CASE Start(c) \/ NewResult(c) \/ LockResult(c) \/ NewResponse(c) \/ LockResponse(c)
  BY <1>1, <1>2 DEF Start, NewResult, LockResult, NewResponse, LockResponse,
                    Unwinding, Converting, Diagnosing, AtItem
<1>3. CASE LockDecision(c) \/ ReadDecision(c) \/ NewDiagnostics(c) \/ LockDiagnostics(c)
  BY <1>1, <1>3 DEF LockDecision, ReadDecision, NewDiagnostics, LockDiagnostics,
                    Unwinding, Converting, Diagnosing, AtItem
<1>4. CASE NextReason(c) \/ NextError(c) \/ NewLeaf(c) \/ LockLeaf(c)
  BY <1>1, <1>4 DEF NextReason, NextError, NewLeaf, LockLeaf,
                    Unwinding, Converting, Diagnosing, AtItem
<1>5. CASE MakeLeaf(c) \/ EndDiagnostics(c) \/ Return(c) \/ Unwind(c)
  BY <1>1, <1>5 DEF MakeLeaf, EndDiagnostics, Return, Unwind,
                    Unwinding, Converting, Diagnosing, AtItem
<1>6. CASE FillSlot(c)
  <2>1. CASE Fail(c, "fill", "unwindAR")
    BY <1>1, <2>1 DEF Unwinding, Converting, Diagnosing, AtItem
  <2>2. ASSUME NEW s \in todo[c], FillOne(c, s) PROVE DeliveredInv(c)'
    <3>1. /\ pc[c] = "fill" /\ todo'[c] = todo[c] \ {s} /\ slot'[c] = s
          /\ s \in DOMAIN rust[c].slots
      BY <2>2 DEF FillOne, DataInv
    <3>2. CASE rust[c].slots[s] = NoResponse
      <4>1. pc'[c] = "fill" /\ SetField(c, s, NoResponse)
        BY <2>2, <3>2 DEF FillOne
      <4>2. s \in DOMAIN JavaOf(rust[c]) /\ NoResponse = JavaOf(rust[c])[s] /\ s # "decision"
        BY <3>1, <3>2, Fields
      <4>3. /\ DOMAIN java'[c] = DOMAIN java[c] \cup {s}
            /\ java'[c] = [g \in DOMAIN java'[c] |-> JavaOf(rust[c])[g]]
        BY <4>1, <4>2, SetRight
      <4> QED
        BY <3>1, <4>1, <4>2, <4>3 DEF DeliveredInv, Converting, Diagnosing, AtItem, Unwinding
    <3>3. CASE rust[c].slots[s] # NoResponse
      <4>1. pc'[c] = "prNew" /\ UNCHANGED java
        BY <2>2, <3>3 DEF FillOne
      <4> QED
        BY <3>1, <4>1 DEF DeliveredInv, Converting, Diagnosing, AtItem, Unwinding
    <3> QED
      BY <3>2, <3>3
  <2> QED
    BY <1>6, <2>1, <2>2, FillCases
<1>7. CASE MakeResponse(c)
  <2>1. CASE pc'[c] # "fill"
    BY <1>1, <1>7, <2>1 DEF MakeResponse, Unwinding, Converting, Diagnosing, AtItem
  <2>2. CASE pc'[c] = "fill"
    <3>1. pc[c] = "prMake" /\ SetField(c, slot[c], resp[c]) /\ UNCHANGED <<todo, slot>>
      BY <1>7, <2>2 DEF MakeResponse
    <3>2. slot[c] \in DOMAIN rust[c].slots /\ resp[c] = rust[c].slots[slot[c]]
      BY <3>1 DEF PartInv, Source, Converting, Diagnosing, AtItem
    <3>3. slot[c] \in DOMAIN JavaOf(rust[c]) /\ resp[c] = JavaOf(rust[c])[slot[c]] /\ slot[c] # "decision"
      BY <3>2, Fields
    <3>4. /\ DOMAIN java'[c] = DOMAIN java[c] \cup {slot[c]}
          /\ java'[c] = [g \in DOMAIN java'[c] |-> JavaOf(rust[c])[g]]
      BY <3>1, <3>3, SetRight
    <3> QED
      BY <2>2, <3>1, <3>3, <3>4 DEF DeliveredInv, Unwinding, Converting, Diagnosing, AtItem
  <2> QED
    BY <2>1, <2>2
<1>8. CASE EndSlots(c)
  BY <1>8 DEF EndSlots, DeliveredInv, Unwinding, Converting, Diagnosing, AtItem
<1>9. CASE SetRequestId(c)
  <2>1. CASE pc'[c] # "decision"
    BY <1>1, <1>9, <2>1 DEF SetRequestId, Unwinding, Converting, Diagnosing, AtItem
  <2>2. CASE pc'[c] = "decision"
    <3>1. pc[c] = "requestId" /\ SetField(c, "requestId", rust[c].requestId) /\ UNCHANGED <<todo, slot>>
      BY <1>9, <2>2 DEF SetRequestId
    <3>2. /\ DOMAIN java'[c] = DOMAIN java[c] \cup {"requestId"}
          /\ java'[c] = [g \in DOMAIN java'[c] |-> JavaOf(rust[c])[g]]
      BY <3>1, SetRight, Fields
    <3>3. {"requestId", "decision"} \subseteq DOMAIN JavaOf(rust[c])
      BY Fields
    <3> QED
      BY <2>2, <3>1, <3>2, <3>3 DEF DeliveredInv, Unwinding, Converting, Diagnosing, AtItem
  <2> QED
    BY <2>1, <2>2
<1>10. CASE SetDecision(c)
  <2>1. CASE pc'[c] # "arUnlock"
    BY <1>1, <1>10, <2>1 DEF SetDecision, Unwinding, Converting, Diagnosing, AtItem
  <2>2. CASE pc'[c] = "arUnlock"
    <3>1. pc[c] = "decision" /\ SetField(c, "decision", rust[c].decision) /\ UNCHANGED <<todo, slot>>
      BY <1>10, <2>2 DEF SetDecision
    <3>2. /\ DOMAIN java'[c] = DOMAIN java[c] \cup {"decision"}
          /\ java'[c] = [g \in DOMAIN java'[c] |-> JavaOf(rust[c])[g]]
      BY <3>1, SetRight, Fields
    <3>3. {"requestId", "decision"} \subseteq DOMAIN JavaOf(rust[c])
      BY Fields
    <3> QED
      BY <2>2, <3>1, <3>2, <3>3 DEF DeliveredInv, Unwinding, Converting, Diagnosing, AtItem
  <2> QED
    BY <2>1, <2>2
<1> QED
  BY <1>2, <1>3, <1>4, <1>5, <1>6, <1>7, <1>8, <1>9, <1>10 DEF Step

(* The response that a call is converting is one. *)
LEMMA SourceType ==
    ASSUME NEW c \in Calls, rust[c] \in Results, PartInv(c), pc[c] \in Converting
    PROVE  Source(c) \in [decision : {"ALLOW", "DENY"}, reasons : SUBSET STRING,
                          errors : Seq(STRING)]
  BY ConversionAssumption DEF PartInv, Source, IsResult

LEMMA PartStep ==
    ASSUME TypeOK, DataInv, NEW c \in Calls, Start(c) \/ Step(c)
    PROVE  PartInv(c)'
<1>r. /\ rust[c] \in Results /\ UNCHANGED rust /\ PartInv(c) /\ todo[c] \subseteq DOMAIN rust[c].slots
      /\ Calls = DOMAIN slot /\ Calls = DOMAIN item /\ Calls = DOMAIN resp
      /\ Calls = DOMAIN ahead /\ Calls = DOMAIN index
  BY OthersStay DEF DataInv
<1> USE <1>r DEF TypeOK, PartInv, Goto, Fail, Lookup, data, loops, Converting, Diagnosing, AtItem
<1>1. CASE Start(c) \/ NewResult(c) \/ LockResult(c) \/ NewResponse(c) \/ LockResponse(c)
  BY <1>1 DEF Start, NewResult, LockResult, NewResponse, LockResponse, Source
<1>2. CASE FillSlot(c)
  <2>1. CASE Fail(c, "fill", "unwindAR")
    BY <2>1
  <2>2. ASSUME NEW s \in todo[c], FillOne(c, s) PROVE PartInv(c)'
    BY <2>2 DEF FillOne, Source
  <2> QED
    BY <1>2, <2>1, <2>2, FillCases
<1>3. CASE LockDecision(c) \/ NewDiagnostics(c)
  BY <1>3 DEF LockDecision, NewDiagnostics, Source
<1>4. CASE ReadDecision(c)
  <2>1. CASE Fail(c, "adRead", "unwindAD")
    BY <2>1
  <2>2. CASE pc' = [pc EXCEPT ![c] = "dgNew"]
    <3>1. /\ pc[c] = "adRead" /\ UNCHANGED slot
          /\ resp'[c] = [decision |-> Source(c).decision, reasons |-> {}, errors |-> <<>>]
      BY <1>4, <2>2 DEF ReadDecision
    <3>2. Source(c)' = Source(c) /\ Len(Source(c).errors) \in Nat
      BY <3>1, SourceType DEF Source
    <3> QED
      BY <2>2, <3>1, <3>2
  <2> QED
    BY <1>4, <2>1, <2>2 DEF ReadDecision
<1>5. CASE LockDiagnostics(c)
  <2>1. /\ pc[c] = "dgLock" /\ UNCHANGED <<slot, resp>>
        /\ pc'[c] = "diagnose" => ahead'[c] = Source(c).reasons /\ index'[c] = 0
        /\ pc'[c] \in {"diagnose", "unwindDG"}
    BY <1>5 DEF LockDiagnostics
  <2>2. Source(c)' = Source(c)
    BY <2>1 DEF Source
  <2>3. resp[c].errors = <<>> /\ resp[c].reasons \subseteq Source(c).reasons
    BY <2>1
  <2> QED
    BY <2>1, <2>2, <2>3
<1>6. CASE NextReason(c)
  <2>1. /\ pc[c] = "diagnose" /\ pc'[c] = "leafNew" /\ UNCHANGED <<slot, resp, index>>
        /\ item'[c] \in ahead[c] /\ ahead'[c] = ahead[c] \ {item'[c]} /\ leaf'[c] = "PolicyId"
    BY <1>6 DEF NextReason
  <2>2. Source(c)' = Source(c)
    BY <2>1 DEF Source
  <2>3. /\ resp[c].reasons \cup ahead[c] = Source(c).reasons
        /\ Len(resp[c].errors) = index[c]
    BY <2>1
  <2>4. resp[c].reasons \cup ahead'[c] \cup {item'[c]} = Source(c).reasons
    BY <2>1, <2>3
  <2> QED
    BY <2>1, <2>2, <2>3, <2>4
<1>7. CASE NextError(c)
  <2>1. /\ pc[c] = "diagnose" /\ pc'[c] = "leafNew" /\ UNCHANGED <<slot, resp, ahead>>
        /\ index[c] < Len(Source(c).errors)
        /\ index'[c] = index[c] + 1
        /\ item'[c] = Source(c).errors[index'[c]] /\ leaf'[c] = "AuthzError"
    BY <1>7 DEF NextError
  <2>2. Source(c)' = Source(c)
    BY <2>1 DEF Source
  <2>3. /\ resp[c].reasons \cup ahead[c] = Source(c).reasons
        /\ Len(resp[c].errors) = index[c]
    BY <2>1
  <2>4. index[c] \in Nat /\ Len(Source(c).errors) \in Nat
    <3>1. Source(c).errors \in Seq(STRING) /\ resp[c].errors \in Seq(STRING)
      BY <2>1, SourceType
    <3> QED
      BY <2>3, <3>1
  <2>5. index'[c] <= Len(Source(c).errors)
    BY <2>1, <2>4
  <2> QED
    BY <2>1, <2>2, <2>3, <2>5
<1>8. CASE NewLeaf(c) \/ LockLeaf(c)
  BY <1>8 DEF NewLeaf, LockLeaf, Source
<1>9. CASE MakeLeaf(c)
  <2>1. CASE pc'[c] # "diagnose"
    BY <1>9, <2>1 DEF MakeLeaf
  <2>2. CASE pc'[c] = "diagnose"
    <3>1. /\ pc[c] = "leafMake" /\ UNCHANGED <<slot, ahead, index>>
          /\ leaf[c] = "PolicyId" =>
                resp'[c] = [resp[c] EXCEPT !.reasons = @ \cup {item[c]}]
          /\ leaf[c] # "PolicyId" =>
                resp'[c] = [resp[c] EXCEPT !.errors = Append(@, item[c])]
      <4>1. /\ pc[c] = "leafMake" /\ UNCHANGED <<slot, ahead, index>>
            /\ resp' = [resp EXCEPT ![c] = WithItem(c)]
        BY <1>9, <2>2 DEF MakeLeaf
      <4>2. resp'[c] = WithItem(c)
        BY <4>1
      <4> QED
        BY <4>1, <4>2 DEF WithItem
    <3>2. /\ Source(c)' = Source(c)
          /\ Source(c).errors \in Seq(STRING) /\ Len(Source(c).errors) \in Nat
      <4>1. Source(c)' = Source(c)
        BY <3>1 DEF Source
      <4>2. Source(c) \in [decision : {"ALLOW", "DENY"}, reasons : SUBSET STRING,
                           errors : Seq(STRING)]
        BY <3>1, SourceType
      <4> QED
        BY <4>1, <4>2
    <3>3. /\ slot'[c] \in DOMAIN rust'[c].slots /\ Source(c)' # NoResponse
          /\ resp[c] \in [decision : {Source(c).decision},
                          reasons : SUBSET Source(c).reasons, errors : Seq(STRING)]
          /\ Len(resp[c].errors) <= Len(Source(c).errors)
          /\ \A i \in 1 .. Len(resp[c].errors) : resp[c].errors[i] = Source(c).errors[i]
      BY <3>1, <3>2
    <3>4. ASSUME /\ resp'[c] \in [decision : {Source(c).decision},
                                  reasons : SUBSET Source(c).reasons, errors : Seq(STRING)]
                 /\ Len(resp'[c].errors) <= Len(Source(c).errors)
                 /\ \A i \in 1 .. Len(resp'[c].errors) : resp'[c].errors[i] = Source(c).errors[i]
                 /\ resp'[c].reasons \cup ahead[c] = Source(c).reasons
                 /\ Len(resp'[c].errors) = index[c]
          PROVE  PartInv(c)'
      <4>1. /\ resp'[c] \in [decision : {Source(c)'.decision},
                             reasons : SUBSET Source(c)'.reasons, errors : Seq(STRING)]
            /\ Len(resp'[c].errors) <= Len(Source(c)'.errors)
            /\ \A i \in 1 .. Len(resp'[c].errors) : resp'[c].errors[i] = Source(c)'.errors[i]
            /\ resp'[c].reasons \cup ahead'[c] = Source(c)'.reasons
            /\ Len(resp'[c].errors) = index'[c]
        BY <3>1, <3>2, <3>4
      <4> QED
        BY <2>2, <3>3, <4>1
    <3>5. CASE leaf[c] = "PolicyId"
      <4>1. /\ resp'[c] = [resp[c] EXCEPT !.reasons = resp[c].reasons \cup {item[c]}]
            /\ resp[c].reasons \cup ahead[c] \cup {item[c]} = Source(c).reasons
            /\ Len(resp[c].errors) = index[c]
        BY <3>1, <3>5
      <4>2. /\ resp'[c].reasons = resp[c].reasons \cup {item[c]}
            /\ resp'[c].errors = resp[c].errors
        BY <3>3, <4>1
      <4>3. resp'[c] \in [decision : {Source(c).decision},
                          reasons : SUBSET Source(c).reasons, errors : Seq(STRING)]
        BY <3>3, <4>1, <4>2
      <4>4. resp'[c].reasons \cup ahead[c] = Source(c).reasons
        BY <4>1, <4>2
      <4> QED
        BY <3>3, <3>4, <4>1, <4>2, <4>3, <4>4
    <3>6. CASE leaf[c] # "PolicyId"
      <4>1. /\ resp'[c] = [resp[c] EXCEPT !.errors = Append(resp[c].errors, item[c])]
            /\ resp[c].reasons \cup ahead[c] = Source(c).reasons
            /\ index[c] = Len(resp[c].errors) + 1 /\ index[c] <= Len(Source(c).errors)
            /\ item[c] = Source(c).errors[index[c]]
        BY <3>1, <3>6
      <4>2. resp[c].errors \in Seq(STRING) /\ Len(resp[c].errors) \in Nat
        BY <3>3
      <4>3. item[c] \in STRING
        BY <3>2, <4>1, <4>2
      <4>4. /\ resp'[c].errors = Append(resp[c].errors, item[c])
            /\ resp'[c].reasons = resp[c].reasons
        BY <3>3, <4>1
      <4>5. /\ resp'[c].errors \in Seq(STRING)
            /\ Len(resp'[c].errors) = index[c]
            /\ \A i \in 1 .. Len(resp'[c].errors) : resp'[c].errors[i] = Source(c).errors[i]
        <5>1. \A i \in 1 .. Len(resp[c].errors) : resp[c].errors[i] = Source(c).errors[i]
          BY <3>3
        <5> HIDE <1>r DEF PartInv, TypeOK
        <5> QED
          BY <4>1, <4>2, <4>3, <4>4, <5>1
      <4>6. resp'[c] \in [decision : {Source(c).decision},
                          reasons : SUBSET Source(c).reasons, errors : Seq(STRING)]
        BY <3>3, <4>1, <4>4, <4>5
      <4> QED
        BY <3>4, <4>1, <4>4, <4>5, <4>6
    <3> QED
      BY <3>5, <3>6
  <2> QED
    BY <2>1, <2>2
<1>10. CASE EndDiagnostics(c)
  <2>1. /\ pc[c] = "diagnose" /\ pc'[c] = "prMake"
        /\ UNCHANGED <<slot, resp, leaf, item, ahead, index>>
        /\ ahead[c] = {} /\ index[c] = Len(Source(c).errors)
    BY <1>10 DEF EndDiagnostics
  <2>2. Source(c)' = Source(c)
    BY <2>1 DEF Source
  <2>3. Source(c) \in [decision : {"ALLOW", "DENY"}, reasons : SUBSET STRING, errors : Seq(STRING)]
    BY <2>1, SourceType
  <2>4. Source(c).reasons = resp[c].reasons /\ Len(Source(c).errors) = Len(resp[c].errors)
    BY <2>1
  <2>5. Source(c).errors = resp[c].errors
    BY <2>1, <2>3, <2>4
  <2>6. resp[c] = Source(c)
    BY <2>1, <2>3, <2>4, <2>5
  <2> QED
    BY <2>1, <2>2, <2>6
<1>11. CASE MakeResponse(c) \/ EndSlots(c) \/ SetRequestId(c) \/ SetDecision(c)
  BY <1>11 DEF MakeResponse, EndSlots, SetRequestId, SetDecision
<1>12. CASE Return(c) \/ Unwind(c)
  BY <1>12 DEF Return, Unwind
<1> QED
  BY <1>1, <1>2, <1>3, <1>4, <1>5, <1>6, <1>7, <1>8, <1>9, <1>10, <1>11, <1>12 DEF Step

LEMMA DataStep == TypeOK /\ DataInv /\ [Next]_vars => DataInv'
<1> SUFFICES ASSUME TypeOK, DataInv, [Next]_vars PROVE DataInv'
  OBVIOUS
<1>1. ASSUME NEW c \in Calls, Start(c) \/ Step(c) PROVE DataInv'
  <2>1. ASSUME NEW d \in Calls \ {c}
        PROVE  (todo[d] \subseteq DOMAIN rust[d].slots /\ DeliveredInv(d) /\ PartInv(d))'
    <3>1. todo[d] \subseteq DOMAIN rust[d].slots /\ DeliveredInv(d) /\ PartInv(d)
      BY DEF DataInv
    <3>2. (todo[d] \subseteq DOMAIN rust[d].slots)' /\ DeliveredInv(d)'
      BY <1>1, <3>1, OthersStay DEF DeliveredInv
    <3>3. PartInv(d)'
      <4>1. /\ UNCHANGED rust /\ pc'[d] = pc[d] /\ slot'[d] = slot[d] /\ leaf'[d] = leaf[d]
            /\ item'[d] = item[d] /\ resp'[d] = resp[d]
            /\ ahead'[d] = ahead[d] /\ index'[d] = index[d]
        BY <1>1, OthersStay
      <4>2. Source(d)' = Source(d)
        BY <4>1 DEF Source
      <4> QED
        BY <3>1, <4>1, <4>2 DEF PartInv
    <3> QED
      BY <3>2, <3>3
  <2>2. (todo[c] \subseteq DOMAIN rust[c].slots /\ DeliveredInv(c) /\ PartInv(c))'
    BY <1>1, DeliveredStep, PartStep, OthersStay DEF DataInv
  <2>3. rust' \in [Calls -> Results]
    BY <1>1, OthersStay DEF DataInv
  <2> QED
    BY <1>1, <2>1, <2>2, <2>3, OthersStay DEF DataInv
<1>2. CASE UNCHANGED vars
  <2>1. ASSUME NEW c \in Calls
        PROVE  (todo[c] \subseteq DOMAIN rust[c].slots /\ DeliveredInv(c) /\ PartInv(c))'
    <3>1. todo[c] \subseteq DOMAIN rust[c].slots /\ DeliveredInv(c) /\ PartInv(c)
      BY DEF DataInv
    <3>2. Source(c)' = Source(c)
      BY <1>2 DEF vars, Source
    <3>3. PartInv(c)'
      BY <1>2, <3>1, <3>2 DEF vars, loops, PartInv
    <3> QED
      BY <1>2, <3>1, <3>3 DEF vars, DeliveredInv
  <2> QED
    BY <1>2, <2>1 DEF vars, loops, DataInv
<1> QED
  BY <1>1, <1>2 DEF Next, Terminated

LEMMA DataInit == Init => DataInv
<1> SUFFICES ASSUME Init PROVE DataInv
  OBVIOUS
<1> USE DEF Init
<1>1. ASSUME NEW c \in Calls PROVE todo[c] = DOMAIN rust[c].slots /\ DeliveredInv(c) /\ PartInv(c)
  <2>1. rust[c] \in Results /\ java[c] = <<>> /\ DOMAIN java[c] = {}
    OBVIOUS
  <2>2. DeliveredInv(c)
    BY <2>1 DEF DeliveredInv, Unwinding
  <2>3. PartInv(c)
    BY DEF PartInv, Converting, Diagnosing, AtItem
  <2> QED
    BY <2>2, <2>3
<1>2. todo \in [Calls -> SUBSET (Principals \cup {"person", "workload"})]
  BY ConversionAssumption DEF IsResult
<1> QED
  BY <1>1, <1>2 DEF DataInv

(* The inductive invariant of the data. *)
THEOREM DataCorrect == Spec => []DataInv
  BY TypeCorrect, DataInit, DataStep, PTL DEF Spec

(* Once the decision is there, every field is. *)
LEMMA NothingMissing ==
    ASSUME DataInv, NEW c \in Calls, "decision" \in DOMAIN java[c]
    PROVE  DOMAIN java[c] = DOMAIN JavaOf(rust[c])
<1>1. DeliveredInv(c) /\ rust[c] \in Results
  BY DEF DataInv
<1>2. pc[c] \in {"arUnlock", "returned"} /\ todo[c] = {} /\ "requestId" \in DOMAIN java[c]
  BY <1>1 DEF DeliveredInv
<1>3. pc[c] \notin Unwinding \cup Converting
  BY <1>2 DEF Unwinding, Converting, Diagnosing, AtItem
<1>4. \A s \in DOMAIN rust[c].slots : s \in DOMAIN java[c]
  BY <1>1, <1>2, <1>3 DEF DeliveredInv
<1>5. DOMAIN JavaOf(rust[c]) = DOMAIN rust[c].slots \cup {"requestId", "decision"}
  BY <1>1, Fields
<1> QED
  BY <1>1, <1>2, <1>4, <1>5 DEF DeliveredInv

LEMMA DataFaithful == TypeOK /\ DataInv => ResultFaithful
<1> SUFFICES ASSUME DataInv, NEW c \in Calls, pc[c] = "returned"
             PROVE  java[c] = JavaOf(rust[c])
  BY DEF ResultFaithful
<1>1. DeliveredInv(c) /\ rust[c] \in Results
  BY DEF DataInv
<1>2. DOMAIN java[c] = DOMAIN JavaOf(rust[c])
  BY <1>1, NothingMissing DEF DeliveredInv
<1>3. JavaOf(rust[c]) = [f \in DOMAIN JavaOf(rust[c]) |-> JavaOf(rust[c])[f]]
  BY DEF JavaOf
<1> QED
  BY <1>1, <1>2, <1>3 DEF DeliveredInv

LEMMA DataDenies == TypeOK /\ DataInv => DenyUntilComplete
<1> SUFFICES ASSUME DataInv, NEW c \in Calls, "decision" \in DOMAIN java[c],
                    NEW f \in DOMAIN JavaOf(rust[c])
             PROVE  f \in DOMAIN java[c] /\ java[c][f] = JavaOf(rust[c])[f]
  BY DEF DenyUntilComplete
<1>1. DeliveredInv(c) /\ rust[c] \in Results
  BY DEF DataInv
<1>2. f \in DOMAIN java[c]
  BY NothingMissing
<1> QED
  BY <1>1, <1>2 DEF DeliveredInv

(* What a conversion returns is the whole result, for results with any number *)
(* of principals, reasons and errors.                                         *)
THEOREM WholeResult == Spec => []ResultFaithful
  BY TypeCorrect, DataCorrect, DataFaithful, PTL

(* A result that has a decision has everything else.                          *)
THEOREM DecisionLast == Spec => []DenyUntilComplete
  BY TypeCorrect, DataCorrect, DataDenies, PTL
=============================================================================
