-------------------------- MODULE ResultConversion --------------------------
(***************************************************************************)
(* The conversion of a Rust AuthorizeResult into Java objects, run by every *)
(* call of authorize once its engine has answered.  Each wrapper class has *)
(* a process-wide LOCAL_JNI_CACHE mutex.  as_java_object keeps its own      *)
(* locked while it converts the parts, so the mutexes nest:                *)
(*   AuthorizeResult > PolicyResponse > AuthzDecision                      *)
(*                                    > Diagnostics > PolicyId, AuthzError *)
(* std::sync::Mutex is not reentrant.                                      *)
(* The lookups of `new' hold the mutex over map reads only: they are one   *)
(* step, that needs the mutex free.                                        *)
(***************************************************************************)
EXTENDS Naturals, Sequences, FiniteSets

CONSTANTS Calls,      \* the calls that convert a result
          NoCall,     \* the holder of a free mutex
          NoResponse, \* Option::None for person and workload, null in Java
          Principals, \* names of principals
          Results     \* the Rust results: see IsResult

Caches == {"AuthorizeResult", "PolicyResponse", "AuthzDecision",
           "Diagnostics", "PolicyId", "AuthzError"}
Leaves == {"PolicyId", "AuthzError"}

(* slots: the responses by the setter that delivers them *)
IsResult(r) ==
    /\ DOMAIN r.slots \ {"person", "workload"} \subseteq Principals
    /\ {"person", "workload"} \subseteq DOMAIN r.slots
    /\ \A s \in DOMAIN r.slots :
          \/ r.slots[s] = NoResponse /\ s \in {"person", "workload"}
          \/ /\ r.slots[s] \in [decision : {"ALLOW", "DENY"},
                                reasons : SUBSET STRING, errors : Seq(STRING)]
             /\ IsFiniteSet(r.slots[s].reasons)
    /\ r.decision \in BOOLEAN

ASSUME ConversionAssumption ==
    /\ NoCall \notin Calls
    /\ Principals \cap {"person", "workload", "requestId", "decision"} = {}
    /\ \A r \in Results : IsResult(r)

VARIABLES
    pc,       \* pc[c]: where call c is
    rust,     \* rust[c]: the result it converts
    lock,     \* lock[k]: the call that has the mutex of cache k
    todo,     \* todo[c]: slots to convert
    slot,     \* slot[c]: the slot being converted
    ahead,    \* ahead[c]: the reasons that the loop has not reached yet
    index,    \* index[c]: the number of errors that the loop has reached
    leaf,     \* leaf[c]: the class of the reason or error being converted
    item,     \* item[c]: that reason or error
    resp,     \* resp[c]: the Java PolicyResponse and Diagnostics so far
    java      \* java[c]: the fields of the Java AuthorizeResult set so far

loops == <<ahead, index>>
vars == <<pc, rust, lock, todo, slot, loops, leaf, item, resp, java>>
data == <<rust, todo, slot, loops, leaf, item, resp, java>>

PCs == {"start", "arNew", "arLock", "fill", "prNew", "prLock", "adLock",
        "adRead", "dgNew", "dgLock", "diagnose", "leafNew", "leafLock",
        "leafMake", "prMake", "requestId", "decision", "arUnlock",
        "unwindLeaf", "unwindAD", "unwindDG", "unwindPR", "unwindAR",
        "returned", "failed"}

-----------------------------------------------------------------------------
Goto(c, from, to) ==
    /\ pc[c] = from
    /\ pc' = [pc EXCEPT ![c] = to]

Acquire(c, k) == lock[k] = NoCall /\ lock' = [lock EXCEPT ![k] = c]
Release(k)    == lock' = [lock EXCEPT ![k] = NoCall]

(* The lookups of a `new': they wait for the mutex and give it back. *)
Lookup(c, k, from, to) ==
    /\ Goto(c, from, to)
    /\ lock[k] = NoCall
    /\ UNCHANGED <<lock, data>>

(* A JNI call fails: `?' drops the guards, the innermost first. *)
Fail(c, from, unwind) == Goto(c, from, unwind) /\ UNCHANGED <<lock, data>>

Source(c) == rust[c].slots[slot[c]]

-----------------------------------------------------------------------------
Init ==
    /\ pc = [c \in Calls |-> "start"]
    /\ rust \in [Calls -> Results]
    /\ lock = [k \in Caches |-> NoCall]
    /\ todo = [c \in Calls |-> DOMAIN rust[c].slots]
    /\ slot = [c \in Calls |-> "person"]
    /\ ahead = [c \in Calls |-> {}] /\ index = [c \in Calls |-> 0]
    /\ leaf = [c \in Calls |-> "PolicyId"]
    /\ item = [c \in Calls |-> NoResponse]
    /\ resp = [c \in Calls |-> NoResponse]
    /\ java = [c \in Calls |-> <<>>]

Start(c) == Goto(c, "start", "arNew") /\ UNCHANGED <<lock, data>>

(* JavaAuthorizeResult::new, then as_java_object. *)
NewResult(c) == Lookup(c, "AuthorizeResult", "arNew", "arLock")

(* Faulty variant: the guard covers the constructor and not the setters. *)
LockResult_Short(c) ==
    /\ Goto(c, "arLock", "fill")
    /\ lock["AuthorizeResult"] = NoCall
    /\ UNCHANGED <<lock, data>>

LockResult(c) ==
    /\ \/ Goto(c, "arLock", "fill") \/ Goto(c, "arLock", "unwindAR")
    /\ Acquire(c, "AuthorizeResult")
    /\ UNCHANGED data

(* set_person, then set_workload, then add_principal in any order.  A part   *)
(* that is None becomes null.                                                *)
NextSlots(c) ==
    IF "person" \in todo[c] THEN {"person"}
    ELSE IF "workload" \in todo[c] THEN {"workload"}
    ELSE todo[c]

SetField(c, f, v) ==
    java' = [java EXCEPT ![c] =
               [g \in DOMAIN @ \cup {f} |-> IF g = f THEN v ELSE @[g]]]

FillSlot(c) ==
    \/ \E s \in NextSlots(c) :
          /\ todo' = [todo EXCEPT ![c] = @ \ {s}]
          /\ slot' = [slot EXCEPT ![c] = s]
          /\ IF rust[c].slots[s] = NoResponse
             THEN Goto(c, "fill", "fill") /\ SetField(c, s, NoResponse)
             ELSE Goto(c, "fill", "prNew") /\ UNCHANGED java
          /\ UNCHANGED <<lock, rust, loops, leaf, item, resp>>
    \/ todo[c] # {} /\ Fail(c, "fill", "unwindAR")

-----------------------------------------------------------------------------
(* JavaPolicyResponse::new and as_java_object *)
NewResponse(c) == Lookup(c, "PolicyResponse", "prNew", "prLock")

LockResponse(c) ==
    /\ \/ Goto(c, "prLock", "adLock") \/ Goto(c, "prLock", "unwindPR")
    /\ Acquire(c, "PolicyResponse")
    /\ UNCHANGED data

LockDecision(c) ==
    /\ Goto(c, "adLock", "adRead")
    /\ Acquire(c, "AuthzDecision")
    /\ UNCHANGED data

(* The constant of the Java enum for the decision of the response. *)
ReadDecision(c) ==
    \/ /\ Goto(c, "adRead", "dgNew")
       /\ resp' = [resp EXCEPT ![c] = [decision |-> Source(c).decision,
                                       reasons |-> {}, errors |-> <<>>]]
       /\ Release("AuthzDecision")
       /\ UNCHANGED <<rust, todo, slot, loops, leaf, item, java>>
    \/ Fail(c, "adRead", "unwindAD")

(* JavaDiagnostics::new and as_java_object: the reasons, then the errors. *)
NewDiagnostics(c) == Lookup(c, "Diagnostics", "dgNew", "dgLock")

LockDiagnostics(c) ==
    /\ \/ /\ Goto(c, "dgLock", "diagnose")
          /\ ahead' = [ahead EXCEPT ![c] = Source(c).reasons]
          /\ index' = [index EXCEPT ![c] = 0]
       \/ Goto(c, "dgLock", "unwindDG") /\ UNCHANGED loops
    /\ Acquire(c, "Diagnostics")
    /\ UNCHANGED <<rust, todo, slot, leaf, item, resp, java>>

(* Two loops over the collections of the engine: what the Java object has     *)
(* received plays no part in them.                                            *)

NextReason(c) ==
    /\ Goto(c, "diagnose", "leafNew")
    /\ \E p \in ahead[c] :
          /\ item' = [item EXCEPT ![c] = p]
          /\ ahead' = [ahead EXCEPT ![c] = @ \ {p}]
    /\ leaf' = [leaf EXCEPT ![c] = "PolicyId"]
    /\ UNCHANGED <<lock, rust, todo, slot, index, resp, java>>

(* Faulty variant: an error is looked up in the cache of Diagnostics. *)
NextError_WrongCache(c) ==
    /\ Goto(c, "diagnose", "leafNew")
    /\ ahead[c] = {} /\ index[c] < Len(Source(c).errors)
    /\ index' = [index EXCEPT ![c] = @ + 1]
    /\ item' = [item EXCEPT ![c] = Source(c).errors[index'[c]]]
    /\ leaf' = [leaf EXCEPT ![c] = "Diagnostics"]
    /\ UNCHANGED <<lock, rust, todo, slot, ahead, resp, java>>

NextError(c) ==
    /\ Goto(c, "diagnose", "leafNew")
    /\ ahead[c] = {} /\ index[c] < Len(Source(c).errors)
    /\ index' = [index EXCEPT ![c] = @ + 1]
    /\ item' = [item EXCEPT ![c] = Source(c).errors[index'[c]]]
    /\ leaf' = [leaf EXCEPT ![c] = "AuthzError"]
    /\ UNCHANGED <<lock, rust, todo, slot, ahead, resp, java>>

(* JavaPolicyId or JavaAuthzError *)
NewLeaf(c) == Lookup(c, leaf[c], "leafNew", "leafLock")

(* Faulty variant: the item is tried again until it can be constructed. *)
LockLeaf_Retries(c) ==
    \/ /\ Goto(c, "leafLock", "leafMake")
       /\ Acquire(c, leaf[c])
       /\ UNCHANGED data
    \/ Fail(c, "leafLock", "leafNew")

(* The string argument is created before the mutex is locked. *)
LockLeaf(c) ==
    \/ /\ Goto(c, "leafLock", "leafMake")
       /\ Acquire(c, leaf[c])
       /\ UNCHANGED data
    \/ Fail(c, "leafLock", "unwindDG")

(* add_policy_id or add_error *)
WithItem(c) ==
    IF leaf[c] = "PolicyId"
    THEN [resp[c] EXCEPT !.reasons = @ \cup {item[c]}]
    ELSE [resp[c] EXCEPT !.errors = Append(@, item[c])]

(* Faulty variant: the object is constructed and not added. *)
MakeLeaf_NotAdded(c) ==
    \/ /\ Goto(c, "leafMake", "diagnose")
       /\ Release(leaf[c])
       /\ UNCHANGED data
    \/ Fail(c, "leafMake", "unwindLeaf")

(* The object is constructed, its mutex released, and it is added.           *)
MakeLeaf(c) ==
    \/ /\ \/ /\ Goto(c, "leafMake", "diagnose")
             /\ resp' = [resp EXCEPT ![c] = WithItem(c)]
          \/ Goto(c, "leafMake", "unwindDG") /\ UNCHANGED resp
       /\ Release(leaf[c])
       /\ UNCHANGED <<rust, todo, slot, loops, leaf, item, java>>
    \/ Fail(c, "leafMake", "unwindLeaf")

EndDiagnostics(c) ==
    /\ Goto(c, "diagnose", "prMake")
    /\ ahead[c] = {} /\ index[c] = Len(Source(c).errors)
    /\ Release("Diagnostics")
    /\ UNCHANGED data

(* Faulty variant: the mutex is not released on the error path.              *)
MakeResponse_Leaks(c) ==
    \/ /\ Goto(c, "prMake", "fill") /\ SetField(c, slot[c], resp[c])
       /\ Release("PolicyResponse")
       /\ UNCHANGED <<rust, todo, slot, loops, leaf, item, resp>>
    \/ Fail(c, "prMake", "unwindAR")

(* The PolicyResponse is constructed, its mutex released, and the setter of  *)
(* the AuthorizeResult called.                                               *)
MakeResponse(c) ==
    \/ /\ \/ Goto(c, "prMake", "fill") /\ SetField(c, slot[c], resp[c])
          \/ Goto(c, "prMake", "unwindAR") /\ UNCHANGED java
       /\ Release("PolicyResponse")
       /\ UNCHANGED <<rust, todo, slot, loops, leaf, item, resp>>
    \/ Fail(c, "prMake", "unwindPR")

-----------------------------------------------------------------------------
(* Faulty variant: the decision is set before all parts are. *)
EndSlots_Early(c) ==
    /\ Goto(c, "fill", "requestId")
    /\ UNCHANGED <<lock, data>>

EndSlots(c) ==
    /\ Goto(c, "fill", "requestId")
    /\ todo[c] = {}
    /\ UNCHANGED <<lock, data>>

SetRequestId(c) ==
    \/ /\ Goto(c, "requestId", "decision")
       /\ SetField(c, "requestId", rust[c].requestId)
       /\ UNCHANGED <<lock, rust, todo, slot, loops, leaf, item, resp>>
    \/ Fail(c, "requestId", "unwindAR")

SetDecision(c) ==
    \/ /\ Goto(c, "decision", "arUnlock")
       /\ SetField(c, "decision", rust[c].decision)
       /\ UNCHANGED <<lock, rust, todo, slot, loops, leaf, item, resp>>
    \/ Fail(c, "decision", "unwindAR")

Return(c) ==
    /\ Goto(c, "arUnlock", "returned")
    /\ Release("AuthorizeResult")
    /\ UNCHANGED data

Unwind(c) ==
    /\ \/ Goto(c, "unwindLeaf", "unwindDG") /\ Release(leaf[c])
       \/ Goto(c, "unwindDG", "unwindPR") /\ Release("Diagnostics")
       \/ Goto(c, "unwindAD", "unwindPR") /\ Release("AuthzDecision")
       \/ Goto(c, "unwindPR", "unwindAR") /\ Release("PolicyResponse")
       \/ Goto(c, "unwindAR", "failed") /\ Release("AuthorizeResult")
    /\ UNCHANGED data

-----------------------------------------------------------------------------
Step(c) ==
    \/ NewResult(c) \/ LockResult(c) \/ FillSlot(c)
    \/ NewResponse(c) \/ LockResponse(c) \/ LockDecision(c) \/ ReadDecision(c)
    \/ NewDiagnostics(c) \/ LockDiagnostics(c) \/ NextReason(c) \/ NextError(c)
    \/ NewLeaf(c) \/ LockLeaf(c) \/ MakeLeaf(c) \/ EndDiagnostics(c)
    \/ MakeResponse(c) \/ EndSlots(c) \/ SetRequestId(c) \/ SetDecision(c)
    \/ Return(c) \/ Unwind(c)

Terminated ==
    /\ \A c \in Calls : pc[c] \in {"returned", "failed"}
    /\ UNCHANGED vars

Next == (\E c \in Calls : Start(c) \/ Step(c)) \/ Terminated

Spec == Init /\ [][Next]_vars /\ \A c \in Calls : WF_vars(Step(c))

-----------------------------------------------------------------------------
(* The mutexes a call holds, and the one it is about to lock. *)
Held(c) ==
    CASE pc[c] \in {"start", "arNew", "arLock", "returned", "failed"} -> {}
      [] pc[c] \in {"fill", "prNew", "prLock", "requestId", "decision",
                    "arUnlock", "unwindAR"} -> {"AuthorizeResult"}
      [] pc[c] \in {"adLock", "dgNew", "dgLock", "prMake", "unwindPR"} ->
            {"AuthorizeResult", "PolicyResponse"}
      [] pc[c] \in {"adRead", "unwindAD"} ->
            {"AuthorizeResult", "PolicyResponse", "AuthzDecision"}
      [] pc[c] \in {"diagnose", "leafNew", "leafLock", "unwindDG"} ->
            {"AuthorizeResult", "PolicyResponse", "Diagnostics"}
      [] OTHER -> {"AuthorizeResult", "PolicyResponse", "Diagnostics", leaf[c]}

Wanted(c) ==
    CASE pc[c] \in {"arNew", "arLock"} -> {"AuthorizeResult"}
      [] pc[c] \in {"prNew", "prLock"} -> {"PolicyResponse"}
      [] pc[c] = "adLock" -> {"AuthzDecision"}
      [] pc[c] \in {"dgNew", "dgLock"} -> {"Diagnostics"}
      [] pc[c] \in {"leafNew", "leafLock"} -> {leaf[c]}
      [] OTHER -> {}

TypeOK ==
    /\ pc \in [Calls -> PCs]
    /\ lock \in [Caches -> Calls \cup {NoCall}]
    /\ leaf \in [Calls -> Leaves]

(* Guards go with the scopes that own them, on every path including `?': a    *)
(* mutex is held exactly by the call that is in its scope, and by nobody once *)
(* the conversion has returned or failed.                                     *)
LocksScoped == \A k \in Caches, c \in Calls : lock[k] = c <=> k \in Held(c)

(* No call waits for a mutex that it holds itself, and only the outermost     *)
(* mutex is ever waited for: whoever is inside the nest is alone in it        *)
(* (authorize_result.rs:165 to policy_id.rs:76).                              *)
NestNeverBlocks ==
    \A c \in Calls : \A k \in Wanted(c) :
        lock[k] # NoCall => k = "AuthorizeResult" /\ lock[k] # c

(* What a successful conversion returns is the whole result: each response in *)
(* its own field with all its reasons and errors (authorize_result.rs:160).   *)
JavaOf(r) ==
    [f \in DOMAIN r.slots \cup {"requestId", "decision"} |->
        CASE f = "requestId" -> r.requestId
          [] f = "decision" -> r.decision
          [] OTHER -> r.slots[f]]

ResultFaithful == \A c \in Calls : pc[c] = "returned" => java[c] = JavaOf(rust[c])

(* The overall decision is the last field to be set: a half-built result      *)
(* still denies (AuthorizeResult.java:34), whatever its parts say.            *)
DenyUntilComplete ==
    \A c \in Calls :
        "decision" \in DOMAIN java[c] =>
            \A f \in DOMAIN JavaOf(rust[c]) :
                f \in DOMAIN java[c] /\ java[c][f] = JavaOf(rust[c])[f]

-----------------------------------------------------------------------------
(* The inductive invariant behind the last two: what call c has delivered is  *)
(* right, and all of it is there but the part it is working on.               *)

AtItem == {"leafNew", "leafLock", "leafMake"}
Diagnosing == {"dgNew", "dgLock", "diagnose", "prMake"} \cup AtItem
Converting == {"prNew", "prLock", "adLock", "adRead"} \cup Diagnosing
Unwinding == {"unwindLeaf", "unwindAD", "unwindDG", "unwindPR", "unwindAR", "failed"}

DeliveredInv(c) ==
    /\ DOMAIN java[c] \subseteq DOMAIN JavaOf(rust[c])
    /\ java[c] = [f \in DOMAIN java[c] |-> JavaOf(rust[c])[f]]
    /\ pc[c] \notin Unwinding => \A s \in DOMAIN rust[c].slots :
          s \in todo[c] \cup DOMAIN java[c] \/ (s = slot[c] /\ pc[c] \in Converting)
    /\ pc[c] \in {"requestId", "decision", "arUnlock", "returned"} => todo[c] = {}
    /\ pc[c] \in {"decision", "arUnlock", "returned"} => "requestId" \in DOMAIN java[c]
    /\ "decision" \in DOMAIN java[c] <=> pc[c] \in {"arUnlock", "returned"}

(* The response under construction has the reasons and errors that the loops  *)
(* have passed; the one they are at is on its way.                            *)
PartInv(c) ==
    /\ pc[c] \in Converting =>
          slot[c] \in DOMAIN rust[c].slots /\ Source(c) # NoResponse
    /\ pc[c] \in Diagnosing =>
          /\ resp[c] \in [decision : {Source(c).decision},
                          reasons : SUBSET Source(c).reasons, errors : Seq(STRING)]
          /\ Len(resp[c].errors) <= Len(Source(c).errors)
          /\ \A i \in 1 .. Len(resp[c].errors) : resp[c].errors[i] = Source(c).errors[i]
    /\ pc[c] \in {"dgNew", "dgLock"} => resp[c].errors = <<>>
    /\ pc[c] = "diagnose" =>
          resp[c].reasons \cup ahead[c] = Source(c).reasons /\ Len(resp[c].errors) = index[c]
    /\ pc[c] \in AtItem =>
          IF leaf[c] = "PolicyId"
          THEN /\ resp[c].reasons \cup ahead[c] \cup {item[c]} = Source(c).reasons
               /\ Len(resp[c].errors) = index[c]
          ELSE /\ resp[c].reasons \cup ahead[c] = Source(c).reasons
               /\ index[c] = Len(resp[c].errors) + 1 /\ index[c] <= Len(Source(c).errors)
               /\ item[c] = Source(c).errors[index[c]]
    /\ pc[c] = "prMake" => resp[c] = Source(c)

DataInv ==
    /\ rust \in [Calls -> Results]
    /\ todo \in [Calls -> SUBSET (Principals \cup {"person", "workload"})]
    /\ Calls = DOMAIN slot /\ Calls = DOMAIN item
    /\ Calls = DOMAIN ahead /\ Calls = DOMAIN index
    /\ Calls = DOMAIN resp /\ Calls = DOMAIN java
    /\ \A c \in Calls : todo[c] \subseteq DOMAIN rust[c].slots /\ DeliveredInv(c) /\ PartInv(c)

(* Every conversion ends: nobody is stuck behind the nested mutexes. *)
EveryConversionEnds ==
    \A c \in Calls : pc[c] = "arNew" ~> pc[c] \in {"returned", "failed"}
=============================================================================
