-------------------------- MODULE CedarlingService --------------------------
(***************************************************************************)
(* What a Cedarling instance promises its Java callers, without locks,     *)
(* native pointers or conversions.  An instance is opened once and closed  *)
(* at most once, each successful authorization is decided in one atomic    *)
(* step while the instance is open, and a call that fails changes nothing. *)
(* Module Cedarling is shown to implement this one.                        *)
(***************************************************************************)
CONSTANTS Threads,   \* Java threads that call the bridge
          Objects,   \* Java Cedarling instances
          NoObject   \* the receiver of a thread that never called

VARIABLES
    status,   \* status[o]: "absent", "open" or "closed"
    op,       \* op[t]: the call thread t made last
    obj,      \* obj[t]: the instance it made it on
    phase,    \* phase[t]: "idle", "called", "decided" or "done"
    reply     \* reply[t]: what the call that is "done" gives its caller

svars == <<status, op, obj, phase, reply>>

AuthorizeOps == {"authorize", "authorizeUnsigned"}
Ops == AuthorizeOps \cup {"new", "close"}

Init ==
    /\ status = [o \in Objects |-> "absent"]
    /\ op = [t \in Threads |-> "none"]
    /\ obj = [t \in Threads |-> NoObject]
    /\ phase = [t \in Threads |-> "idle"]
    /\ reply = [t \in Threads |-> "none"]

Finish(t, r) ==
    /\ phase' = [phase EXCEPT ![t] = "done"]
    /\ reply' = [reply EXCEPT ![t] = r]
    /\ UNCHANGED <<op, obj>>

(* A thread calls the constructor of an instance nobody has, or a method of *)
(* an instance that was opened.                                             *)
Call(t) ==
    /\ phase[t] = "idle"
    /\ \E o \in Objects, c \in Ops :
          /\ (c = "new") <=> (status[o] = "absent")
          /\ op' = [op EXCEPT ![t] = c]
          /\ obj' = [obj EXCEPT ![t] = o]
    /\ phase' = [phase EXCEPT ![t] = "called"]
    /\ reply' = [reply EXCEPT ![t] = "none"]
    /\ UNCHANGED status

Open(t) ==
    /\ phase[t] = "called" /\ op[t] = "new"
    /\ status[obj[t]] = "absent"
    /\ status' = [status EXCEPT ![obj[t]] = "open"]
    /\ Finish(t, "ok")

(* The one step at which an authorization takes effect. *)
Decide(t) ==
    /\ phase[t] = "called" /\ op[t] \in AuthorizeOps
    /\ status[obj[t]] = "open"
    /\ phase' = [phase EXCEPT ![t] = "decided"]
    /\ UNCHANGED <<status, op, obj, reply>>

(* The decision reaches the caller, or its conversion to Java fails. *)
Answer(t) ==
    /\ phase[t] = "decided"
    /\ \E r \in {"decision", "invalid"} : Finish(t, r)
    /\ UNCHANGED status

Close(t) ==
    /\ phase[t] = "called" /\ op[t] = "close"
    /\ status[obj[t]] = "open"
    /\ status' = [status EXCEPT ![obj[t]] = "closed"]
    /\ Finish(t, "ok")

(* The configuration, the request or the policy evaluation is in error. *)
Reject(t) ==
    /\ phase[t] = "called" /\ op[t] # "close"
    /\ Finish(t, "invalid")
    /\ UNCHANGED status

RefuseClosed(t) ==
    /\ phase[t] = "called" /\ op[t] # "new"
    /\ status[obj[t]] = "closed"
    /\ Finish(t, "closed")
    /\ UNCHANGED status

(* A close gives up, but only because another thread is authorizing. *)
RefuseBusy(t) ==
    /\ phase[t] = "called" /\ op[t] = "close"
    /\ status[obj[t]] = "open"
    /\ \E s \in Threads : /\ op[s] \in AuthorizeOps
                          /\ obj[s] = obj[t]
                          /\ phase[s] = "called"
    /\ Finish(t, "busy")
    /\ UNCHANGED status

Return(t) ==
    /\ phase[t] = "done"
    /\ phase' = [phase EXCEPT ![t] = "idle"]
    /\ UNCHANGED <<status, op, obj, reply>>

Serve(t) ==
    \/ Open(t) \/ Decide(t) \/ Answer(t) \/ Close(t)
    \/ Reject(t) \/ RefuseClosed(t) \/ RefuseBusy(t) \/ Return(t)

Next == \E t \in Threads : Call(t) \/ Serve(t)

SafeSpec == Init /\ [][Next]_svars

(* Every call made is served and returns. *)
Spec == SafeSpec /\ \A t \in Threads : WF_svars(Serve(t))
=============================================================================
