------------------------------ MODULE Cedarling ------------------------------
(***************************************************************************)
(* The life of Java Cedarling instances and of the native engines behind   *)
(* them: Java threads call the constructor, authorize, authorizeUnsigned   *)
(* and close, and the JNI functions of cedarling.rs reach the engine       *)
(* through the field cedarlingRef.  The jni crate guards that field with   *)
(* the Java monitor of the object, and the engine with a Rust mutex that   *)
(* an authorization acquires while it still holds the monitor.             *)
(***************************************************************************)
EXTENDS Naturals

CONSTANTS Threads,    \* Java threads
          Objects,    \* Java Cedarling instances
          NoThread,   \* the holder of a free lock
          NoObject,   \* the receiver of a thread that never called
          MaxCalls    \* bound: calls each thread makes

ASSUME CedarlingAssumption ==
    /\ NoThread \notin Threads
    /\ NoObject \notin Objects
    /\ MaxCalls \in Nat

VARIABLES
    pc,       \* pc[t]: where thread t is
    op,       \* op[t]: the method thread t called last
    obj,      \* obj[t]: the instance it called it on
    err,      \* err[t]: the Rust Err that ended the call, "none" for Ok
    exc,      \* exc[t]: the Java exception pending in t
    result,   \* result[t]: the reference authorize returns
    object,   \* object[o]: what Java code knows of the instance
    ref,      \* ref[o]: cedarlingRef is not 0
    engine,   \* engine[o]: the native Cedarling value
    monitor,  \* monitor[o]: thread in the Java monitor of the object
    mutex,    \* mutex[o]: thread with the MutexGuard of the engine
    calls     \* calls[t]: calls thread t has made

vars == <<pc, op, obj, err, exc, result, object, ref, engine, monitor, mutex,
          calls>>
locals == <<op, obj, calls>>                     \* fixed during a call
natives == <<object, ref, engine>>

AuthorizeOps == {"authorize", "authorizeUnsigned"}
Ops == AuthorizeOps \cup {"new", "close"}

PCs == {"idle", "convertConfig", "newEngine", "setField", "convertRequest",
        "getField", "readField", "lockEngine", "leaveMonitor", "authorize",
        "convertResult", "takeField", "tryTake", "dropEngine", "throw",
        "return"}
Errs == {"none", "Config", "NewEngine", "Request", "NullPtr", "TryLock",
         "Engine", "Result"}
Exceptions == {"none", "JavaException", "CedarlingConfigurationError",
               "CedarlingAuthorizationError", "NoClassDefFoundError"}

-----------------------------------------------------------------------------
(* Moving a thread. *)

Goto(t, from, to) ==
    /\ pc[t] = from
    /\ pc' = [pc EXCEPT ![t] = to]

(* `?': the function returns Err(e), which the JNI entry point throws. *)
Fail(t, from, e) ==
    /\ Goto(t, from, "throw")
    /\ err' = [err EXCEPT ![t] = e]

(* A conversion calls back into Java and may fail in two ways: with a Rust  *)
(* error, or with the exception of a Java method, which stays pending.      *)
Convert(t, from, to, e) ==
    /\ \/ Goto(t, from, to) /\ UNCHANGED <<err, exc>>
       \/ Fail(t, from, e) /\ UNCHANGED exc
       \/ Fail(t, from, e) /\ exc' = [exc EXCEPT ![t] = "JavaException"]

Enter(lock, o, t) == lock[o] = NoThread /\ lock' = [lock EXCEPT ![o] = t]
Leave(lock, o)    == lock' = [lock EXCEPT ![o] = NoThread]

-----------------------------------------------------------------------------
Init ==
    /\ pc = [t \in Threads |-> "idle"]
    /\ op = [t \in Threads |-> "none"]
    /\ obj = [t \in Threads |-> NoObject]
    /\ err = [t \in Threads |-> "none"]
    /\ exc = [t \in Threads |-> "none"]
    /\ result = [t \in Threads |-> "null"]
    /\ object = [o \in Objects |-> "unborn"]
    /\ ref = [o \in Objects |-> FALSE]
    /\ engine = [o \in Objects |-> "none"]
    /\ monitor = [o \in Objects |-> NoThread]
    /\ mutex = [o \in Objects |-> NoThread]
    /\ calls = [t \in Threads |-> 0]

(* A Java thread calls method m of instance o.  The caller has dealt with    *)
(* the exception and the result of its previous call.                        *)
Call(t, m, o, to) ==
    /\ calls[t] < MaxCalls
    /\ Goto(t, "idle", to)
    /\ op' = [op EXCEPT ![t] = m]
    /\ obj' = [obj EXCEPT ![t] = o]
    /\ calls' = [calls EXCEPT ![t] = @ + 1]
    /\ err' = [err EXCEPT ![t] = "none"]
    /\ exc' = [exc EXCEPT ![t] = "none"]
    /\ result' = [result EXCEPT ![t] = "null"]
    /\ UNCHANGED <<ref, engine, monitor, mutex>>

-----------------------------------------------------------------------------
(* new Cedarling(config): no other thread has the instance yet. *)

CallNew(t, o) ==
    /\ object[o] = "unborn"
    /\ object' = [object EXCEPT ![o] = "constructing"]
    /\ Call(t, "new", o, "convertConfig")

ConvertConfig(t) ==
    /\ Convert(t, "convertConfig", "newEngine", "Config")
    /\ UNCHANGED <<locals, natives, result, monitor, mutex>>

(* Faulty variant: the error of Cedarling::new is swallowed. *)
NewEngine_ErrSwallowed(t) ==
    /\ \/ /\ Goto(t, "newEngine", "setField")
          /\ engine' = [engine EXCEPT ![obj[t]] = "built"]
       \/ Goto(t, "newEngine", "return") /\ UNCHANGED engine
    /\ UNCHANGED <<locals, err, exc, result, object, ref, monitor, mutex>>

NewEngine(t) ==
    /\ \/ /\ Goto(t, "newEngine", "setField")
          /\ engine' = [engine EXCEPT ![obj[t]] = "built"]
          /\ UNCHANGED err
       \/ Fail(t, "newEngine", "NewEngine") /\ UNCHANGED engine
    /\ UNCHANGED <<locals, exc, result, object, ref, monitor, mutex>>

(* set_rust_field enters the monitor, stores the pointer and leaves it. *)
SetField(t) ==
    /\ Goto(t, "setField", "return")
    /\ monitor[obj[t]] = NoThread
    /\ ref' = [ref EXCEPT ![obj[t]] = TRUE]
    /\ engine' = [engine EXCEPT ![obj[t]] = "live"]
    /\ UNCHANGED <<locals, err, exc, result, object, monitor, mutex>>

-----------------------------------------------------------------------------
(* authorize(request) and authorizeUnsigned(request). *)

CallAuthorize(t, m, o) ==
    /\ object[o] = "published"
    /\ Call(t, m, o, "convertRequest")
    /\ UNCHANGED object

ConvertRequest(t) ==
    /\ Convert(t, "convertRequest", "getField", "Request")
    /\ UNCHANGED <<locals, natives, result, monitor, mutex>>

(* get_rust_field, in four steps: enter the monitor, read the field, lock    *)
(* the mutex it points to, leave the monitor.                                *)
GetField(t) ==
    /\ Goto(t, "getField", "readField")
    /\ Enter(monitor, obj[t], t)
    /\ UNCHANGED <<locals, natives, err, exc, result, mutex>>

(* Faulty variant: a null field is taken for one not set yet, and retried. *)
ReadField_Retry(t) ==
    /\ \/ Goto(t, "readField", "lockEngine") /\ ref[obj[t]] /\ UNCHANGED monitor
       \/ /\ Goto(t, "readField", "getField")
          /\ ~ref[obj[t]]
          /\ Leave(monitor, obj[t])
    /\ UNCHANGED <<locals, natives, err, exc, result, mutex>>

ReadField(t) ==
    /\ \/ /\ Goto(t, "readField", "lockEngine")
          /\ ref[obj[t]]
          /\ UNCHANGED <<err, monitor>>
       \/ /\ Fail(t, "readField", "NullPtr")
          /\ ~ref[obj[t]]
          /\ Leave(monitor, obj[t])
    /\ UNCHANGED <<locals, natives, exc, result, mutex>>

(* Faulty variant: the engine is reached without waiting for its mutex. *)
LockEngine_NoWait(t) ==
    /\ Goto(t, "lockEngine", "leaveMonitor")
    /\ mutex' = [mutex EXCEPT ![obj[t]] = t]
    /\ UNCHANGED <<locals, natives, err, exc, result, monitor>>

LockEngine(t) ==
    /\ Goto(t, "lockEngine", "leaveMonitor")
    /\ Enter(mutex, obj[t], t)
    /\ UNCHANGED <<locals, natives, err, exc, result, monitor>>

LeaveMonitor(t) ==
    /\ Goto(t, "leaveMonitor", "authorize")
    /\ Leave(monitor, obj[t])
    /\ UNCHANGED <<locals, natives, err, exc, result, mutex>>

(* Faulty variant: the guard outlives the block when the engine fails. *)
Authorize_GuardKept(t) ==
    /\ \/ Goto(t, "authorize", "convertResult") /\ Leave(mutex, obj[t]) /\ UNCHANGED err
       \/ Fail(t, "authorize", "Engine") /\ UNCHANGED mutex
    /\ UNCHANGED <<locals, natives, exc, result, monitor>>

(* Faulty variant: the result is converted in the scope of the guard. *)
Authorize_GuardOut(t) ==
    /\ \/ Goto(t, "authorize", "convertResult") /\ UNCHANGED <<err, mutex>>
       \/ Fail(t, "authorize", "Engine") /\ Leave(mutex, obj[t])
    /\ UNCHANGED <<locals, natives, exc, result, monitor>>

(* The engine decides or fails; the guard is dropped in both cases. *)
Authorize(t) ==
    /\ \/ Goto(t, "authorize", "convertResult") /\ UNCHANGED err
       \/ Fail(t, "authorize", "Engine")
    /\ Leave(mutex, obj[t])
    /\ UNCHANGED <<locals, natives, exc, result, monitor>>

(* Faulty variant: the reference of a half-converted result is returned. *)
ConvertResult_Partial(t) ==
    /\ Convert(t, "convertResult", "return", "Result")
    /\ result' = [result EXCEPT ![t] = "decision"]
    /\ UNCHANGED <<locals, natives, monitor, mutex>>

(* The result is converted with no lock of the instance held. *)
ConvertResult(t) ==
    /\ Convert(t, "convertResult", "return", "Result")
    /\ result' = [result EXCEPT ![t] =
                    IF pc'[t] = "return" THEN "decision" ELSE "null"]
    /\ UNCHANGED <<locals, natives, monitor, mutex>>

-----------------------------------------------------------------------------
(* close() *)

CallClose(t, o) ==
    /\ object[o] = "published"
    /\ Call(t, "close", o, "takeField")
    /\ UNCHANGED object

TakeField(t) ==
    /\ Goto(t, "takeField", "tryTake")
    /\ Enter(monitor, obj[t], t)
    /\ UNCHANGED <<locals, natives, err, exc, result, mutex>>

(* Faulty variants: the value is taken although a guard is out; the field is  *)
(* not cleared; the field is cleared although the value could not be taken.    *)
TryTake_InUse(t) ==
    LET o == obj[t] IN
    /\ \/ Fail(t, "tryTake", "NullPtr") /\ ~ref[o] /\ UNCHANGED <<ref, engine>>
       \/ /\ Goto(t, "tryTake", "dropEngine")
          /\ ref[o]
          /\ ref' = [ref EXCEPT ![o] = FALSE]
          /\ engine' = [engine EXCEPT ![o] = "taken"]
          /\ UNCHANGED err
    /\ Leave(monitor, o)
    /\ UNCHANGED <<locals, exc, result, object, mutex>>

TryTake_FieldKept(t) ==
    LET o == obj[t] IN
    /\ \/ Fail(t, "tryTake", "NullPtr") /\ ~ref[o] /\ UNCHANGED engine
       \/ Fail(t, "tryTake", "TryLock") /\ ref[o] /\ mutex[o] # NoThread /\ UNCHANGED engine
       \/ /\ Goto(t, "tryTake", "dropEngine")
          /\ ref[o] /\ mutex[o] = NoThread
          /\ engine' = [engine EXCEPT ![o] = "taken"]
          /\ UNCHANGED err
    /\ Leave(monitor, o)
    /\ UNCHANGED <<locals, exc, result, object, ref, mutex>>

TryTake_BusyClears(t) ==
    LET o == obj[t] IN
    /\ \/ Fail(t, "tryTake", "NullPtr") /\ ~ref[o] /\ UNCHANGED <<ref, engine>>
       \/ /\ pc[t] = "tryTake"
          /\ ref[o]
          /\ ref' = [ref EXCEPT ![o] = FALSE]
          /\ engine' = [engine EXCEPT ![o] = "taken"]
          /\ IF mutex[o] # NoThread THEN Fail(t, "tryTake", "TryLock")
             ELSE Goto(t, "tryTake", "dropEngine") /\ UNCHANGED err
    /\ Leave(monitor, o)
    /\ UNCHANGED <<locals, exc, result, object, mutex>>

(* take_rust_field in the monitor: no value, a value in use, or the value    *)
(* leaves the field.                                                         *)
TryTake(t) ==
    LET o == obj[t] IN
    /\ \/ /\ Fail(t, "tryTake", "NullPtr")
          /\ ~ref[o]
          /\ UNCHANGED <<ref, engine>>
       \/ /\ Fail(t, "tryTake", "TryLock")
          /\ ref[o] /\ mutex[o] # NoThread
          /\ UNCHANGED <<ref, engine>>
       \/ /\ Goto(t, "tryTake", "dropEngine")
          /\ ref[o] /\ mutex[o] = NoThread
          /\ ref' = [ref EXCEPT ![o] = FALSE]
          /\ engine' = [engine EXCEPT ![o] = "taken"]
          /\ UNCHANGED err
    /\ Leave(monitor, o)
    /\ UNCHANGED <<locals, exc, result, object, mutex>>

DropEngine(t) ==
    /\ Goto(t, "dropEngine", "return")
    /\ engine' = [engine EXCEPT ![obj[t]] = "freed"]
    /\ UNCHANGED <<locals, err, exc, result, object, ref, monitor, mutex>>

-----------------------------------------------------------------------------
(* Faulty variant: one error class is thrown for everything. *)
Thrown_Generic(m) == "CedarlingError"

(* The exception each entry point throws for Err(_).  CEDARLING_ERROR_CLSNAME *)
(* names no class: looking it up leaves NoClassDefFoundError pending.         *)
Thrown(m) ==
    IF m = "new" THEN "CedarlingConfigurationError"
    ELSE IF m = "close" THEN "NoClassDefFoundError"
    ELSE "CedarlingAuthorizationError"

(* throw_new fails, and is ignored, when an exception is already pending. *)
Throw(t) ==
    /\ Goto(t, "throw", "return")
    /\ exc' = [exc EXCEPT ![t] = IF @ = "none" THEN Thrown(op[t]) ELSE @]
    /\ UNCHANGED <<locals, natives, err, result, monitor, mutex>>

(* Back in Java.  A constructor that throws leaves its instance unreachable. *)
Return(t) ==
    /\ Goto(t, "return", "idle")
    /\ object' = IF op[t] # "new" THEN object
                 ELSE [object EXCEPT ![obj[t]] =
                         IF exc[t] = "none" THEN "published" ELSE "failed"]
    /\ UNCHANGED <<locals, err, exc, result, ref, engine, monitor, mutex>>

-----------------------------------------------------------------------------
Invoke(t) ==
    \E o \in Objects :
        \/ CallNew(t, o)
        \/ CallClose(t, o)
        \/ \E m \in AuthorizeOps : CallAuthorize(t, m, o)

Step(t) ==
    \/ ConvertConfig(t) \/ NewEngine(t) \/ SetField(t)
    \/ ConvertRequest(t) \/ GetField(t) \/ ReadField(t) \/ LockEngine(t)
    \/ LeaveMonitor(t) \/ Authorize(t) \/ ConvertResult(t)
    \/ TakeField(t) \/ TryTake(t) \/ DropEngine(t)
    \/ Throw(t) \/ Return(t)

(* Not a deadlock: no call is in progress and no thread can make one. *)
Terminated ==
    /\ \A t \in Threads : pc[t] = "idle"
    /\ \/ \A t \in Threads : calls[t] = MaxCalls
       \/ \A o \in Objects : object[o] = "failed"
    /\ UNCHANGED vars

Next == (\E t \in Threads : Invoke(t) \/ Step(t)) \/ Terminated

(* Threads are scheduled; nobody has to make a call. *)
Fairness == \A t \in Threads : WF_vars(Step(t))

Spec == Init /\ [][Next]_vars /\ Fairness

-----------------------------------------------------------------------------
TypeOK ==
    /\ pc \in [Threads -> PCs]
    /\ op \in [Threads -> Ops \cup {"none"}]
    /\ obj \in [Threads -> Objects \cup {NoObject}]
    /\ err \in [Threads -> Errs]
    /\ exc \in [Threads -> Exceptions]
    /\ result \in [Threads -> {"null", "decision"}]
    /\ object \in [Objects -> {"unborn", "constructing", "published", "failed"}]
    /\ ref \in [Objects -> BOOLEAN]
    /\ engine \in [Objects -> {"none", "built", "live", "taken", "freed"}]
    /\ monitor \in [Objects -> Threads \cup {NoThread}]
    /\ mutex \in [Objects -> Threads \cup {NoThread}]
    /\ calls \in [Threads -> 0 .. MaxCalls]

(* From the moment an authorization has read cedarlingRef until it drops the  *)
(* guard, the engine it points to is alive: close never frees an engine that  *)
(* is in use or about to be locked (cedarling.rs:125 against :146 and :169).   *)
EngineInUseIsLive ==
    \A t \in Threads :
        pc[t] \in {"lockEngine", "leaveMonitor", "authorize"} =>
            ref[obj[t]] /\ engine[obj[t]] = "live"

(* The `&mut Cedarling' of cedarling.rs:147 is exclusive: two threads are      *)
(* never inside the same engine.                                              *)
EngineExclusive ==
    \A s, t \in Threads :
        pc[s] = "authorize" /\ pc[t] = "authorize" /\ obj[s] = obj[t] => s = t

(* However many threads close an instance, one of them takes its engine, and   *)
(* the field no longer points to it when it is dropped (cedarling.rs:125-126). *)
DroppedOnce ==
    \A s, t \in Threads :
        pc[s] = "dropEngine" =>
            /\ engine[obj[s]] = "taken" /\ ~ref[obj[s]]
            /\ pc[t] = "dropEngine" /\ obj[s] = obj[t] => s = t

(* get_rust_field waits for the engine while it holds the Java monitor         *)
(* (cedarling.rs:146).  The thread it waits for is then past the monitor and   *)
(* inside the engine, so the two locks never wait for each other.              *)
WaitsOnlyForEngine ==
    \A t \in Threads :
        pc[t] = "lockEngine" /\ mutex[obj[t]] # NoThread =>
            /\ mutex[obj[t]] # t
            /\ pc[mutex[obj[t]]] = "authorize"

(* The entry points ignore the result of throw_new (cedarling.rs:41, 57, 74    *)
(* and 86).  Even so no failure is silent: a call that ended in Err leaves an  *)
(* exception to its caller, and authorize returns null only with one.          *)
NoSilentFailure ==
    \A t \in Threads : pc[t] = "idle" =>
        /\ (err[t] # "none") <=> (exc[t] # "none")
        /\ op[t] \in AuthorizeOps => (result[t] = "null") <=> (exc[t] # "none")

(* Java code holds an instance only after its engine was stored, and an       *)
(* engine is without a reachable instance only while it is being built or     *)
(* dropped: an instance maps to one engine (overview.html, Core Concept).      *)
PublishedHadEngine ==
    \A o \in Objects :
        /\ object[o] = "published" => engine[o] \in {"live", "taken", "freed"}
        /\ object[o] \in {"unborn", "failed"} => engine[o] = "none"
        /\ ref[o] <=> engine[o] = "live"

(* Every call returns to Java: nobody waits for ever for a monitor or mutex,  *)
(* as long as the other threads make finitely many calls.                     *)
EveryCallReturns == \A t \in Threads : pc[t] # "idle" ~> pc[t] = "idle"

(* java.io.Closeable, whose contract close() inherits by {@inheritDoc}        *)
(* (Cedarling.java:45): closing a closed instance has no effect.              *)
CloseIsIdempotent ==
    \A t \in Threads :
        pc[t] = "idle" /\ op[t] = "close" /\ err[t] = "NullPtr" => exc[t] = "none"

-----------------------------------------------------------------------------
(* The inductive invariant behind these properties.                           *)

NewPCs == {"convertConfig", "newEngine", "setField"}
AuthorizePCs == {"convertRequest", "getField", "readField", "lockEngine",
                 "leaveMonitor", "authorize", "convertResult"}
ClosePCs == {"takeField", "tryTake", "dropEngine"}
HoldsMonitor == {"readField", "lockEngine", "leaveMonitor", "tryTake"}
HoldsMutex == {"leaveMonitor", "authorize"}

Calling(t, o) == pc[t] # "idle" /\ obj[t] = o

(* Who is calling what: an instance under construction has one caller. *)
CallInv ==
    /\ \A t \in Threads :
        /\ pc[t] # "idle" => op[t] \in Ops /\ obj[t] \in Objects
        /\ pc[t] \in NewPCs => op[t] = "new"
        /\ pc[t] \in AuthorizePCs => op[t] \in AuthorizeOps
        /\ pc[t] \in ClosePCs => op[t] = "close"
    /\ \A t \in Threads, o \in Objects : Calling(t, o) =>
        object[o] = IF op[t] = "new" THEN "constructing" ELSE "published"
    /\ \A s, t \in Threads, o \in Objects :
        Calling(s, o) /\ Calling(t, o) /\ op[s] = "new" => s = t

(* Each lock is held exactly in its critical section. *)
LockInv ==
    \A t \in Threads, o \in Objects :
        /\ monitor[o] = t <=> (obj[t] = o /\ pc[t] \in HoldsMonitor)
        /\ mutex[o] = t <=> (obj[t] = o /\ pc[t] \in HoldsMutex)

(* The engine of an instance follows its constructor. *)
ConstructInv ==
    \A t \in Threads, o \in Objects : Calling(t, o) /\ op[t] = "new" =>
        engine[o] = CASE pc[t] = "setField" -> "built"
                      [] pc[t] = "return" /\ err[t] = "none" -> "live"
                      [] OTHER -> "none"

(* What a call has to show for itself so far. *)
OutcomeInv ==
    \A t \in Threads :
        /\ pc[t] \notin {"throw", "return", "idle"} =>
              err[t] = "none" /\ exc[t] = "none" /\ result[t] = "null"
        /\ pc[t] = "throw" => err[t] # "none" /\ result[t] = "null"
        /\ pc[t] \in {"return", "idle"} =>
              /\ (err[t] = "none") <=> (exc[t] = "none")
              /\ op[t] \in AuthorizeOps =>
                    ((result[t] = "null") <=> (err[t] # "none"))

IInv == /\ TypeOK /\ CallInv /\ LockInv
        /\ ConstructInv /\ PublishedHadEngine
        /\ EngineInUseIsLive /\ DroppedOnce
        /\ OutcomeInv

-----------------------------------------------------------------------------
(* The refinement mapping to CedarlingService.  An authorization takes effect *)
(* when the engine answers, a close when the field is cleared.                *)

StatusOf(e) ==
    IF e = "live" THEN "open"
    ELSE IF e \in {"taken", "freed"} THEN "closed" ELSE "absent"

PhaseOf(p) ==
    IF p \in {"throw", "dropEngine", "return"} THEN "done"
    ELSE IF p = "idle" THEN "idle"
    ELSE IF p = "convertResult" THEN "decided" ELSE "called"

(* The reply of a call of m that ends with Ok, or with Err e. *)
EndOf(e, m) ==
    IF e = "none"
    THEN IF m \in AuthorizeOps THEN "decision" ELSE IF m \in Ops THEN "ok" ELSE "none"
    ELSE IF e = "NullPtr" THEN "closed" ELSE IF e = "TryLock" THEN "busy" ELSE "invalid"

ReplyOf(p, e, m) ==
    IF p \in {"throw", "dropEngine", "return", "idle"} THEN EndOf(e, m) ELSE "none"

status == [o \in Objects |-> StatusOf(engine[o])]
phase == [t \in Threads |-> PhaseOf(pc[t])]
reply == [t \in Threads |-> ReplyOf(pc[t], err[t], op[t])]

Service == INSTANCE CedarlingService WITH status <- status, phase <- phase, reply <- reply

(* Whatever threads do, an instance behaves as the atomic object of           *)
(* CedarlingService: opened once, closed at most once, authorizations decided *)
(* in between (cedarling.rs:104-175); and every call is served.               *)
ServiceSafe == Service!SafeSpec
ServiceSpec == Service!Spec
=============================================================================
