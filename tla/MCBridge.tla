----------------------------- MODULE MCBridge -----------------------------
(* Instances of Bridge for model checking. *)
EXTENDS Bridge, TLC

Answer(id, allowed, rs, es) ==
    [slots |-> [s \in {"person", "workload"} |->
                  IF s = "person" THEN NoResponse
                  ELSE [decision |-> IF allowed THEN "ALLOW" ELSE "DENY",
                        reasons |-> rs, errors |-> es]],
     requestId |-> id, decision |-> allowed]

(* A permit with its policy, and a denial with an error. *)
Allowed == Answer("q1", TRUE, {"r1"}, <<>>)
Denied  == Answer("q2", FALSE, {}, <<"e1">>)
TwoAnswers == {Allowed, Denied}

CONSTANT t1

(* Thread t1 authorizes with tokens and gets one answer, the others without   *)
(* and get the other answer: calls that overlap have answers to mix up.       *)
MCInit ==
    /\ BridgeInit
    /\ rust = [c \in Conversions |-> IF c[1] = t1 THEN Allowed ELSE Denied]

MCNext ==
    /\ BridgeNext
    /\ \A t \in Threads :
          op'[t] # IF t = t1 THEN "authorizeUnsigned" ELSE "authorize"

MCSpec == MCInit /\ [][MCNext]_bridgeVars

Symmetry == Permutations(Objects)
=============================================================================
