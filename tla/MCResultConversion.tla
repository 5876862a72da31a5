------------------------- MODULE MCResultConversion -------------------------
(* Instances of ResultConversion for model checking. *)
EXTENDS ResultConversion

CONSTANTS p1, p2

Response(d, rs, es) == [decision |-> d, reasons |-> rs, errors |-> es]

Allow == Response("ALLOW", {"r1", "r2"}, <<>>)
Deny  == Response("DENY", {}, <<"e1", "e2">>)
Mixed == Response("DENY", {"r1"}, <<"e1">>)

Result(person, workload, named, id, d) ==
    [slots |-> [s \in {"person", "workload"} \cup DOMAIN named |->
                  CASE s = "person" -> person
                    [] s = "workload" -> workload
                    [] OTHER -> named[s]],
     requestId |-> id, decision |-> d]

(* A signed result with a person and a workload, an unsigned one with its    *)
(* principals, and a denied one.                                             *)
AllResults ==
    {Result(Allow, Mixed, <<>>, "q1", TRUE),
     Result(NoResponse, NoResponse, [p \in {p1, p2} |-> IF p = p1 THEN Allow ELSE Deny],
            "q2", TRUE),
     Result(NoResponse, Mixed, <<>>, "q3", FALSE)}
=============================================================================
