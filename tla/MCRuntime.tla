------------------------------ MODULE MCRuntime ------------------------------
(* Scenarios for Runtime. *)
EXTENDS Runtime

CONSTANTS f1, f2, p1, p2, api

Say(what, p) == [what |-> what, peer |-> p]
Silent == [r \in Reporters |-> <<>>]
None == [f \in Flows |-> "none"]
No == [f \in Flows |-> FALSE]

Base == [kind |-> (f1 :> "multi" @@ f2 :> "single"), workers |-> (f1 :> 2 @@ f2 :> 1),
         peers |-> [f \in Flows |-> {}], fail |-> None, pumps |-> TRUE, user |-> No,
         shared |-> No, script |-> Silent, finite |-> [f \in Flows |-> TRUE], crash |-> {},
         handle |-> [f \in Flows |-> "join"], waits |-> "no",
         after |-> [f \in Flows |-> IF f = f2 THEN {f1} ELSE {}]]

(* Local dataflows that end by themselves, fail, or are stopped.             *)
Local == <<
    [Base EXCEPT !.crash = {<<f1, 1>>}, !.finite = (f1 :> FALSE @@ f2 :> TRUE)],
    [Base EXCEPT !.pumps = FALSE, !.waits = "shutdown", !.finite = No,
                 !.handle = [f \in Flows |-> "drop"]],
    [Base EXCEPT !.workers = [f \in Flows |-> 1], !.pumps = FALSE, !.waits = "wait",
                 !.handle = [f \in Flows |-> "drop"], !.after = [f \in Flows |-> {}]],
    [Base EXCEPT !.user = [f \in Flows |-> f = f1], !.pumps = FALSE],
    [Base EXCEPT !.finite = No, !.handle = (f1 :> "cancel" @@ f2 :> "drop"), !.crash = {<<f1, 0>>}],
    [Base EXCEPT !.fail = (f1 :> "prepare" @@ f2 :> "build")],
    [Base EXCEPT !.fail = (f1 :> "wire" @@ f2 :> "prepare")],
    [Base EXCEPT !.fail = (f1 :> "pump" @@ f2 :> "pump"), !.finite = No],
    [Base EXCEPT !.kind = (f1 :> "simple" @@ f2 :> "simple"), !.fail = (f1 :> "prepare" @@ f2 :> "none"),
                 !.finite = (f1 :> FALSE @@ f2 :> TRUE)] >>

ClusterBase == [Base EXCEPT !.kind = (f1 :> "cluster" @@ f2 :> "single"),
                            !.peers = (f1 :> {p1, p2} @@ f2 :> {}), !.pumps = FALSE]

(* A phase of a cluster spawn fails. *)
Failing == {[ClusterBase EXCEPT !.fail = (f1 :> x @@ f2 :> "build"), !.shared = [f \in Flows |-> s]] :
            x \in ClusterPhases \cup {"claim", "prepare", "pumps"}, s \in BOOLEAN}

(* Nodes leave and come back while one or two cluster dataflows are spawned. *)
Leaving == <<
    [ClusterBase EXCEPT !.kind = (f1 :> "cluster" @@ f2 :> "cluster"),
        !.workers = [f \in Flows |-> 1], !.after = [f \in Flows |-> {}],
        !.handle = [f \in Flows |-> "drop"],
        !.peers = (f1 :> {p1, p2} @@ f2 :> {p2}),
        !.script = (Listener :> <<Say("down", p1), Say("up", p1)>>
                    @@ api :> <<Say("down", p2)>>)],
    [ClusterBase EXCEPT !.crash = {<<f1, 0>>}, !.fail = (f1 :> "none" @@ f2 :> "build"),
        !.handle = (f1 :> "join" @@ f2 :> "drop"), !.user = [f \in Flows |-> f = f1],
        !.script = (Listener :> <<Say("down", p2)>> @@ api :> <<>>)],
    [ClusterBase EXCEPT !.fail = (f1 :> "none" @@ f2 :> "build"), !.workers = [f \in Flows |-> 1],
        !.finite = No, !.waits = "shutdown", !.shared = [f \in Flows |-> TRUE],
        !.script = (Listener :> <<Say("down", p2), Say("up", p2)>> @@ api :> <<Say("down", p1)>>)] >>

MCPlans == ToSet(Local) \cup {q \in Failing : q.shared[f1] \/ q.fail[f1] # "claim"} \cup ToSet(Leaving)
=============================================================================
