--------------------------- MODULE SharedTransport ---------------------------
(* The pooled transport of communication/shared_transport.rs between two     *)
(* nodes, with the spawns that use it: claims on dataflow ids, lanes pinned  *)
(* to pooled connections, sequence numbers, control frames that come early   *)
(* or late, connections that fail, the handshake and the ready barrier of    *)
(* control_protocol.rs, and the flush, unregistration and release at the end.*)
(*                                                                           *)
(* A run is one spawn of a dataflow id on a node; its name stands for its    *)
(* registration token.  Connection c of one node is paired with connection c *)
(* of the other, as the ConnectionFactory must.  An operation under the      *)
(* manager's state lock is one step; the bridge, the writers and the readers *)
(* are tasks of their own.                                                   *)
EXTENDS Naturals, Sequences, FiniteSets, SequencesExt

CONSTANTS Nodes,     \* the two nodes
          Runs,      \* spawns, also their registration tokens
          Ids,       \* dataflow ids
          NoRun,     \* no registration, no claim
          MaxConns,  \* bound: connections a pool ever establishes
          WriterQueue, \* capacity of a connection's writer queue
          MaxPendingFrames, \* MAX_PENDING_FRAMES_PER_DATAFLOW
          Plans      \* the scenarios: see Init

ASSUME TwoNodes == Cardinality(Nodes) = 2

Conns == 1 .. MaxConns

VARIABLES state,  \* per node: State, what the manager's lock protects
          mgr,    \* per node: the bridge's queues, the frame in its hands
          run,    \* per run: where its spawn, and then its lifecycle, is
          link,   \* per node and connection: writer, reader, frames on the wire
          world   \* the scenario, and the environment's faults and what they touch

vars == <<state, mgr, run, link, world>>

plan == world.plan

Other(n) == CHOOSE m \in Nodes : m # n
NodeOf(r) == plan.node[r]
IdOf(r) == plan.id[r]

(* A dataflow's run on the other node; with rivals for the id, the one that  *)
(* got it.                                                                   *)
PeerOf(r) == {q \in plan.runs : IdOf(q) = IdOf(r) /\ NodeOf(q) # NodeOf(r)}

Control == {"handshake", "ready", "cancel"}

Frame(kind, r, k) == [kind |-> kind, id |-> IdOf(r), run |-> r, k |-> k, seq |-> 0]

NoRegistration == [token |-> NoRun, conn |-> 0, next_send_seq |-> 0, next_recv_seq |-> 0,
                   inbound_conn |-> 0, outbound_failed |-> FALSE, inbound_failed |-> FALSE]

Reg(n, d) == state[n].registered[d]
Registered(r) == Reg(NodeOf(r), IdOf(r)).token = r

Init ==
    /\ world \in {[plan |-> p, faults |-> p.faults, broken |-> {}, faulty |-> {}, harmed |-> {},
                   used |-> [d \in Ids |-> {}]] : p \in Plans}
    /\ state = [n \in Nodes |-> [connections |-> {}, peer_closed |-> {}, next_conn_id |-> 1,
                                 registered |-> [d \in Ids |-> NoRegistration],
                                 claims |-> [d \in Ids |-> NoRun],
                                 pending_control |-> <<>>, completed |-> {}]]
    /\ mgr = [n \in Nodes |-> [payload |-> <<>>, control |-> <<>>, hand |-> <<>>,
                               released |-> FALSE]]
    /\ run = [r \in Runs |-> [stage |-> "new", failed |-> FALSE, flush |-> "none",
                              sent |-> 0, received |-> <<>>, notices |-> {},
                              control |-> <<>>, closed |-> FALSE]]
    /\ link = [n \in Nodes |-> [c \in Conns |-> [writer |-> "none", queue |-> <<>>,
                                                 reader |-> "none", wire |-> <<>>]]]

----------------------------------------------------------------------------
(* The state under the lock. *)

Live(n) == state[n].connections \ state[n].peer_closed

Pinned(n, c) == Cardinality({d \in Ids : Reg(n, d).conn = c})

(* PendingControl: the control frames of dataflows that are not registered   *)
(* yet, with the connection each came on, a bounded number per dataflow.     *)
PendingPush(q, c, f) ==
    IF Len(SelectSeq(q, LAMBDA p : p.frame.id = f.id)) < MaxPendingFrames
    THEN Append(q, [conn |-> c, frame |-> f]) ELSE q

PendingTake(q, d) == SelectSeq(q, LAMBDA p : p.frame.id # d)

ForgetConnection(q, c) == SelectSeq(q, LAMBDA p : p.conn # c)

(* id_unavailable: registered, claimed by another token, or already ran.     *)
IdUnavailable(n, d, r) ==
    \/ Reg(n, d).token # NoRun
    \/ state[n].claims[d] \notin {NoRun, r}
    \/ d \in state[n].completed

(* fail_outbound: every lane pinned to c fails and is told, c leaves the     *)
(* pool.                                                                     *)
FailOutbound(n, c) ==
    LET S == state[n]
        hit == {d \in Ids : S.registered[d].conn = c /\ ~S.registered[d].outbound_failed}
        told == {S.registered[d].token : d \in hit}
    IN /\ state' = [state EXCEPT
             ![n].connections = S.connections \ {c},
             ![n].peer_closed = S.peer_closed \ {c},
             ![n].registered = [d \in Ids |->
                 [S.registered[d] EXCEPT !.outbound_failed = @ \/ d \in hit]]]
       /\ run' = [r \in Runs |->
             [run[r] EXCEPT !.notices = @ \cup IF r \in told THEN {"WriteFailed"} ELSE {}]]

(* Faulty variant: the end of a connection fails all that ever received.     *)
FailInboundAll(n, c, clean) ==
    LET S == state[n]
        all == {d \in Ids : S.registered[d].inbound_conn # 0 /\ ~S.registered[d].inbound_failed}
        told == {S.registered[d].token : d \in all}
    IN /\ state' = [state EXCEPT
             ![n].connections = @ \ {c},
             ![n].registered = [d \in Ids |->
                 [S.registered[d] EXCEPT !.inbound_failed = @ \/ d \in all]]]
       /\ run' = [r \in Runs |->
             IF r \in told
             THEN [run[r] EXCEPT !.notices = @ \cup {"ReadFailed"}, !.closed = TRUE]
             ELSE run[r]]

(* fail_inbound: every dataflow whose frames arrive on c fails.  A clean end *)
(* leaves the lanes pinned to c writing; any other end fails them too.       *)
FailInbound(n, c, clean) ==
    LET S == state[n]
        keep == clean /\ c \in S.connections /\ Pinned(n, c) > 0
        inbound == {d \in Ids : S.registered[d].inbound_conn = c /\ ~S.registered[d].inbound_failed}
        outbound == {d \in Ids : /\ S.registered[d].conn = c
                                 /\ ~S.registered[d].outbound_failed
                                 /\ ~(clean /\ d \in inbound)}
        Tokens(ds) == {S.registered[d].token : d \in ds}
    IN /\ state' = [state EXCEPT
             ![n].connections = IF keep THEN S.connections ELSE S.connections \ {c},
             ![n].peer_closed = IF keep THEN S.peer_closed \cup {c} ELSE S.peer_closed \ {c},
             ![n].pending_control = ForgetConnection(@, c),
             ![n].registered = [d \in Ids |->
                 [S.registered[d] EXCEPT
                     !.inbound_failed = @ \/ d \in inbound,
                     !.outbound_failed = @ \/ (~clean /\ d \in outbound)]]]
       /\ run' = [r \in Runs |->
             [run[r] EXCEPT
                 !.notices = @ \cup (IF r \in Tokens(inbound)
                                     THEN {IF clean THEN "Closed" ELSE "ReadFailed"} ELSE {})
                               \cup (IF r \in Tokens(outbound)
                                     THEN {IF clean THEN "Closed" ELSE "WriteFailed"} ELSE {}),
                 !.closed = @ \/ r \in Tokens(inbound)]]

(* unregister with a token: another registration of the id is left alone.    *)
UnregisterState(r) ==
    LET n == NodeOf(r)
        d == IdOf(r)
        S == state[n]
        c == S.registered[d].conn
        last == c \in S.peer_closed /\ Pinned(n, c) = 1
    IN IF ~Registered(r) THEN state
       ELSE [state EXCEPT
               ![n].registered[d] = NoRegistration,
               ![n].connections = IF last THEN @ \ {c} ELSE @,
               ![n].peer_closed = IF last THEN @ \ {c} ELSE @,
               ![n].completed = @ \cup {d},
               ![n].pending_control = PendingTake(@, d)]

----------------------------------------------------------------------------
(* Spawning. *)

Goto(r, s) == [run EXCEPT ![r].stage = s]

Spawning == {"new", "claimed", "connecting", "connected", "handshake", "barrier"}

(* spawn_cluster claims the id; a spawn that is refused sends nothing.       *)
Claim(r) ==
    LET n == NodeOf(r) IN
    /\ r \in plan.runs /\ run[r].stage = "new"
    /\ \A q \in plan.after[r] : run[q].stage \notin Spawning
    /\ IF IdUnavailable(n, IdOf(r), r)
       THEN run' = Goto(r, "refused") /\ UNCHANGED state
       ELSE /\ run' = Goto(r, "claimed")
            /\ state' = [state EXCEPT ![n].claims[IdOf(r)] = r]
    /\ UNCHANGED <<mgr, link, world>>

(* The spawn fails before it is registered: the abort guard retires its      *)
(* claim at once and will tell the peer.                                     *)
RetireClaim(r) ==
    LET n == NodeOf(r) d == IdOf(r) IN
    /\ run' = [run EXCEPT ![r].stage = "untold", ![r].failed = TRUE]
    /\ state' = [state EXCEPT
          ![n].claims[d] = NoRun,
          ![n].completed = @ \cup {d},
          ![n].pending_control = PendingTake(@, d)]
    /\ world' = [world EXCEPT !.harmed = @ \cup {d}]

SpawnFails(r) ==
    /\ run[r].stage = "claimed"
    /\ r \in plan.fails
    /\ RetireClaim(r)
    /\ UNCHANGED <<mgr, link>>

(* register checks the id, here and before it pins (the claim makes sure of  *)
(* it), and fills the pool outside the lock.                                 *)
Register(r) ==
    /\ run[r].stage = "claimed"
    /\ r \notin plan.fails
    /\ ~IdUnavailable(NodeOf(r), IdOf(r), r)
    /\ run' = Goto(r, "connecting")
    /\ UNCHANGED <<state, mgr, link, world>>

(* Runs of n that wait in ensure_connections. *)
Connecting(n) == {r \in plan.runs : NodeOf(r) = n /\ run[r].stage \in {"connecting", "untold"}}

(* One turn of ensure_connections: add_connection starts writer and reader.  *)
Establish(n) ==
    LET c == state[n].next_conn_id IN
    /\ Connecting(n) # {}
    /\ Cardinality(Live(n)) < plan.connections
    /\ c <= MaxConns
    /\ state' = [state EXCEPT ![n].connections = @ \cup {c}, ![n].next_conn_id = c + 1]
    /\ link' = [link EXCEPT ![n][c].writer = "open", ![n][c].reader = "open"]
    /\ UNCHANGED <<mgr, run, world>>

(* The pool is full: ensure_connections returns. *)
Connected(r) ==
    /\ run[r].stage = "connecting"
    /\ Cardinality(Live(NodeOf(r))) >= plan.connections
    /\ run' = Goto(r, "connected")
    /\ UNCHANGED <<state, mgr, link, world>>

(* The lane is pinned to the connection with the fewest lanes.               *)
Choice(n) ==
    CHOOSE c \in Live(n) : \A o \in Live(n) :
        Pinned(n, c) < Pinned(n, o) \/ (Pinned(n, c) = Pinned(n, o) /\ c <= o)

(* register, after ensure_connections: control frames that came early are    *)
(* delivered and the claim becomes the registration; the spawn then sends    *)
(* its handshake.                                                            *)
Pin(r) ==
    LET n == NodeOf(r)
        d == IdOf(r)
        c == Choice(n)
        early == SelectSeq(state[n].pending_control, LAMBDA p : p.frame.id = d)
        first == IF early = <<>> THEN 0 ELSE early[1].conn
    IN /\ run[r].stage = "connected" /\ Live(n) # {}
       /\ ~IdUnavailable(n, d, r)
       /\ state' = [state EXCEPT
             ![n].registered[d] = [NoRegistration EXCEPT
                 !.token = r, !.conn = c, !.inbound_conn = first],
             ![n].claims[d] = NoRun,
             ![n].pending_control = PendingTake(@, d)]
       /\ run' = [run EXCEPT
             ![r].stage = "handshake",
             ![r].control = [i \in 1 .. Len(early) |-> early[i].frame.kind]]
       /\ mgr' = [mgr EXCEPT ![n].control = Append(@, Frame("handshake", r, 0))]
       /\ world' = [world EXCEPT !.used[d] = @ \cup ({c, first} \ {0})]
       /\ UNCHANGED link

(* No connection survived until then.                                        *)
PinFails(r) ==
    /\ run[r].stage = "connected" /\ Live(NodeOf(r)) = {}
    /\ RetireClaim(r)
    /\ UNCHANGED <<mgr, link>>

(* The factory fails, or takes too long.                                     *)
DialFault(n) == "dial" \in world.faults /\ Cardinality(Live(n)) < plan.connections

DialFails(r) ==
    /\ run[r].stage = "connecting"
    /\ DialFault(NodeOf(r))
    /\ RetireClaim(r)
    /\ UNCHANGED <<mgr, link>>

(* SpawnAbortGuard's task: Cancel on the control queue, then a flush.        *)
(* Before registration it first tries to fill the pool                       *)
(* (send_control_connected).                                                 *)
Tell(r) ==
    LET n == NodeOf(r) IN
    /\ \/ run[r].stage = "untold" /\ (Cardinality(Live(n)) >= plan.connections \/ DialFault(n))
       \/ run[r].stage = "aborting" /\ run[r].flush = "none"
    /\ mgr' = [mgr EXCEPT ![n].control = Append(@, Frame("cancel", r, 0)),
                          ![n].payload = Append(@, Frame("barrier", r, 0))]
    /\ run' = [run EXCEPT ![r].stage = "aborting", ![r].flush = "queued"]
    /\ UNCHANGED <<state, link, world>>

(* SharedRegistrationCleanup's task, at any time after the spawn failed.     *)
Cleanup(r) ==
    /\ run[r].stage = "aborting"
    /\ Registered(r)
    /\ state' = UnregisterState(r)
    /\ UNCHANGED <<mgr, run, link, world>>

----------------------------------------------------------------------------
(* Handshake and ready barrier. *)

Abort(r) == [run EXCEPT ![r].stage = "aborting", ![r].failed = TRUE]

(* The peers agree on version, fingerprint and names: only the kind counts.  *)
ValidateHandshake(kind) == kind = "handshake"

ValidateReady(kind) == kind = "ready"

(* receive_from_each_peer in the handshake; the spawn then announces that it *)
(* is ready.                                                                 *)
TakeHandshake(r) ==
    LET q == run[r].control IN
    /\ run[r].stage = "handshake"
    /\ q # <<>> \/ run[r].closed
    /\ IF q # <<>> /\ ValidateHandshake(Head(q))
       THEN /\ run' = [run EXCEPT ![r].stage = "barrier", ![r].control = Tail(q)]
            /\ mgr' = [mgr EXCEPT ![NodeOf(r)].control = Append(@, Frame("ready", r, 0))]
       ELSE run' = Abort(r) /\ UNCHANGED mgr
    /\ UNCHANGED <<state, link, world>>

(* receive_from_each_peer in the ready barrier: a Cancel, or the end of the  *)
(* channel, already queued behind the peer's Ready is applied.               *)
TakeReady(r) ==
    LET q == run[r].control IN
    /\ run[r].stage = "barrier"
    /\ q # <<>> \/ run[r].closed
    /\ run' = IF /\ q # <<>> /\ ValidateReady(Head(q))
                 /\ \A i \in 2 .. Len(q) : q[i] # "cancel"
                 /\ ~run[r].closed
              THEN [run EXCEPT ![r].stage = "running", ![r].control = <<>>]
              ELSE Abort(r)
    /\ UNCHANGED <<state, mgr, link, world>>

(* Frames of d that node n is about to send, or that the peer will read.     *)
OnTheWay(n, d) ==
    \/ \E f \in ToSet(mgr[n].control) : f.id = d
    \/ mgr[n].hand # <<>> /\ mgr[n].hand[1].frame.id = d
    \/ \E c \in Conns : \E f \in ToSet(link[n][c].queue) : f.id = d
    \/ \E c \in Conns : /\ link[Other(n)][c].reader = "open"
                        /\ \E f \in ToSet(link[n][c].wire) : f.id = d

Waiting(r) ==
    /\ run[r].stage \in {"handshake", "barrier"}
    /\ run[r].control = <<>> /\ ~run[r].closed
    /\ ~OnTheWay(Other(NodeOf(r)), IdOf(r))

(* The handshake timeout, where nothing else is going to end the wait.       *)
TimesOut(r) ==
    /\ Waiting(r)
    /\ \A q \in PeerOf(r) : run[q].stage = "refused" \/ run[q].flush # "none" \/ Waiting(q)
    /\ run' = Abort(r)
    /\ UNCHANGED <<state, mgr, link, world>>

----------------------------------------------------------------------------
(* A running dataflow, as far as its transport sees it. *)

Complete(r) == \A q \in PeerOf(r) : Len(run[r].received) >= plan.sends[q]

(* DataframeSender: the entry carries the registration's token.              *)
Send(r) ==
    LET n == NodeOf(r) k == run[r].sent + 1 IN
    /\ run[r].stage = "running"
    /\ k <= plan.sends[r]
    /\ run' = [run EXCEPT ![r].sent = k]
    /\ mgr' = [mgr EXCEPT ![n].payload = Append(@, Frame("data", r, k))]
    /\ UNCHANGED <<state, link, world>>

(* A graceful teardown begins with a flush; one after a failure does not,    *)
(* and a failure that the peer does not know of is first announced.          *)
Stop(r, failed, announce) ==
    LET n == NodeOf(r) IN
    /\ run' = [run EXCEPT ![r].stage = "stopping", ![r].failed = failed,
                          ![r].flush = IF failed THEN "done" ELSE "queued"]
    /\ mgr' = [mgr EXCEPT
          ![n].control = IF announce THEN Append(@, Frame("cancel", r, 0)) ELSE @,
          ![n].payload = IF failed THEN @ ELSE Append(@, Frame("barrier", r, 0))]
    /\ UNCHANGED <<state, link, world>>

Ended(r) ==
    \/ run[r].stage = "refused"
    \/ run[r].flush = "done" /\ ~Registered(r)

Finish(r) ==
    /\ run[r].stage = "running"
    /\ run[r].sent = plan.sends[r]
    /\ Complete(r)
    /\ \A q \in plan.runs : r \in plan.after[q] => Ended(q)
    /\ Stop(r, FALSE, FALSE)

PeerCancels(r) ==
    /\ run[r].stage = "running"
    /\ "cancel" \in ToSet(run[r].control)
    /\ Stop(r, TRUE, FALSE)

(* A connection event; the peer may close its side once it has sent all.     *)
Notified(r) ==
    /\ run[r].stage = "running"
    /\ \E e \in run[r].notices :
          IF e = "Closed" /\ Complete(r)
          THEN /\ run' = [run EXCEPT ![r].notices = @ \ {e}]
               /\ UNCHANGED <<state, mgr, link, world>>
          ELSE Stop(r, TRUE, TRUE)

(* Faulty variant: the registration goes while its last frames are queued.   *)
UnregisterUnflushed(r) ==
    /\ run[r].stage = "stopping"
    /\ Registered(r)
    /\ state' = UnregisterState(r)
    /\ UNCHANGED <<mgr, run, link, world>>

Unregister(r) ==
    /\ run[r].stage = "stopping"
    /\ run[r].flush = "done"
    /\ Registered(r)
    /\ state' = UnregisterState(r)
    /\ UNCHANGED <<mgr, run, link, world>>

(* release_managers, by the last holder of per-job managers: after a flush   *)
(* the writer queues are closed; the readers go on (linger).                 *)
Release(n) ==
    /\ plan.per_job
    /\ ~mgr[n].released
    /\ \A r \in plan.runs : NodeOf(r) = n => Ended(r)
    /\ mgr[n].control = <<>> /\ mgr[n].payload = <<>> /\ mgr[n].hand = <<>>
    /\ mgr' = [mgr EXCEPT ![n].released = TRUE]
    /\ state' = [state EXCEPT ![n].connections = {}, ![n].peer_closed = {}]
    /\ UNCHANGED <<run, link, world>>

----------------------------------------------------------------------------
(* The bridge task. *)

(* send_control: the pinned connection, or any for a dataflow that is not    *)
(* registered here.                                                          *)
ControlTarget(n, d) ==
    LET g == Reg(n, d) IN
    IF g.token # NoRun
    THEN {g.conn} \cap (IF g.outbound_failed THEN {} ELSE state[n].connections)
    ELSE {c \in Live(n) : \A o \in Live(n) : c <= o}

BridgeControl(n) ==
    LET f == Head(mgr[n].control) IN
    /\ mgr[n].hand = <<>> /\ mgr[n].control # <<>>
    /\ mgr' = [mgr EXCEPT
          ![n].control = Tail(@),
          ![n].hand = SetToSeq({[conn |-> c, frame |-> f] : c \in ControlTarget(n, f.id)})]
    /\ UNCHANGED <<state, run, link, world>>

(* A flush barrier: everything queued before it was processed.               *)
BridgeBarrier(n) ==
    LET f == Head(mgr[n].payload) IN
    /\ mgr[n].hand = <<>> /\ mgr[n].control = <<>> /\ mgr[n].payload # <<>>
    /\ f.kind = "barrier"
    /\ mgr' = [mgr EXCEPT ![n].payload = Tail(@)]
    /\ run' = [run EXCEPT ![f.run].flush = "done"]
    /\ UNCHANGED <<state, link, world>>

(* send_payload: a sequence number is taken under the lock.                  *)
BridgePayload(n) ==
    LET f == Head(mgr[n].payload)
        g == Reg(n, f.id)
        mine == g.token = f.run /\ ~g.outbound_failed
        goes == mine /\ g.conn \in state[n].connections
    IN /\ mgr[n].hand = <<>> /\ mgr[n].control = <<>> /\ mgr[n].payload # <<>>
       /\ f.kind = "data"
       /\ mgr' = [mgr EXCEPT
             ![n].payload = Tail(@),
             ![n].hand = IF goes
                         THEN <<[conn |-> g.conn, frame |-> [f EXCEPT !.seq = g.next_send_seq]]>>
                         ELSE <<>>]
       /\ state' = [state EXCEPT
             ![n].registered[f.id].next_send_seq = IF goes THEN @ + 1 ELSE @,
             ![n].registered[f.id].outbound_failed = @ \/ (mine /\ ~goes)]
       /\ run' = [run EXCEPT ![f.run].notices =
             IF mine /\ ~goes THEN @ \cup {"WriteFailed"} ELSE @]
       /\ UNCHANGED <<link, world>>

(* The await on the writer's queue; the writer may have stopped meanwhile.   *)
BridgePut(n) ==
    /\ mgr[n].hand # <<>>
    /\ LET c == mgr[n].hand[1].conn IN
       /\ mgr' = [mgr EXCEPT ![n].hand = <<>>]
       /\ IF link[n][c].writer = "open"
          THEN /\ Len(link[n][c].queue) < WriterQueue
               /\ link' = [link EXCEPT ![n][c].queue = Append(@, mgr[n].hand[1].frame)]
               /\ UNCHANGED <<state, run>>
          ELSE FailOutbound(n, c) /\ UNCHANGED link
    /\ UNCHANGED world

----------------------------------------------------------------------------
(* writer_task and reader_task of connection c. *)

(* Both halves of n's end are gone. *)
Gone(n, c) == link[n][c].writer \in {"ended", "failed"} /\ link[n][c].reader = "ended"

Write(n, c) ==
    /\ link[n][c].writer = "open" /\ link[n][c].queue # <<>>
    /\ c \notin world.broken
    /\ link' = [link EXCEPT ![n][c].queue = Tail(@),
                            ![n][c].wire = Append(@, Head(link[n][c].queue))]
    /\ UNCHANGED <<state, mgr, run, world>>

(* A write error: the lanes fail, then the reader is told to stop.           *)
WriterFails(n, c) ==
    /\ link' = [link EXCEPT ![n][c].writer = "failed", ![n][c].queue = <<>>]
    /\ FailOutbound(n, c)
    /\ UNCHANGED mgr

WriteFails(n, c) ==
    /\ link[n][c].writer = "open" /\ link[n][c].queue # <<>>
    /\ c \in world.broken \/ Gone(Other(n), c)
    /\ WriterFails(n, c)
    /\ UNCHANGED world

(* Every sender of the queue is gone: shutdown tells the peer.               *)
WriterEnds(n, c) ==
    /\ link[n][c].writer = "open" /\ link[n][c].queue = <<>>
    /\ c \notin state[n].connections
    /\ mgr[n].hand # <<>> => mgr[n].hand[1].conn # c
    /\ link' = [link EXCEPT ![n][c].writer = "ended"]
    /\ UNCHANGED <<state, mgr, run, world>>

(* Faulty variant: the sequence number is not looked at.                     *)
CheckConnection(g, lane, c, f) == lane = c

(* The frame is on the connection of the first one, and next in sequence.    *)
CheckLane(g, lane, c, f) == lane = c /\ f.seq = g.next_recv_seq

(* on_frame: what a frame of a dataflow does. *)
OnFrame(n, c, f) ==
    LET d == f.id
        g == Reg(n, d)
        r == g.token
        lane == IF g.inbound_conn = 0 THEN c ELSE g.inbound_conn
        valid == CheckLane(g, lane, c, f)
    IN CASE r = NoRun ->
              /\ state' = [state EXCEPT ![n].pending_control =
                    IF f.kind \in Control /\ d \notin state[n].completed
                    THEN PendingPush(@, c, f) ELSE @]
              /\ UNCHANGED run
         [] r # NoRun /\ g.inbound_failed -> UNCHANGED <<state, run>>
         [] r # NoRun /\ ~g.inbound_failed /\ f.kind \in Control ->
              /\ state' = [state EXCEPT ![n].registered[d].inbound_conn = lane]
              /\ run' = [run EXCEPT ![r].control = Append(@, f.kind)]
         [] r # NoRun /\ ~g.inbound_failed /\ f.kind = "data" ->
              /\ state' = [state EXCEPT ![n].registered[d] =
                    [g EXCEPT !.inbound_conn = lane,
                              !.next_recv_seq = IF valid THEN @ + 1 ELSE @,
                              !.inbound_failed = ~valid]]
              /\ run' = IF valid
                        THEN [run EXCEPT ![r].received = Append(@, <<f.run, f.k>>)]
                        ELSE [run EXCEPT ![r].notices = @ \cup {"ReadFailed"},
                                         ![r].closed = TRUE]

Read(n, c) ==
    LET m == Other(n) f == Head(link[m][c].wire) IN
    /\ link[n][c].reader = "open" /\ link[m][c].wire # <<>>
    /\ link' = [link EXCEPT ![m][c].wire = Tail(@)]
    /\ OnFrame(n, c, f)
    /\ world' = [world EXCEPT !.used[f.id] = @ \cup {c}]
    /\ UNCHANGED mgr

ReaderEnds(n, c, clean) ==
    /\ link' = [link EXCEPT ![n][c].reader = "ended"]
    /\ FailInbound(n, c, clean)
    /\ UNCHANGED mgr

(* The end of the stream at a frame boundary.                                *)
ReadsEnd(n, c) ==
    LET m == Other(n) IN
    /\ link[n][c].reader = "open" /\ link[m][c].wire = <<>>
    /\ link[m][c].writer = "ended" \/ Gone(m, c)
    /\ ReaderEnds(n, c, TRUE)
    /\ UNCHANGED world

(* An error: the connection broke, the peer's end went in the middle of a    *)
(* frame, or it closed a socket with unread frames of ours and was reset;    *)
(* what was still to be read is lost.                                        *)
ReadError(n, c) ==
    LET m == Other(n) IN
    /\ link[n][c].reader = "open"
    /\ \/ c \in world.broken
       \/ Gone(m, c) /\ (link[m][c].writer = "failed" \/ link[n][c].wire # <<>>)
    /\ ReaderEnds(n, c, FALSE)
    /\ UNCHANGED world

(* The writer failed and sends close.                                        *)
ReaderCut(n, c) ==
    /\ link[n][c].reader = "open" /\ link[n][c].writer = "failed"
    /\ ReaderEnds(n, c, FALSE)
    /\ UNCHANGED world

----------------------------------------------------------------------------
(* Faults: a write or a read that fails on one side, a connection that       *)
(* breaks, frames that are duplicated or swapped (against the factory's      *)
(* contract), each at most once; and dials that fail.  With a resident       *)
(* dataflow, a fault comes once the others have begun.                       *)

Fault(kind) ==
    /\ kind \in world.faults
    /\ \A r \in plan.runs : plan.after[r] # {} => run[r].stage # "new"

Spoil(c) == world' = [world EXCEPT !.faults = {}, !.faulty = @ \cup {c}]

WriteFault(n, c) ==
    /\ Fault("write") /\ n \in plan.at
    /\ link[n][c].writer = "open" /\ link[n][c].queue # <<>>
    /\ WriterFails(n, c)
    /\ Spoil(c)

ReadFault(n, c) ==
    /\ Fault("read") /\ n \in plan.at
    /\ link[n][c].reader = "open"
    /\ ReaderEnds(n, c, FALSE)
    /\ Spoil(c)

Break(c) ==
    /\ Fault("break")
    /\ \E n \in Nodes : link[n][c].writer = "open"
    /\ world' = [world EXCEPT !.faults = {}, !.faulty = @ \cup {c}, !.broken = @ \cup {c}]
    /\ UNCHANGED <<state, mgr, run, link>>

Tamper(n, c) ==
    LET w == link[n][c].wire IN
    /\ Fault("tamper")
    /\ w # <<>> /\ w[1].kind = "data"
    /\ world' = [world EXCEPT !.faults = {}, !.harmed = @ \cup {w[1].id}]
    /\ \/ link' = [link EXCEPT ![n][c].wire = <<w[1]>> \o w]
       \/ /\ Len(w) > 1 /\ w[2].kind = "data" /\ w[2].id = w[1].id
          /\ link' = [link EXCEPT ![n][c].wire = <<w[2], w[1]>> \o SubSeq(w, 3, Len(w))]
    /\ UNCHANGED <<state, mgr, run>>

----------------------------------------------------------------------------
RunStep(r) ==
    \/ Claim(r) \/ SpawnFails(r) \/ Register(r) \/ Connected(r) \/ Pin(r) \/ PinFails(r) \/ Tell(r)
    \/ TakeHandshake(r) \/ TakeReady(r) \/ TimesOut(r)
    \/ Send(r) \/ Finish(r) \/ PeerCancels(r) \/ Notified(r) \/ Unregister(r)

BridgeStep(n) == BridgeControl(n) \/ BridgeBarrier(n) \/ BridgePayload(n) \/ BridgePut(n)

WriterStep(n, c) == Write(n, c) \/ WriteFails(n, c) \/ WriterEnds(n, c)

ReaderStep(n, c) == Read(n, c) \/ ReadsEnd(n, c) \/ ReadError(n, c) \/ ReaderCut(n, c)

Faults ==
    \/ \E r \in Runs : DialFails(r)
    \/ \E n \in Nodes, c \in Conns : WriteFault(n, c) \/ ReadFault(n, c) \/ Tamper(n, c)
    \/ \E c \in Conns : Break(c)

Next ==
    \/ \E r \in Runs : RunStep(r) \/ Cleanup(r)
    \/ \E n \in Nodes : Establish(n) \/ BridgeStep(n) \/ Release(n)
    \/ \E n \in Nodes, c \in Conns : WriterStep(n, c) \/ ReaderStep(n, c)
    \/ Faults

(* Tasks of the tokio runtime are scheduled fairly, timers fire, and the     *)
(* factory connects.                                                         *)
LiveSpec ==
    /\ Init /\ [][Next]_vars
    /\ \A r \in Runs : WF_vars(RunStep(r)) /\ WF_vars(Cleanup(r))
    /\ \A n \in Nodes : /\ WF_vars(Establish(n))
                        /\ WF_vars(BridgeStep(n))
                        /\ WF_vars(Release(n))
                        /\ \A c \in Conns : /\ WF_vars(WriterStep(n, c))
                                            /\ WF_vars(ReaderStep(n, c))

----------------------------------------------------------------------------
(* What a run received is a prefix of what one run of its own dataflow on    *)
(* the peer sent, whatever happened to connections, registrations and        *)
(* frames: check_lane and the registration tokens let nothing else pass.     *)
LaneIsFaithful ==
    \A r \in plan.runs : \A i \in 1 .. Len(run[r].received) :
        LET first == run[r].received[1][1] IN
        first \in PeerOf(r) /\ run[r].received[i] = <<first, i>>

(* A run fails only if something it depends on did: a connection that its    *)
(* dataflow uses on either node, or the replacement of one (which the peer   *)
(* may not have established), its own frames, or its spawn on the other      *)
(* node.  Other dataflows in the pool, refused rivals for the id and the     *)
(* orderly end and release of the peer never fail it.                        *)
BystandersUnharmed ==
    \A r \in plan.runs : run[r].failed =>
        \/ IdOf(r) \in world.harmed
        \/ \E c \in world.used[IdOf(r)] : c \in world.faulty \/ c > plan.connections

(* Whatever fails, every spawn is refused, finishes or is told so, and has   *)
(* left the pool in the end: no loss leaves it waiting for ever.             *)
EveryRunEnds == <>(\A r \in plan.runs : Ended(r))

=============================================================================
