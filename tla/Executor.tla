------------------------------ MODULE Executor ------------------------------
(***************************************************************************)
(* ExecutorState (core/common_runtime/executor.cc): one run of a dataflow  *)
(* graph with conditionals (Switch, Merge) and loops (Enter, Exit,         *)
(* NextIteration), by the threads of a pool.                               *)
(*                                                                         *)
(* A node runs at most once per iteration of a frame, when its inputs have *)
(* arrived; a "dead" node only passes its deadness on.  A frame keeps its  *)
(* iterations in a circular buffer, and iterations and frames are deleted  *)
(* as soon as they are done.                                               *)
(*                                                                         *)
(* The unit of work is a TaggedNode, and a thread that works on one takes  *)
(* the locks of frames one after the other: every critical section is one  *)
(* action, applied to a tagged node in "scheduled" (handed to the pool, or *)
(* to the inline_ready of some thread: the model lets any thread take it   *)
(* at any time) or in "active" (between two critical sections).            *)
(*                                                                         *)
(* A tensor is reduced to whether it exists (Entry::has_value).  Transfer  *)
(* nodes (Send and Recv) and edges to the sink are not modelled.           *)
(*                                                                         *)
(* A definition Op_Variant is a faulty form of Op that shows that the      *)
(* properties notice the slip; it is no part of the specification.         *)
(***************************************************************************)
EXTENDS Integers, Sequences, FiniteSets, SequencesExt

CONSTANTS
    Graph,      \* the graphs, each with nodes and frames of its own
    GraphOf,    \* the graph of a node
    Node,       \* the nodes of the graphs
    Kind,       \* op, switch, merge, enter, const_enter, exit, next or trigger
    FrameName,  \* the frame a node is in ("" for the root frame)
    Enters,     \* the frame an Enter node enters
    Out,        \* the out edges of a node, [dst, slot, in], slot -1 for control
    Parallel,   \* max_parallel_iterations of each frame
    MayFail,    \* the nodes whose kernel may return an error
    MaxTrip     \* bound, for each graph: the predicate of a loop is true so often

Names == {FrameName[n] : n \in Node} \cup {"" }
IsEnter(n) == Kind[n] \in {"enter", "const_enter"}
kControlSlot == -1

EdgesTo(d) ==
    UNION {{<<n, j>> : j \in {x \in 1..Len(Out[n]) : Out[n][x].dst = d}} : n \in Node}
ControlEdgesTo(d) == {e \in EdgesTo(d) : Out[e[1]][e[2]].slot = kControlSlot}

ASSUME GraphAssumption ==
    /\ GraphOf \in [Node -> Graph]
    /\ MaxTrip \in [Graph -> Nat]
    /\ MayFail \subseteq Node
    /\ \A f \in Names : Parallel[f] \in Nat \ {0}
    /\ \A g \in Graph : \E n \in Node : GraphOf[n] = g /\ EdgesTo(n) = {}
    /\ \A n \in Node : \A j \in 1..Len(Out[n]) : GraphOf[Out[n][j].dst] = GraphOf[n]
    /\ \A n \in Node : EdgesTo(n) = {} => FrameName[n] = "" /\ ~IsEnter(n)

\* num_inputs, the initial pending counts and the number of Enter nodes per
\* frame, computed once per graph.
NumInputs == [d \in Node |-> Cardinality(EdgesTo(d) \ ControlEdgesTo(d))]
InitialPending ==
    [d \in Node |-> IF Kind[d] = "merge" THEN 1 + 2 * Cardinality(ControlEdgesTo(d))
                                         ELSE Cardinality(EdgesTo(d))]
NodesOf    == [g \in Graph |-> [f \in Names |-> {n \in Node : GraphOf[n] = g /\ FrameName[n] = f}]]
InputCount == [f \in Names |-> Cardinality({n \in Node : IsEnter(n) /\ Enters[n] = f})]
RootNodes  == [g \in Graph |-> {n \in Node : GraphOf[n] = g /\ EdgesTo(n) = {}}]

\* An instance of a frame is named by the path of <<iteration, frame name>>
\* that leads to it (MakeFrameName).
Root      == <<>>
NameOf(f) == IF f = Root THEN "" ELSE f[Len(f)][2]
Parent(f) == SubSeq(f, 1, Len(f) - 1)
ParentIter(f) == f[Len(f)][1]

VARIABLES
    frames,     \* outstanding_frames_: the FrameState of each live frame
    scheduled,  \* tagged nodes waiting for a thread
    active,     \* tagged nodes between two critical sections of a thread
    num_outstanding_ops,
    status,     \* status_
    finished,   \* how often Finish has run
    graph,      \* input: the graph that is run
    trip,       \* input: how often the loop predicate is true
    fired,      \* history: <<node, frame, iteration>> that became ready
    refired,    \* history: those that became ready once more
    failed      \* history: those that ended with an error

vars == <<frames, scheduled, active, num_outstanding_ops, status, finished,
          graph, trip, fired, refired, failed>>

Tagged(n, f, i, d) == [node |-> n, frame |-> f, iter |-> i, dead |-> d]

(***************************************************************************)
(* IterationState and FrameState.                                          *)
(***************************************************************************)
NoIteration == [id |-> -1]
NewIteration(name, i) ==
    [id |-> i,
     pending |-> [d \in NodesOf[graph][name] |-> InitialPending[d]],
     dead |-> [d \in NodesOf[graph][name] |-> 0],
     inputs |-> [d \in NodesOf[graph][name] |-> {}],
     outstanding_ops |-> 0, outstanding_frame_count |-> 0]

\* The root frame has as many slots as parallel iterations, others one more.
Slots(name) == IF name = "" THEN Parallel[name] ELSE Parallel[name] + 1
NewFrame(name) ==
    [num_pending_inputs |-> InputCount[name],
     iteration_count |-> 0,
     num_outstanding_iterations |-> 1,
     iterations |-> [s \in 0..Slots(name) - 1 |->
                        IF s = 0 THEN NewIteration(name, 0) ELSE NoIteration],
     next_iter_roots |-> <<>>, inv_values |-> <<>>, dead_exits |-> <<>>]

NumSlots(F) == Cardinality(DOMAIN F.iterations)
GetIteration(F, i) == F.iterations[i % NumSlots(F)]
SetIteration(F, i, it) == [F EXCEPT !.iterations[i % NumSlots(F)] = it]

(***************************************************************************)
(* ActivateNodes.  An accumulator [F, ready, next] carries a frame, the    *)
(* nodes that became ready and the curr_iter of CleanupIterations through  *)
(* the operators below.                                                    *)
(***************************************************************************)
Acc(F, ready) == [F |-> F, ready |-> ready, next |-> 0]

\* A live value makes a merge ready if no control input is outstanding and no
\* other live value has arrived; p is the count before.
LiveMergeReady_IgnoreControl(p) == p % 2 = 1
LiveMergeReady(p) == p = 1

\* What makes any other node dead.
DeadInput_NodeOnly(is_dead, control, has) == is_dead
DeadInput(is_dead, control, has) == is_dead \/ (~control /\ ~has)

\* What the arrival of an edge does to the pending and the dead count of its
\* destination, and whether the destination becomes ready, and dead.  The low
\* bit of a merge's count says that no live input has arrived.
Arrival(it, e, n, is_dead, has) ==
    LET d == e.dst
        p == it.pending[d]
        c == it.dead[d]
        control == e.slot = kControlSlot
        bumped == IF p > 0 THEN c + 1 ELSE c
    IN  CASE Kind[d] = "merge" /\ control ->
               [p |-> p - 2, c |-> c, dead |-> c = NumInputs[d], needs |-> FALSE,
                ready |-> p - 2 = 0 \/ (p - 2 = 1 /\ c = NumInputs[d])]
          [] Kind[d] = "merge" /\ ~control /\ has ->
               [p |-> p - (p % 2), c |-> c, dead |-> FALSE, needs |-> p % 2 = 1,
                ready |-> LiveMergeReady(p)]
          [] Kind[d] = "merge" /\ ~control /\ ~has ->
               LET dd == bumped = NumInputs[d] \/ IsEnter(n) IN
               [p |-> p, c |-> bumped, dead |-> dd, needs |-> FALSE,
                ready |-> p = 1 /\ dd]
          [] OTHER ->
               LET cc == IF DeadInput(is_dead, control, has) THEN bumped ELSE c IN
               [p |-> p - 1, c |-> cc, dead |-> cc > 0, needs |-> ~control /\ has,
                ready |-> p - 1 = 0]

Outstanding(ops, a) == IF a.ready THEN ops + 1 ELSE ops

\* The arrival a is recorded; a destination that is ready is outstanding.
Arrive(acc, e, f, i, a) ==
    [acc EXCEPT
       !.F = SetIteration(acc.F, i,
               [GetIteration(acc.F, i) EXCEPT
                  !.pending[e.dst] = a.p, !.dead[e.dst] = a.c,
                  !.inputs[e.dst] = IF a.needs THEN @ \cup {e.in} ELSE @,
                  !.outstanding_ops = Outstanding(@, a)]),
       !.ready = IF a.ready
                   THEN Append(@, Tagged(e.dst, f, i, a.dead /\ Kind[e.dst] # "trigger"))
                   ELSE @]

ActivateEdge(acc, e, n, is_dead, f, i, live) ==
    Arrive(acc, e, f, i,
           Arrival(GetIteration(acc.F, i), e, n, is_dead, e.slot \in live))

ActivateNodes(acc, n, is_dead, f, i, live) ==
    FoldLeft(LAMBDA x, e : ActivateEdge(x, e, n, is_dead, f, i, live), acc, Out[n])

\* A stored value is passed on to iteration i.
ActivateValue(acc, v, f, i) ==
    ActivateNodes(acc, v.node, v.live = {}, f, i, v.live)

AddLoopInv(acc, n, f, live) ==
    LET v == [node |-> n, live |-> live]
        stored == [acc EXCEPT !.F.inv_values = Append(@, v)]
    IN  FoldLeft(LAMBDA x, i : ActivateValue(x, v, f, i), stored,
                 [i \in 1..acc.F.iteration_count + 1 |-> i - 1])

\* A new iteration is created, and gets the deferred values and the loop
\* invariants.
IncrementIteration(acc, f) ==
    LET next  == acc.F.iteration_count + 1
        roots == acc.F.next_iter_roots
        new == [SetIteration(acc.F, next, NewIteration(NameOf(f), next)) EXCEPT
                  !.iteration_count = next, !.num_outstanding_iterations = @ + 1,
                  !.dead_exits = <<>>, !.next_iter_roots = <<>>]
    IN  FoldLeft(LAMBDA x, v : ActivateValue(x, v, f, next),
                 [acc EXCEPT !.F = new], roots \o acc.F.inv_values)

IsIterationDone_IgnoreFrames(F, i) ==
    /\ GetIteration(F, i).outstanding_ops = 0
    /\ IF i = 0 THEN F.num_pending_inputs = 0
                ELSE GetIteration(F, i - 1) = NoIteration
IsIterationDone(F, i) ==
    /\ GetIteration(F, i).outstanding_ops = 0
    /\ GetIteration(F, i).outstanding_frame_count = 0
    /\ IF i = 0 THEN F.num_pending_inputs = 0
                ELSE GetIteration(F, i - 1) = NoIteration

DeleteIteration(F, i) ==
    [SetIteration(F, i, NoIteration) EXCEPT !.num_outstanding_iterations = @ - 1]
StartDeferred(acc, f) ==
    IF acc.F.next_iter_roots # <<>> THEN IncrementIteration(acc, f) ELSE acc

\* One turn of the loop of CleanupIterations, for iteration acc.next: it is
\* deleted if it is done, and a deferred iteration is started.
CleanupTurn(acc, f) ==
    IF acc.next <= acc.F.iteration_count /\ IsIterationDone(acc.F, acc.next)
      THEN StartDeferred([acc EXCEPT !.F = DeleteIteration(@, acc.next), !.next = @ + 1], f)
      ELSE acc

\* There are at most as many turns as slots, for no more iterations than slots
\* are outstanding and a turn starts one only if some were deferred.
CleanupIterations(acc, f, i) ==
    FoldLeft(LAMBDA x, turn : CleanupTurn(x, f), [acc EXCEPT !.next = i],
             [turn \in 1..NumSlots(acc.F) + 1 |-> turn])

IsFrameDone(F) == F.num_pending_inputs = 0 /\ F.num_outstanding_iterations = 0

\* DecrementOutstandingOpsLocked.
DecrementOutstandingOps(acc, f, i) ==
    LET it == [GetIteration(acc.F, i) EXCEPT !.outstanding_ops = @ - 1]
        a  == [acc EXCEPT !.F = SetIteration(acc.F, i, it)]
    IN  IF it.outstanding_ops # 0 THEN a ELSE CleanupIterations(a, f, i)

(***************************************************************************)
(* The state of a run.                                                     *)
(***************************************************************************)
Key(tn) == <<tn.node, tn.frame, tn.iter>>
ToKeys(seq) == {Key(seq[i]) : i \in 1..Len(seq)}
Repeated(seq) ==
    {Key(seq[i]) : i \in {j \in 1..Len(seq) : \E k \in 1..j - 1 : Key(seq[k]) = Key(seq[j])}}

\* The nodes of "new" have become ready.
Fire(new) ==
    /\ fired' = fired \cup ToKeys(new)
    /\ refired' = refired \cup Repeated(new) \cup (fired \cap ToKeys(new))

\* The thread that works on w is to go on at "there".
Next_(w, there, at, ready) ==
    [node |-> w.node, frame |-> w.frame, iter |-> w.iter, dead |-> w.dead,
     pc |-> there, at |-> at, ready |-> ready]

\* The values a node puts out: a Switch passes its value to one side.
LiveSlots(tn) ==
    IF tn.dead THEN {}
    ELSE IF Kind[tn.node] = "switch" THEN {IF tn.iter < trip THEN 1 ELSE 0}
    ELSE {0}

\* Clears the inputs of a node that has run.
ClearInputs(F, tn) ==
    SetIteration(F, tn.iter, [GetIteration(F, tn.iter) EXCEPT !.inputs[tn.node] = {}])

Init ==
    /\ graph \in Graph
    /\ trip \in 0..MaxTrip[graph]
    /\ LET F == NewFrame("") IN
         frames = [f \in {Root} |->
                      SetIteration(F, 0, [GetIteration(F, 0) EXCEPT
                                            !.outstanding_ops = Cardinality(RootNodes[graph])])]
    /\ scheduled = {Tagged(n, Root, 0, FALSE) : n \in RootNodes[graph]}
    /\ active = {}
    /\ num_outstanding_ops = Cardinality(RootNodes[graph])
    /\ status = "OK"
    /\ finished = 0
    /\ fired = {<<n, Root, 0>> : n \in RootNodes[graph]}
    /\ refired = {} /\ failed = {}

Begin(tn, w) == scheduled' = scheduled \ {tn} /\ active' = active \cup {w}
Continue(w, w2) == active' = (active \ {w}) \cup {w2}

\* After the last critical section on its own frame a thread deletes the frame
\* if this has become done, and is through with its node otherwise.
AfterFrame(w, F, f, ready) ==
    Next_(w, IF IsFrameDone(F) THEN "delete" ELSE "node_done", f, ready)

(***************************************************************************)
(* Process and PropagateOutputs.                                           *)
(***************************************************************************)

\* A node that takes the lock of its own frame only leaves r behind there.
Propagated(tn, r) ==
    /\ frames' = [frames EXCEPT ![tn.frame] = r.F]
    /\ Begin(tn, AfterFrame(tn, r.F, tn.frame, r.ready))
    /\ Fire(r.ready)

\* The work w goes on, after a critical section on frame f that left r behind.
Continued(w, f, r) ==
    /\ frames' = [frames EXCEPT ![f] = r.F]
    /\ Continue(w, AfterFrame(w, r.F, f, r.ready))
    /\ Fire(SubSeq(r.ready, Len(w.ready) + 1, Len(r.ready)))

\* A node that stays in its frame: its successors are activated, and it no
\* longer counts as outstanding.
ProcessPlain(tn) ==
    /\ tn \in scheduled
    /\ Kind[tn.node] \in {"op", "switch", "merge", "trigger"}
    /\ LET f   == tn.frame
           acc == Acc(ClearInputs(frames[f], tn), <<>>)
           a   == ActivateNodes(acc, tn.node, tn.dead, f, tn.iter, LiveSlots(tn))
       IN  Propagated(tn, DecrementOutstandingOps(a, f, tn.iter))
    /\ UNCHANGED <<num_outstanding_ops, status, finished, graph, trip, failed>>

ChildOf(tn) == Append(tn.frame, <<tn.iter, Enters[tn.node]>>)

\* Enter: FindOrCreateChildFrame looks for the child frame under mu_.
ProcessEnter(tn) ==
    /\ tn \in scheduled
    /\ IsEnter(tn.node)
    /\ frames' = [frames EXCEPT ![tn.frame] = ClearInputs(@, tn)]
    /\ Begin(tn, Next_(tn, IF ChildOf(tn) \in DOMAIN frames THEN "enter" ELSE "create",
                       ChildOf(tn), <<>>))
    /\ UNCHANGED <<num_outstanding_ops, status, finished, graph, trip, fired, refired, failed>>

\* The new frame becomes known, and is counted in the iteration that creates it.
InsertFrame(w) ==
    LET F  == frames[w.frame]
        it == [GetIteration(F, w.iter) EXCEPT !.outstanding_frame_count = @ + 1]
    IN  frames' = [x \in DOMAIN frames \cup {w.at} |->
                     CASE x = w.at -> NewFrame(Enters[w.node])
                       [] x = w.frame -> SetIteration(F, w.iter, it)
                       [] OTHER -> frames[x]]

\* If there is none a frame is made without any lock, and dropped if there is one
\* when mu_ is taken for the second time.
CreateChild_NoSecondLook(w) ==
    /\ w \in active /\ w.pc = "create"
    /\ InsertFrame(w)
    /\ Continue(w, Next_(w, "enter", w.at, <<>>))
    /\ UNCHANGED <<scheduled, num_outstanding_ops, status, finished, graph, trip, fired, refired, failed>>
CreateChild(w) ==
    /\ w \in active /\ w.pc = "create"
    /\ IF w.at \in DOMAIN frames THEN UNCHANGED frames ELSE InsertFrame(w)
    /\ Continue(w, Next_(w, "enter", w.at, <<>>))
    /\ UNCHANGED <<scheduled, num_outstanding_ops, status, finished, graph, trip, fired, refired, failed>>

\* Then, under the lock of the child frame, the value becomes available there.
Entered(w, a) ==
    /\ frames' = [frames EXCEPT ![w.at] = [a.F EXCEPT !.num_pending_inputs = @ - 1]]
    /\ Continue(w, Next_(w, "leave", w.at, a.ready))
    /\ Fire(a.ready)

EnterChild(w) ==
    /\ w \in active /\ w.pc = "enter"
    /\ Entered(w, IF Kind[w.node] = "const_enter"
                    THEN AddLoopInv(Acc(frames[w.at], <<>>), w.node, w.at, LiveSlots(w))
                    ELSE ActivateNodes(Acc(frames[w.at], <<>>), w.node, w.dead, w.at, 0,
                                       LiveSlots(w)))
    /\ UNCHANGED <<scheduled, num_outstanding_ops, status, finished, graph, trip, failed>>

\* A live Exit: the successors are in the parent frame, under its lock.
Exited(tn, p, a) ==
    /\ frames' = [frames EXCEPT ![p] = a.F, ![tn.frame] = ClearInputs(@, tn)]
    /\ Begin(tn, Next_(tn, "leave", p, a.ready))
    /\ Fire(a.ready)

ProcessExit(tn) ==
    /\ tn \in scheduled
    /\ Kind[tn.node] = "exit" /\ ~tn.dead
    /\ LET p == Parent(tn.frame) IN
         Exited(tn, p, ActivateNodes(Acc(frames[p], <<>>), tn.node, FALSE, p,
                                     ParentIter(tn.frame), LiveSlots(tn)))
    /\ UNCHANGED <<num_outstanding_ops, status, finished, graph, trip, failed>>

\* The last step of an Enter or a live Exit, under the lock of its own frame.
Leave(w) ==
    /\ w \in active /\ w.pc = "leave"
    /\ Continued(w, w.frame,
                 DecrementOutstandingOps(Acc(frames[w.frame], w.ready), w.frame, w.iter))
    /\ UNCHANGED <<scheduled, num_outstanding_ops, status, finished, graph, trip, failed>>

\* A dead Exit is remembered if it is one of the last iteration.
ProcessDeadExit(tn) ==
    /\ tn \in scheduled
    /\ Kind[tn.node] = "exit" /\ tn.dead
    /\ LET f == tn.frame
           F == ClearInputs(frames[f], tn)
           G == IF tn.iter = F.iteration_count
                  THEN [F EXCEPT !.dead_exits = Append(@, tn.node)] ELSE F
       IN  Propagated(tn, DecrementOutstandingOps(Acc(G, <<>>), f, tn.iter))
    /\ UNCHANGED <<num_outstanding_ops, status, finished, graph, trip, failed>>

TooMany(F, f) == F.num_outstanding_iterations = Parallel[NameOf(f)]

\* NextIteration: a dead one stops; a live one starts the next iteration if it
\* is the first to arrive, or is deferred if too many are outstanding.
PropagateNext(F, tn) ==
    LET f   == tn.frame
        acc == Acc(F, <<>>)
        first == tn.iter = F.iteration_count
        v     == [node |-> tn.node, live |-> LiveSlots(tn)]
    IN  IF tn.dead THEN acc
        ELSE IF first /\ TooMany(F, f) THEN [acc EXCEPT !.F.next_iter_roots = Append(@, v)]
        ELSE ActivateValue(IF first THEN IncrementIteration(acc, f) ELSE acc,
                           v, f, tn.iter + 1)

ProcessNext(tn) ==
    /\ tn \in scheduled
    /\ Kind[tn.node] = "next"
    /\ LET a == PropagateNext(ClearInputs(frames[tn.frame], tn), tn)
       IN  Propagated(tn, DecrementOutstandingOps(a, tn.frame, tn.iter))
    /\ UNCHANGED <<num_outstanding_ops, status, finished, graph, trip, failed>>

(***************************************************************************)
(* DeleteFrame and CleanupFramesIterations.                                *)
(***************************************************************************)

DeadExits_None(f) == <<>>
DeadExits(f) == frames[f].dead_exits

\* The dead exits of the frame become dead inputs in its parent, under the
\* lock of the parent.
Informed(w, p, a) ==
    /\ frames' = [frames EXCEPT ![p] = a.F]
    /\ Continue(w, Next_(w, "erase", w.at, w.ready \o a.ready))
    /\ Fire(a.ready)

DeleteFrame(w) ==
    /\ w \in active /\ w.pc = "delete"
    /\ IF w.at = Root
         THEN /\ Continue(w, Next_(w, "erase", w.at, w.ready))
              /\ UNCHANGED <<frames, fired, refired>>
         ELSE LET p == Parent(w.at) IN
              Informed(w, p,
                  FoldLeft(LAMBDA x, n : ActivateNodes(x, n, TRUE, p, ParentIter(w.at), {}),
                           Acc(frames[p], <<>>), DeadExits(w.at)))
    /\ UNCHANGED <<scheduled, num_outstanding_ops, status, finished, graph, trip, failed>>

\* The frame is taken off outstanding_frames_, under mu_, and deleted.
EraseFrame(w) ==
    /\ w \in active /\ w.pc = "erase"
    /\ frames' = [f \in DOMAIN frames \ {w.at} |-> frames[f]]
    /\ Continue(w, Next_(w, IF w.at = Root THEN "node_done" ELSE "cleanup", w.at, w.ready))
    /\ UNCHANGED <<scheduled, num_outstanding_ops, status, finished, graph, trip, fired, refired, failed>>

\* The parent has one frame less outstanding, which may complete its
\* iteration, and the parent itself.
CleanupFramesIterations(w) ==
    /\ w \in active /\ w.pc = "cleanup"
    /\ LET p == Parent(w.at)
           i == ParentIter(w.at)
           F == frames[p]
           it == [GetIteration(F, i) EXCEPT !.outstanding_frame_count = @ - 1]
       IN  Continued(w, p, CleanupIterations(Acc(SetIteration(F, i, it), w.ready), p, i))
    /\ UNCHANGED <<scheduled, num_outstanding_ops, status, finished, graph, trip, failed>>

(***************************************************************************)
(* NodeDone and Finish.                                                    *)
(***************************************************************************)

\* A kernel returns an error, and nothing is propagated.  The variable that
\* holds it is not reset when its thread goes on with a dead node, which then
\* counts as failed too.
Fail(tn) ==
    /\ tn \in scheduled
    /\ \/ ~tn.dead /\ tn.node \in MayFail
       \/ tn.dead /\ failed # {}
    /\ status' = "error"
    /\ failed' = failed \cup {Key(tn)}
    /\ frames' = [frames EXCEPT ![tn.frame] = ClearInputs(@, tn)]
    /\ Begin(tn, Next_(tn, "node_done", tn.frame, <<>>))
    /\ UNCHANGED <<num_outstanding_ops, finished, graph, trip, fired, refired>>

\* The ready nodes count, and the one that is done no longer does.
CountAfter_KeepOwn(w) ==
    num_outstanding_ops + (IF w.ready = <<>> THEN -1 ELSE Len(w.ready))
CountAfter(w) == num_outstanding_ops + Len(w.ready) - 1

\* The counter is adjusted and the ready nodes are scheduled.  The thread that
\* takes it to zero calls Finish.
NodeDone(w) ==
    /\ w \in active /\ w.pc = "node_done"
    /\ num_outstanding_ops' = CountAfter(w)
    /\ scheduled' = scheduled \cup {w.ready[i] : i \in 1..Len(w.ready)}
    /\ active' = (active \ {w}) \cup
                   (IF num_outstanding_ops' = 0 THEN {Next_(w, "finish", w.at, <<>>)} ELSE {})
    /\ UNCHANGED <<frames, status, finished, graph, trip, fired, refired, failed>>

\* Finish deletes the ExecutorState, and the frames that are left.
Finish(w) ==
    /\ w \in active /\ w.pc = "finish"
    /\ active' = active \ {w}
    /\ frames' = [f \in {} |-> NewFrame("")]
    /\ finished' = finished + 1
    /\ UNCHANGED <<scheduled, num_outstanding_ops, status, graph, trip, fired, refired, failed>>

Next ==
    \/ \E tn \in scheduled :
          \/ ProcessPlain(tn) \/ ProcessEnter(tn) \/ ProcessExit(tn)
          \/ ProcessDeadExit(tn) \/ ProcessNext(tn) \/ Fail(tn)
    \/ \E w \in active :
          \/ CreateChild(w) \/ EnterChild(w) \/ Leave(w) \/ DeleteFrame(w) \/ EraseFrame(w)
          \/ CleanupFramesIterations(w) \/ NodeDone(w) \/ Finish(w)

Spec == Init /\ [][Next]_vars

\* Kernels return, and the pool runs what it is given: as long as there is
\* work, a step is taken.  (This is WF_vars(Next), with its ENABLED written as
\* the state predicate it is equivalent to.)
Fairness == []<>(scheduled \cup active = {}) \/ []<><<Next>>_vars

FairSpec == Spec /\ Fairness

(***************************************************************************)
(* Properties.                                                             *)
(***************************************************************************)
Live(f, i) == f \in DOMAIN frames /\ GetIteration(frames[f], i).id = i
LiveIterations(f) == {s \in DOMAIN frames[f].iterations : frames[f].iterations[s].id >= 0}

\* The counters are what their types say; in particular none of the unsigned
\* counts is taken below zero, as an input that arrives twice would.
TypeOK ==
    /\ \A f \in DOMAIN frames :
         /\ frames[f].num_pending_inputs \in Nat
         /\ frames[f].num_outstanding_iterations \in Nat
         /\ \A s \in LiveIterations(f) :
              LET it == frames[f].iterations[s] IN
              /\ it.outstanding_ops \in Nat /\ it.outstanding_frame_count \in Nat
              /\ it.pending \in [NodesOf[graph][NameOf(f)] -> Nat]
              /\ it.dead \in [NodesOf[graph][NameOf(f)] -> Nat]
    /\ num_outstanding_ops \in Nat
    /\ status \in {"OK", "error"}
    /\ finished \in Nat

\* A node becomes ready at most once per iteration of a frame instance.
FiredOnce == refired = {}

Waiting == scheduled \cup UNION {{w.ready[i] : i \in 1..Len(w.ready)} : w \in active}
Undone  == {w \in active : w.pc \in {"create", "enter", "leave"}}

\* Nothing is deleted under a thread.  The frame and the iteration of a node
\* that still has to run, or to propagate, are there, and the slot of the
\* circular buffer is not that of another iteration; so are the iterations its
\* value goes to, be they in the child frame, in the parent or the next one.
WorkIsLive ==
    /\ \A tn \in Waiting \cup Undone : Live(tn.frame, tn.iter)
    /\ \A tn \in Waiting :
         /\ Kind[tn.node] = "next" /\ ~tn.dead /\ tn.iter < frames[tn.frame].iteration_count
              => Live(tn.frame, tn.iter + 1)
         /\ Kind[tn.node] = "exit" => Live(Parent(tn.frame), ParentIter(tn.frame))
    /\ \A w \in active :
         /\ w.pc \in {"delete", "erase"} => w.at \in DOMAIN frames
         /\ w.pc = "enter" => /\ w.at \in DOMAIN frames
                              /\ \A i \in 0..frames[w.at].iteration_count : Live(w.at, i)
         /\ w.pc \in {"delete", "erase", "cleanup"} /\ w.at # Root =>
              Live(Parent(w.at), ParentIter(w.at))

\* outstanding_ops of an iteration is the number of its nodes that are ready
\* and have not propagated (a node that failed never does).
OpsBalance ==
    \A f \in DOMAIN frames : \A s \in LiveIterations(f) :
        LET it == frames[f].iterations[s]
            mine(S) == Cardinality({x \in S : x.frame = f /\ x.iter = it.id})
        IN  it.outstanding_ops = mine(Waiting) + mine(Undone)
              + Cardinality({k \in failed : k[2] = f /\ k[3] = it.id})

\* outstanding_frame_count of an iteration is the number of its child frames.
FramesBalance ==
    \A f \in DOMAIN frames : \A s \in LiveIterations(f) :
        frames[f].iterations[s].outstanding_frame_count =
            Cardinality({c \in DOMAIN frames : c # Root /\ Parent(c) = f
                            /\ ParentIter(c) = frames[f].iterations[s].id})
            + Cardinality({w \in active : w.pc = "cleanup" /\ Parent(w.at) = f
                            /\ ParentIter(w.at) = frames[f].iterations[s].id})

\* No more iterations than allowed are outstanding.
IterationsBounded ==
    \A f \in DOMAIN frames :
        /\ frames[f].num_outstanding_iterations = Cardinality(LiveIterations(f))
        /\ frames[f].num_outstanding_iterations <= Parallel[NameOf(f)]

\* The counters by which frames and iterations are found to be done agree with
\* what threads are doing, and stay within their types and limits.
CountersAgree == TypeOK /\ OpsBalance /\ FramesBalance /\ IterationsBounded

\* Only what is done is deleted: every node of an iteration that is gone has
\* been ready in it.
CollectedIsComplete ==
    finished = 0 =>
        \A k \in fired :
            ~Live(k[2], k[3]) =>
                \A n \in NodesOf[graph][NameOf(k[2])] : <<n, k[2], k[3]>> \in fired

\* Iterations and frames are deleted neither under a thread nor early.
DeletedWhenDone == WorkIsLive /\ CollectedIsComplete

\* A node that is not dead finds its inputs: all of them, or one for a Merge.
LiveNodeHasInputs ==
    \A tn \in scheduled :
        ~tn.dead /\ Kind[tn.node] # "trigger" =>
            LET in == GetIteration(frames[tn.frame], tn.iter).inputs[tn.node] IN
            Cardinality(in) = IF Kind[tn.node] = "merge" THEN 1 ELSE NumInputs[tn.node]

\* Finish runs once, after the last node; then, unless there was an error,
\* every node of the root frame has run and no frame is left behind.
FinishedMeansAllDone ==
    /\ finished <= 1
    /\ finished = 1 \/ (\E w \in active : w.pc = "finish") =>
         /\ scheduled = {}
         /\ \A w \in active : w.pc = "finish"
         /\ status = "OK" => /\ \A n \in NodesOf[graph][""] : <<n, Root, 0>> \in fired
                             /\ DOMAIN frames = {}

\* Every run comes to its end.
Terminates == <>(finished = 1)
=============================================================================
