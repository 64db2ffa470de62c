--------------------------- MODULE ContextLifecycle ---------------------------
(***************************************************************************)
(* The life of a context: nodes share one participant, made for the first  *)
(* of them and destroyed with the last, and a thread that keeps the graph  *)
(* of nodes up to date while it exists.                                    *)
(*                                                                         *)
(*   rmw_init.cpp, rmw_node.cpp           init, shutdown, fini and nodes   *)
(*   rmw_fastrtps_cpp/src/init_rmw_context_impl.cpp     set-up             *)
(*   shared_cpp/src/init_rmw_context_impl.cpp           teardown           *)
(*   listener_thread.cpp                  the thread: start, loop, join    *)
(*                                                                         *)
(* Set-up and teardown hold the mutex of the context; the listener thread, *)
(* discovery and the rest of node creation do not.                         *)
(***************************************************************************)
EXTENDS Integers, Sequences, FiniteSets

CONSTANTS
  Threads,      \* application threads that create and destroy nodes
  Faults,       \* steps that may fail, a subset of AllFaults
  MaxCalls,     \* bound: calls of the application
  MaxUpdates    \* bound: messages from other participants

None == "none"
AllFaults == {"set_up", "thread", "wait", "add_node", "reader", "writer"}

ASSUME ContextAssumption ==
  /\ None \notin Threads
  /\ IsFiniteSet(Threads)
  /\ Faults \subseteq AllFaults
  /\ MaxCalls \in Nat /\ MaxUpdates \in Nat

\* What init_context_impl makes, in this order; its unique_ptrs release it in reverse.
Objects == {"common", "participant", "publisher", "subscription", "graph_guard", "listener_gc"}
Order == <<"common", "participant", "publisher", "subscription", "graph_guard">>

VARIABLES
  calls,             \* calls of the application so far
  initialized,       \* between rmw_init and rmw_context_fini
  is_shutdown,       \* context->impl->is_shutdown
  owner,             \* the thread that holds context->impl->mutex
  count,             \* context->impl->count
  nodes,             \* [Threads -> Nat]: nodes each thread has
  pc,                \* where each thread is
  objects,           \* the objects of the context that exist
  leaked,            \* objects whose deletion failed
  listener,          \* where the listener thread is
  thread_is_running, \* common_context->thread_is_running
  woken,             \* trigger of listener_thread_gc
  updates,           \* messages from other participants so far
  pending,           \* those of them in the reader of "ros_discovery_info"
  dataStatus,        \* its DATA_AVAILABLE status
  on_change,         \* the graph cache has its callback
  in_graph,          \* the participant is in the graph cache
  ret,               \* decrement_context_impl_ref_count: ret
  failures           \* history: the steps of the teardown that failed

callVars     == <<calls, initialized, is_shutdown>>
countVars    == <<owner, count, nodes>>
objectVars   == <<objects, leaked>>
threadVars   == <<listener, thread_is_running, woken>>
updateVars   == <<updates, pending, dataStatus>>
graphVars    == <<on_change, in_graph>>
teardownVars == <<ret, failures>>
vars == <<callVars, countVars, pc, objectVars, threadVars, updateVars, graphVars, teardownVars>>

Init ==
  /\ calls = 0 /\ initialized = FALSE /\ is_shutdown = FALSE
  /\ owner = None /\ count = 0
  /\ nodes = [t \in Threads |-> 0]
  /\ pc = [t \in Threads |-> "idle"]
  /\ objects = {} /\ leaked = {}
  /\ listener = None /\ thread_is_running = FALSE /\ woken = FALSE
  /\ updates = 0 /\ pending = 0 /\ dataStatus = FALSE
  /\ on_change = FALSE /\ in_graph = FALSE
  /\ ret = "ok" /\ failures = {}

Go(t, from, to) == pc[t] = from /\ pc' = [pc EXCEPT ![t] = to]

Call == calls < MaxCalls /\ calls' = calls + 1

(***************************************************************************)
(* rmw_init, rmw_shutdown and rmw_context_fini.  They are not thread-safe: *)
(* init and fini are called while no other call is under way.              *)
(***************************************************************************)
NoCalls == \A t \in Threads : pc[t] = "idle"

RmwInit ==
  /\ Call /\ NoCalls
  /\ ~initialized
  /\ initialized' = TRUE /\ is_shutdown' = FALSE
  /\ UNCHANGED <<countVars, pc, objectVars, threadVars, updateVars, graphVars, teardownVars>>

RmwShutdown ==
  /\ Call
  /\ initialized
  /\ is_shutdown' = TRUE
  /\ UNCHANGED <<initialized, countVars, pc, objectVars, threadVars, updateVars, graphVars,
                 teardownVars>>

Mut_fini_ignores_count ==
  /\ Call /\ NoCalls
  /\ initialized /\ is_shutdown
  /\ initialized' = FALSE
  /\ UNCHANGED <<is_shutdown, countVars, pc, objectVars, threadVars, updateVars, graphVars,
                 teardownVars>>

\* "Finalizing a context with active nodes" is refused.
RmwContextFini ==
  /\ Call /\ NoCalls
  /\ initialized /\ is_shutdown
  /\ count = 0
  /\ initialized' = FALSE
  /\ UNCHANGED <<is_shutdown, countVars, pc, objectVars, threadVars, updateVars, graphVars,
                 teardownVars>>

(***************************************************************************)
(* rmw_create_node: increment_context_impl_ref_count and init_context_impl.*)
(***************************************************************************)
CreateNode(t) ==
  /\ Call
  /\ initialized /\ ~is_shutdown
  /\ Go(t, "idle", "increment")
  /\ UNCHANGED <<initialized, is_shutdown, countVars, objectVars, threadVars, updateVars,
                 graphVars, teardownVars>>

Mut_set_up_unlocked(t) ==
  /\ owner = None
  /\ owner' = IF count = 0 THEN None ELSE t
  /\ Go(t, "increment", IF count = 0 THEN "set_up" ELSE "count")
  /\ UNCHANGED <<callVars, count, nodes, objectVars, threadVars, updateVars, graphVars,
                 teardownVars>>

Increment(t) ==
  /\ owner = None
  /\ owner' = t
  /\ Go(t, "increment", IF count = 0 THEN "set_up" ELSE "count")
  /\ UNCHANGED <<callVars, count, nodes, objectVars, threadVars, updateVars, graphVars,
                 teardownVars>>

\* The next object of init_context_impl.
Made == {i \in DOMAIN Order : Order[i] \in objects}

SetUp(t) ==
  /\ Cardinality(Made) < Len(Order)
  /\ pc[t] = "set_up"
  /\ \/ /\ objects' = objects \cup {Order[Cardinality(Made) + 1]}
        /\ UNCHANGED pc
     \/ "set_up" \in Faults /\ Go(t, "set_up", "unwind") /\ UNCHANGED objects
  /\ UNCHANGED <<callVars, countVars, leaked, threadVars, updateVars, graphVars, teardownVars>>

\* The reader is new: it has received nothing.
RunListenerThread(t) ==
  /\ Cardinality(Made) = Len(Order)
  /\ \/ /\ Go(t, "set_up", "hook")
        /\ objects' = objects \cup {"listener_gc"}
        /\ listener' = "starting"
        /\ thread_is_running' = TRUE
        /\ woken' = FALSE
     \/ /\ "thread" \in Faults
        /\ Go(t, "set_up", "unwind")
        /\ thread_is_running' = FALSE
        /\ UNCHANGED <<objects, listener, woken>>
  /\ UNCHANGED <<callVars, countVars, leaked, updateVars, graphVars, teardownVars>>

Unwind(t) ==
  /\ pc[t] = "unwind"
  /\ IF Made = {}
       THEN /\ Go(t, "unwind", "idle")
            /\ owner' = None
            /\ UNCHANGED objects
       ELSE /\ objects' = objects \ {Order[Cardinality(Made)]}
            /\ UNCHANGED <<pc, owner>>
  /\ pending' = IF "subscription" \in objects' THEN pending ELSE 0
  /\ dataStatus' = (dataStatus /\ "subscription" \in objects')
  /\ UNCHANGED <<callVars, count, nodes, leaked, threadVars, updates, graphVars, teardownVars>>

\* set_on_change_callback and add_participant, after the thread has started.
Hook(t) ==
  /\ \/ Go(t, "hook", "enter") /\ on_change' = TRUE /\ UNCHANGED in_graph
     \/ Go(t, "enter", "count") /\ in_graph' = TRUE /\ UNCHANGED on_change
  /\ UNCHANGED <<callVars, countVars, objectVars, threadVars, updateVars, teardownVars>>

Count(t) ==
  /\ Go(t, "count", "add_node")
  /\ count' = count + 1
  /\ owner' = None
  /\ UNCHANGED <<callVars, nodes, objectVars, threadVars, updateVars, graphVars, teardownVars>>

Mut_failed_node_counts(t) ==
  /\ \/ /\ Go(t, "add_node", "idle")
        /\ nodes' = [nodes EXCEPT ![t] = @ + 1]
     \/ /\ "add_node" \in Faults
        /\ Go(t, "add_node", "idle")
        /\ UNCHANGED nodes
  /\ UNCHANGED <<callVars, owner, count, objectVars, threadVars, updateVars, graphVars,
                 teardownVars>>

\* __rmw_create_node; if it fails, the reference is given back.
AddNode(t) ==
  /\ \/ /\ Go(t, "add_node", "idle")
        /\ nodes' = [nodes EXCEPT ![t] = @ + 1]
     \/ /\ "add_node" \in Faults
        /\ Go(t, "add_node", "decrement")
        /\ UNCHANGED nodes
  /\ UNCHANGED <<callVars, owner, count, objectVars, threadVars, updateVars, graphVars,
                 teardownVars>>

(***************************************************************************)
(* rmw_destroy_node: decrement_context_impl_ref_count.                     *)
(***************************************************************************)

\* __rmw_destroy_node: whether remove_node_graph fails or not, the reference is given back.
DestroyNode(t) ==
  /\ Call
  /\ nodes[t] > 0
  /\ nodes' = [nodes EXCEPT ![t] = @ - 1]
  /\ Go(t, "idle", "decrement")
  /\ UNCHANGED <<initialized, is_shutdown, owner, count, objectVars, threadVars, updateVars,
                 graphVars, teardownVars>>

Decrement(t) ==
  /\ owner = None
  /\ count' = count - 1
  /\ IF count > 1
       THEN /\ Go(t, "decrement", "idle")
            /\ UNCHANGED <<owner, teardownVars>>
       ELSE /\ Go(t, "decrement", "stop")
            /\ owner' = t
            /\ ret' = "ok" /\ failures' = {}
  /\ UNCHANGED <<callVars, nodes, objectVars, threadVars, updateVars, graphVars>>

Mut_trigger_first(t) ==
  /\ \/ /\ Go(t, "stop", "trigger")
        /\ woken' = TRUE
        /\ UNCHANGED thread_is_running
     \/ /\ Go(t, "trigger", "join")
        /\ thread_is_running' = FALSE
        /\ UNCHANGED woken
  /\ UNCHANGED <<callVars, countVars, objectVars, listener, updateVars, graphVars, teardownVars>>

\* join_listener_thread: clear the flag, then wake the thread.
StopListener(t) ==
  /\ \/ /\ Go(t, "stop", "trigger")
        /\ thread_is_running' = FALSE
        /\ UNCHANGED woken
     \/ /\ Go(t, "trigger", "join")
        /\ woken' = TRUE
        /\ UNCHANGED thread_is_running
  /\ UNCHANGED <<callVars, countVars, objectVars, listener, updateVars, graphVars, teardownVars>>

Mut_no_join(t) ==
  /\ Go(t, "join", "leave")
  /\ objects' = objects \ {"listener_gc"}
  /\ UNCHANGED <<callVars, countVars, leaked, threadVars, updateVars, graphVars, teardownVars>>

Join(t) ==
  /\ listener = "exited"
  /\ listener' = None
  /\ Go(t, "join", "leave")
  /\ objects' = objects \ {"listener_gc"}
  /\ UNCHANGED <<callVars, countVars, leaked, thread_is_running, woken, updateVars, graphVars,
                 teardownVars>>

\* graph_cache.remove_participant.
LeaveGraph(t) ==
  /\ Go(t, "leave", "reader")
  /\ in_graph' = FALSE
  /\ UNCHANGED <<callVars, countVars, objectVars, threadVars, updateVars, on_change, teardownVars>>

\* Delete the object, or fail if the step may; what fails is not tried again.
Delete(object, fault) ==
  /\ objects' = objects \ {object}
  /\ \/ /\ UNCHANGED <<leaked, failures>>
     \/ /\ fault \in Faults
        /\ leaked' = leaked \cup {object}
        /\ failures' = failures \cup {fault}

Mut_give_up(t) ==
  /\ Delete("subscription", "reader")
  /\ IF failures' = failures
       THEN Go(t, "reader", "writer") /\ UNCHANGED <<ret, owner>>
       ELSE Go(t, "reader", "idle") /\ ret' = "reader" /\ owner' = None
  /\ pending' = 0 /\ dataStatus' = FALSE
  /\ UNCHANGED <<callVars, count, nodes, threadVars, updates, graphVars>>

\* "Try to clean the other objects if the above failed."
DestroySubscription(t) ==
  /\ Go(t, "reader", "writer")
  /\ Delete("subscription", "reader")
  /\ ret' = IF failures' = failures THEN "ok" ELSE "reader"
  /\ pending' = 0 /\ dataStatus' = FALSE
  /\ UNCHANGED <<callVars, countVars, threadVars, updates, graphVars>>

Mut_last_error(t) ==
  /\ Go(t, "writer", "participant")
  /\ Delete("publisher", "writer")
  /\ ret' = IF failures' = failures THEN "ok" ELSE "writer"
  /\ UNCHANGED <<callVars, countVars, threadVars, updateVars, graphVars>>

\* err replaces ret only if both are errors.
DestroyPublisher(t) ==
  /\ Go(t, "writer", "participant")
  /\ Delete("publisher", "writer")
  /\ ret' = IF ret # "ok" /\ failures' # failures THEN "writer" ELSE ret
  /\ UNCHANGED <<callVars, countVars, threadVars, updateVars, graphVars>>

\* destroy_participant, which returns RMW_RET_OK whatever Fast DDS answers.
DestroyParticipant(t) ==
  /\ Go(t, "participant", "clear")
  /\ objects' = objects \ {"participant"}
  /\ UNCHANGED <<callVars, countVars, leaked, threadVars, updateVars, graphVars, teardownVars>>

ClearOnChange(t) ==
  /\ Go(t, "clear", "delete")
  /\ on_change' = FALSE
  /\ UNCHANGED <<callVars, countVars, objectVars, threadVars, updateVars, in_graph, teardownVars>>

\* The graph guard condition, then the common context; the mutex is released.
DeleteCommon(t) ==
  /\ \/ /\ "graph_guard" \in objects
        /\ pc[t] = "delete"
        /\ objects' = objects \ {"graph_guard"}
        /\ UNCHANGED <<pc, owner>>
     \/ /\ "graph_guard" \notin objects
        /\ Go(t, "delete", "idle")
        /\ objects' = objects \ {"common"}
        /\ owner' = None
  /\ UNCHANGED <<callVars, count, nodes, leaked, threadVars, updateVars, graphVars, teardownVars>>

(***************************************************************************)
(* The listener thread.                                                    *)
(***************************************************************************)
Listen(from, to) ==
  /\ listener = from
  /\ listener' = to
  /\ UNCHANGED <<callVars, countVars, pc, objectVars, thread_is_running, updates, graphVars,
                 teardownVars>>

\* The wait set cannot be created: the thread ends.
CreateWaitSet ==
  /\ \/ Listen("starting", "check")
     \/ "wait" \in Faults /\ Listen("starting", "exited")
  /\ UNCHANGED <<woken, pending, dataStatus>>

Check ==
  /\ Listen("check", IF thread_is_running THEN "wait" ELSE "ending")
  /\ UNCHANGED <<woken, pending, dataStatus>>

\* rmw_wait resets the guard condition; the reader's status stays until it is taken from.
Wait ==
  /\ woken \/ dataStatus
  /\ Listen("wait", IF pending > 0 THEN "take" ELSE "check")
  /\ woken' = FALSE
  /\ UNCHANGED <<pending, dataStatus>>

\* "rmw_wait failed": the thread leaves its loop.
WaitFails ==
  /\ "wait" \in Faults
  /\ Listen("wait", "ending")
  /\ UNCHANGED <<woken, pending, dataStatus>>

Mut_take_once ==
  /\ Listen("take", "check")
  /\ pending' = IF pending > 0 THEN pending - 1 ELSE 0
  /\ dataStatus' = FALSE
  /\ UNCHANGED woken

\* Take until nothing is taken.
Take ==
  /\ Listen("take", IF pending > 0 THEN "take" ELSE "check")
  /\ pending' = IF pending > 0 THEN pending - 1 ELSE 0
  /\ dataStatus' = FALSE
  /\ UNCHANGED woken

End ==
  /\ Listen("ending", "exited")
  /\ UNCHANGED <<woken, pending, dataStatus>>

ListenerStep == CreateWaitSet \/ Check \/ Wait \/ Take \/ End

\* Another participant tells of its nodes.
UpdateArrives ==
  /\ updates < MaxUpdates
  /\ "subscription" \in objects
  /\ updates' = updates + 1
  /\ pending' = pending + 1
  /\ dataStatus' = TRUE
  /\ UNCHANGED <<callVars, countVars, pc, objectVars, threadVars, graphVars, teardownVars>>

CreateStep(t) ==
  Increment(t) \/ SetUp(t) \/ RunListenerThread(t) \/ Unwind(t) \/ Hook(t) \/ Count(t) \/ AddNode(t)

DestroyStep(t) ==
  \/ Decrement(t) \/ StopListener(t) \/ Join(t) \/ LeaveGraph(t)
  \/ DestroySubscription(t) \/ DestroyPublisher(t) \/ DestroyParticipant(t)
  \/ ClearOnChange(t) \/ DeleteCommon(t)

ThreadStep(t) == CreateStep(t) \/ DestroyStep(t)

Next ==
  \/ RmwInit \/ RmwShutdown \/ RmwContextFini
  \/ \E t \in Threads : CreateNode(t) \/ DestroyNode(t) \/ ThreadStep(t)
  \/ ListenerStep \/ WaitFails
  \/ UpdateArrives

Spec == Init /\ [][Next]_vars

\* A thread in a call is scheduled and so is the listener thread; nobody has to call,
\* other participants have to say nothing, and rmw_wait need not fail.
FairSpec == Spec /\ WF_vars(ListenerStep) /\ \A t \in Threads : WF_vars(ThreadStep(t))

------------------------------------------------------------------------------
(***************************************************************************)
(* Properties.                                                             *)
(***************************************************************************)
Holding == {"set_up", "unwind", "hook", "enter", "count", "stop", "trigger", "join", "leave",
            "reader", "writer", "participant", "clear", "delete"}
Serving == {"starting", "check", "wait", "take", "ending"}

\* Type invariant; the owner of the mutex is the thread in the set-up or the teardown.
TypeOK ==
  /\ calls \in 0..MaxCalls /\ initialized \in BOOLEAN /\ is_shutdown \in BOOLEAN
  /\ owner \in Threads \cup {None}
  /\ count \in Nat
  /\ nodes \in [Threads -> Nat]
  /\ pc \in [Threads -> Holding \cup {"idle", "increment", "add_node", "decrement"}]
  /\ \A t \in Threads : pc[t] \in Holding <=> owner = t
  /\ objects \subseteq Objects /\ leaked \subseteq {"publisher", "subscription"}
  /\ listener \in Serving \cup {None, "exited"}
  /\ thread_is_running \in BOOLEAN /\ woken \in BOOLEAN
  /\ updates \in 0..MaxUpdates /\ pending \in 0..MaxUpdates /\ dataStatus \in BOOLEAN
  /\ on_change \in BOOLEAN /\ in_graph \in BOOLEAN
  /\ ret \in {"ok", "reader", "writer"} /\ failures \subseteq {"reader", "writer"}

\* What a thread still uses has not been deleted: the listener thread its reader, its
\* guard condition and the common context; discovery the common context, as long as the
\* participant is there; the graph cache the guard condition that it triggers.
NothingUsedIsGone ==
  /\ listener \in Serving => {"common", "subscription", "listener_gc"} \subseteq objects
  /\ objects \cap {"participant", "publisher", "subscription"} # {} =>
       {"common", "participant"} \subseteq objects
  /\ on_change => {"common", "graph_guard"} \subseteq objects

\* What each thread has a reference for: its nodes, and the node that its call is about to
\* add, or has just removed.
Referring(t) == nodes[t] + IF pc[t] \in {"add_node", "decrement"} THEN 1 ELSE 0
References == UNION {{t} \X (1..Referring(t)) : t \in Threads}

\* Nothing is there, and everything is.
Bare == objects = {} /\ listener = None /\ ~on_change /\ ~in_graph
Whole == objects = Objects /\ on_change /\ in_graph /\ thread_is_running /\ listener # None

\* The count is the number of nodes and of calls that hold a reference, so that every
\* node has a context that is entirely set up.
UsersHaveContext ==
  /\ count = Cardinality(References)
  /\ count > 0 => Whole

\* Once the last reference is given back, or a set-up failed, nothing is left except what
\* could not be deleted; so is it when the context is finalized.
NothingLeft == (owner = None /\ count = 0) \/ ~initialized => Bare

\* Every call returns: whatever the listener thread is doing, it notices that it is to
\* end, and no thread keeps the mutex.
CallsReturn == \A t \in Threads : pc[t] # "idle" ~> pc[t] = "idle"

\* What other participants say gets into the graph, unless the thread has failed or the
\* context is torn down meanwhile.
UpdatesApplied == pending > 0 ~> pending = 0 \/ listener \notin Serving

\* An error of the teardown is returned, as init_rmw_context_impl.cpp:79 says ("We can just
\* return one error"), unless the publisher's deletion was the only one to fail.
ErrorReturned ==
  [][\A t \in Threads :
       pc[t] = "delete" /\ pc'[t] = "idle" /\ ret = "ok" => failures \subseteq {"writer"}]_vars

------------------------------------------------------------------------------
(***************************************************************************)
(* The inductive invariant: what is there at each stage of the set-up and  *)
(* of the teardown, which one thread at a time goes through.               *)
(***************************************************************************)

\* The references are finitely many, one for each that is counted.
Accounted == IsFiniteSet(References) /\ count = Cardinality(References)

\* Without the mutex everything is there or nothing is.
AtRest == owner = None => IF count = 0 THEN Bare ELSE Whole

\* A finalized context has no reference, and no call is under way.
Finalized == ~initialized => NoCalls /\ count = 0

\* The first k objects of init_context_impl.
First(k) == {Order[i] : i \in 1..k}

\* The set-up: a prefix of the objects, then all of them and the thread, then the hooks.
SettingUp(t) ==
  /\ pc[t] \in {"set_up", "unwind"} =>
       /\ count = 0 /\ listener = None /\ ~on_change /\ ~in_graph
       /\ \E k \in 0..Len(Order) : objects = First(k)
  /\ pc[t] \in {"hook", "enter"} =>
       /\ count = 0 /\ objects = Objects /\ listener # None /\ thread_is_running
       /\ on_change <=> pc[t] = "enter"
       /\ ~in_graph
  /\ pc[t] = "count" => Whole

\* What the stages of the teardown have not deleted yet.
Joining == {"stop", "trigger", "join"}
Left(stage) ==
  CASE stage \in Joining -> Objects
    [] stage \in {"leave", "reader"} -> Objects \ {"listener_gc"}
    [] stage = "writer" -> {"common", "participant", "publisher", "graph_guard"}
    [] stage = "participant" -> {"common", "participant", "graph_guard"}
    [] stage = "clear" -> {"common", "graph_guard"}

TearingDown(t) ==
  /\ pc[t] \in Joining \cup {"leave", "reader", "writer", "participant", "clear"} =>
       /\ count = 0 /\ objects = Left(pc[t]) /\ on_change
       /\ in_graph <=> pc[t] \in Joining \cup {"leave"}
       /\ listener # None <=> pc[t] \in Joining
  /\ pc[t] = "stop" => thread_is_running
  /\ pc[t] = "delete" =>
       /\ count = 0 /\ listener = None /\ ~on_change /\ ~in_graph
       /\ objects \in {{"common"}, {"common", "graph_guard"}}

\* ret is an error when the reader could not be deleted.
Reporting(t) ==
  /\ pc[t] \in Joining \cup {"leave", "reader"} => failures = {}
  /\ pc[t] \in {"writer", "participant", "clear", "delete"} /\ ret = "ok" =>
       failures \subseteq {"writer"}

ContextInv ==
  /\ TypeOK /\ pending <= updates
  /\ Accounted /\ AtRest /\ Finalized
  /\ \A t \in Threads : SettingUp(t) /\ TearingDown(t) /\ Reporting(t)
=============================================================================
