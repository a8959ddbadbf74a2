----------------------------- MODULE ManualControl -----------------------------
(***************************************************************************)
(* The manual-control parameters (table 2 of rparam) and the events that    *)
(* carry their changes to the actuators: a SET request of the CSP server    *)
(* (rparam_server.c, serialize.c) and param_set of the consoles write the   *)
(* table, its callback (app_ctrl.c) reads the value back and posts an       *)
(* event (evt.c), and the Ctrl task hands the events to its handlers.       *)
(*                                                                         *)
(* The tasks that write the table take turns at any point: no table has a   *)
(* lock, and the callback logs, which may wait, between its read and its    *)
(* post.  The consoles are the command line and the xTP bridge; the remote  *)
(* shell runs in the CSP task itself.  A value is one of a few; a SET is    *)
(* whole (its last item is not cut).                                        *)
(***************************************************************************)
EXTENDS Integers, Sequences

CONSTANTS
    Consoles,       \* tasks that run param_set
    Csp,            \* the CSP server task
    Addrs,          \* the addresses of table 2 that are written
    Strangers,      \* addresses that are not in the table
    Values, Default,
    MaxItems,       \* of a SET
    EVT_QUEUE_LEN,
    None

Tasks == Consoles \cup {Csp}

ASSUME ManualControlAssumption ==
    /\ Csp \notin Consoles
    /\ Default \in Values /\ None \notin Values
    /\ Addrs \cap Strangers = {}
    /\ MaxItems \in Nat /\ EVT_QUEUE_LEN \in Nat \ {0}

VARIABLES
    memory,       \* of table 2
    callback,     \* the table has its callback (Ctrl has started)
    s_queue,      \* events: of which actuator, and the value
    handled,      \* of each actuator: the last value its handler was called with
    task,         \* of each task: where it stands in gs_param_set and the callback
    request,      \* the items of the SET in progress
    applied,      \* how many of them have been written
    reply,        \* its reply: "ok", "error", or "none" (so far, or for want of a buffer)
    \* history:
    overwritten,  \* the addresses a console has written since an item of the SET did
    unreported    \* the addresses whose last value the handlers may never see

server == <<request, applied, reply>>
vars == <<memory, callback, s_queue, handled, task, server, overwritten, unreported>>

(***************************************************************************)
(* The event of an address, which tells the handlers the actuator: its      *)
(* type and its index within the type.  Other addresses have none.          *)
(***************************************************************************)
NoEvent == [type |-> "none", index |-> 0]
Event(type, index) == [type |-> type, index |-> index]

\* Fault: the second group of eight is not told from the first.
Fault_EventOf(addr) ==
    CASE addr \in 87 .. 94 -> Event("SL_CTRL", addr - 87)
      [] addr \in 95 .. 102 -> Event("SL_CTRL", addr - 95)
      [] OTHER -> NoEvent

EventOf(addr) ==
    CASE addr = 17 -> Event("SLN_MODE", 0)
      [] addr \in 18 .. 21 -> Event("SLN_CTRL", addr - 18)
      [] addr = 86 -> Event("SL_MODE", 0)
      [] addr \in 87 .. 94 -> Event("SL_CTRL", addr - 87)
      [] addr \in 95 .. 102 -> Event("SL_CTRL", 8 + (addr - 95))
      [] addr = 110 -> Event("PDLS_MODE", 0)
      [] addr = 135 -> Event("HD4_MODE", 0)
      [] addr \in 136 .. 143 -> Event("HD4_CTRL", addr - 136)
      [] addr = 144 -> Event("VAL_CFG", 0)
      [] addr = 145 -> Event("VAL_CTRL", 0)
      [] addr = 162 -> Event("TEC_MODE", 0)
      [] addr \in 163 .. 170 -> Event("TEC_TEMP", (addr - 163) \div 2)
      [] addr = 203 -> Event("HTER_MODE", 0)
      [] addr \in 204 .. 219 -> Event("HTER_TEMP", (addr - 204) \div 2)
      [] OTHER -> NoEvent

\* The rows of table 2 that control something, element by element.
ControlRows ==
    {17} \cup 18 .. 21 \cup {86} \cup 87 .. 102 \cup {135} \cup 136 .. 143 \cup {144, 145, 162}
        \cup {163 + 2 * i : i \in 0 .. 3} \cup {203} \cup {204 + 2 * i : i \in 0 .. 7}

Controls == {addr \in Addrs : EventOf(addr) # NoEvent}

ASSUME RowsAssumption == Controls \subseteq ControlRows

Actuators == {EventOf(addr) : addr \in Controls}

Item == [addr : Addrs, value : Values] \cup [addr : Strangers, value : {Default}]
Idle == [pc |-> "idle", addr |-> 0, value |-> Default]

Init ==
    /\ memory = [addr \in Addrs |-> Default]
    /\ callback = FALSE /\ s_queue = <<>>
    /\ handled = [act \in Actuators |-> None]
    /\ task = [t \in Tasks |-> Idle]
    /\ request = <<>> /\ applied = 0 /\ reply = "none"
    /\ overwritten = {} /\ unreported = Addrs

\* The items of the SET that have written an address.
Writes(addr) == {k \in 1 .. applied : request[k].addr = addr}

\* Between the write of an address and the post of its event.
Busy(t, addr) == task[t].pc \in {"notify", "post"} /\ task[t].addr = addr

\* gs_param_set: the value is written.  The value of the address is
\* reported by this task alone, unless another is about to report as well.
Store(t, addr, value) ==
    /\ memory' = [memory EXCEPT ![addr] = value]
    /\ task' = [task EXCEPT ![t] = [pc |-> "notify", addr |-> addr, value |-> Default]]
    /\ overwritten' = IF t = Csp THEN overwritten \ {addr}
                      ELSE IF Writes(addr) # {} THEN overwritten \cup {addr} ELSE overwritten
    /\ unreported' = IF \E u \in Tasks \ {t} : Busy(u, addr)
                     THEN unreported \cup {addr} ELSE unreported \ {addr}
    /\ UNCHANGED <<callback, s_queue, handled>>

\* Back in the caller: the SET goes on with its next item.
Returned(t) == IF t = Csp THEN [Idle EXCEPT !.pc = "items"] ELSE Idle

\* gs_param_set calls the callback, which reads the value back;
Callback(t) ==
    /\ task[t].pc = "notify" /\ callback /\ EventOf(task[t].addr) # NoEvent
    /\ task' = [task EXCEPT ![t].pc = "post", ![t].value = memory[task[t].addr]]
    /\ UNCHANGED <<memory, callback, s_queue, handled, server, overwritten, unreported>>

\* or the table has none yet, or none for this address.
NoCallback(t) ==
    /\ task[t].pc = "notify" /\ ~(callback /\ EventOf(task[t].addr) # NoEvent)
    /\ task' = [task EXCEPT ![t] = Returned(t)]
    /\ unreported' = unreported \cup {task[t].addr}
    /\ UNCHANGED <<memory, callback, s_queue, handled, server, overwritten>>

\* EVT_Post: the event is queued, or dropped when the queue is full.
EVT_Post(t) ==
    LET event == [of |-> EventOf(task[t].addr), value |-> task[t].value]
    IN  /\ task[t].pc = "post"
        /\ IF Len(s_queue) < EVT_QUEUE_LEN
           THEN s_queue' = Append(s_queue, event) /\ UNCHANGED unreported
           ELSE unreported' = unreported \cup {task[t].addr} /\ UNCHANGED s_queue
        /\ task' = [task EXCEPT ![t] = Returned(t)]
        /\ UNCHANGED <<memory, callback, handled, server, overwritten>>

gs_param_set(t) == Callback(t) \/ NoCallback(t) \/ EVT_Post(t)

\* A console writes one address.  param_set does not ask for one of a row; the
\* addresses between the rows are left out.
CMD_ParamSet(t) ==
    /\ t \in Consoles /\ task[t].pc = "idle"
    /\ \E addr \in Addrs, value \in Values : Store(t, addr, value)
    /\ UNCHANGED server

(***************************************************************************)
(* The CSP server.                                                          *)
(***************************************************************************)
\* A reply is lost when there is no buffer for it.
Reply(answers) ==
    /\ reply' \in answers
    /\ task' = [task EXCEPT ![Csp] = [Idle EXCEPT !.pc = "replied"]]

ReceiveSet ==
    /\ task[Csp].pc = "idle"
    /\ \E n \in 0 .. MaxItems : request' \in [1 .. n -> Item]
    /\ task' = [task EXCEPT ![Csp].pc = "items"]
    /\ UNCHANGED <<memory, callback, s_queue, handled, applied, reply, overwritten, unreported>>

\* A table that does not exist, or a checksum that is not the table's.
RefuseSet ==
    /\ task[Csp].pc = "items" /\ applied = 0
    /\ Reply({"error", "none"})
    /\ UNCHANGED <<memory, callback, s_queue, handled, request, applied, overwritten, unreported>>

\* gs_param_deserialize: item by item, until one is of no row of the table.
NextItem == request[applied + 1]
More == task[Csp].pc = "items" /\ applied < Len(request)

\* Fault: an item is written whether or not the table has its address.
Fault_SetItem ==
    /\ More
    /\ Store(Csp, NextItem.addr, NextItem.value)
    /\ applied' = applied + 1
    /\ UNCHANGED <<request, reply>>

SetItem ==
    /\ More /\ NextItem.addr \in Addrs
    /\ Store(Csp, NextItem.addr, NextItem.value)
    /\ applied' = applied + 1
    /\ UNCHANGED <<request, reply>>

\* Fault: the item is passed over, as in the list of a GET.
Fault_StopAtStranger ==
    /\ More /\ NextItem.addr \notin Addrs
    /\ applied' = applied + 1
    /\ UNCHANGED <<memory, callback, s_queue, handled, task, request, reply, overwritten, unreported>>

StopAtStranger ==
    /\ More /\ NextItem.addr \notin Addrs
    /\ Reply({"error", "none"})
    /\ UNCHANGED <<memory, callback, s_queue, handled, request, applied, overwritten, unreported>>

\* SET_OK, or an error when there is no buffer to echo the items in.
FinishSet ==
    /\ task[Csp].pc = "items" /\ applied = Len(request)
    /\ Reply({"ok", "error", "none"})
    /\ UNCHANGED <<memory, callback, s_queue, handled, request, applied, overwritten, unreported>>

\* The packet is freed; the server waits for the next.
FreePacket ==
    /\ task[Csp].pc = "replied"
    /\ request' = <<>> /\ applied' = 0 /\ reply' = "none"
    /\ overwritten' = {}
    /\ task' = [task EXCEPT ![Csp] = Idle]
    /\ UNCHANGED <<memory, callback, s_queue, handled, unreported>>

handle_set == RefuseSet \/ SetItem \/ StopAtStranger \/ FinishSet \/ FreePacket

(***************************************************************************)
(* The Ctrl task: binds the queue, then the callback, and hands each event  *)
(* to the handlers, of which one knows its type.                            *)
(***************************************************************************)
BindCallback ==
    /\ ~callback
    /\ callback' = TRUE
    /\ UNCHANGED <<memory, s_queue, handled, task, server, overwritten, unreported>>

EVT_AsyncProcess ==
    /\ callback /\ s_queue # <<>>
    /\ handled' = [handled EXCEPT ![Head(s_queue).of] = Head(s_queue).value]
    /\ s_queue' = Tail(s_queue)
    /\ UNCHANGED <<memory, callback, task, server, overwritten, unreported>>

App_CtrlTask == BindCallback \/ EVT_AsyncProcess

Next ==
    \/ ReceiveSet \/ handle_set
    \/ \E t \in Tasks : gs_param_set(t) \/ CMD_ParamSet(t)
    \/ App_CtrlTask

Spec == Init /\ [][Next]_vars
--------------------------------------------------------------------------------
\* Every variable has its type.
ControlTypeOK ==
    /\ memory \in [Addrs -> Values]
    /\ callback \in BOOLEAN
    /\ s_queue \in Seq([of : Actuators, value : Values]) /\ Len(s_queue) <= EVT_QUEUE_LEN
    /\ handled \in [Actuators -> Values \cup {None}]
    /\ task \in [Tasks -> [pc : {"idle", "items", "notify", "post", "replied"},
                           addr : Addrs \cup {0}, value : Values]]
    /\ \A t \in Tasks :
        /\ task[t].pc \in {"notify", "post"} => task[t].addr \in Addrs
        /\ task[t].pc = "post" => EventOf(task[t].addr) # NoEvent
    /\ request \in Seq(Item) /\ applied \in 0 .. Len(request)
    /\ reply \in {"ok", "error", "none"}
    /\ overwritten \subseteq Addrs /\ unreported \subseteq Addrs

\* A SET has written a prefix of its items, the last of them on an address
\* standing, and all of them when it is answered with SET_OK; an error may
\* follow any prefix, the whole of them included.  What a console writes later
\* stands (serialize.c:319-334, rparam_server.c:208-222).
SetAppliesPrefix ==
    /\ \A addr \in Addrs \ overwritten :
        \A k \in Writes(addr) :
            (\A j \in Writes(addr) : j <= k) => memory[addr] = request[k].value
    /\ reply = "ok" =>
        /\ \A k \in DOMAIN request : request[k].addr \in Addrs
        /\ applied = Len(request)

\* The last event on an actuator that waits, if one does, carries the value of
\* the table, and otherwise its handler had that value, for every address whose
\* event was posted, by a task that was the only one then to write the address
\* (app_ctrl.c:33-157, evt.c:53-65).
LastOf(act, i) ==
    /\ i \in DOMAIN s_queue /\ s_queue[i].of = act
    /\ \A j \in DOMAIN s_queue : j > i => s_queue[j].of # act

HandlersFollowTable ==
    \A addr \in Controls \ unreported :
        \/ \E t \in Tasks : Busy(t, addr)
        \/ LET act == EventOf(addr) IN
           /\ \A i \in DOMAIN s_queue : LastOf(act, i) => s_queue[i].value = memory[addr]
           /\ (\A i \in DOMAIN s_queue : s_queue[i].of # act) => handled[act] = memory[addr]
================================================================================
