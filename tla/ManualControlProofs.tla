------------------------- MODULE ManualControlProofs -------------------------
(***************************************************************************)
(* What ManualControl promises for any set of consoles, addresses, values, *)
(* SETs of any length and a queue of any length: its types, that a SET     *)
(* writes a prefix of its items, and that the handlers follow the table.   *)
(***************************************************************************)
EXTENDS ManualControl, TLAPS

(***************************************************************************)
(* Events.  An address is recovered from its event, so that no two rows of *)
(* the table share one.                                                    *)
(***************************************************************************)
AddrOf(e) ==
    CASE e.type = "SLN_MODE" -> 17
      [] e.type = "SLN_CTRL" -> 18 + e.index
      [] e.type = "SL_MODE" -> 86
      [] e.type = "SL_CTRL" -> 87 + e.index
      [] e.type = "HD4_MODE" -> 135
      [] e.type = "HD4_CTRL" -> 136 + e.index
      [] e.type = "VAL_CFG" -> 144
      [] e.type = "VAL_CTRL" -> 145
      [] e.type = "TEC_MODE" -> 162
      [] e.type = "TEC_TEMP" -> 163 + 2 * e.index
      [] e.type = "HTER_MODE" -> 203
      [] e.type = "HTER_TEMP" -> 204 + 2 * e.index
      [] OTHER -> 0

LEMMA Halved == ASSUME NEW i \in 0 .. 7 PROVE (2 * i) \div 2 = i
  OBVIOUS

LEMMA AddrOfEvent ==
  ASSUME NEW a \in ControlRows
  PROVE  AddrOf(EventOf(a)) = a
<1>1. CASE a \in 18 .. 21
  <2>1. EventOf(a) = Event("SLN_CTRL", a - 18)  BY <1>1 DEF EventOf
  <2>. QED  BY <1>1, <2>1 DEF AddrOf, Event
<1>2. CASE a \in 87 .. 94
  <2>1. EventOf(a) = Event("SL_CTRL", a - 87)  BY <1>2 DEF EventOf
  <2>. QED  BY <1>2, <2>1 DEF AddrOf, Event
<1>3. CASE a \in 95 .. 102
  <2>1. EventOf(a) = Event("SL_CTRL", 8 + (a - 95))  BY <1>3 DEF EventOf
  <2>. QED  BY <1>3, <2>1 DEF AddrOf, Event
<1>4. CASE a \in 136 .. 143
  <2>1. EventOf(a) = Event("HD4_CTRL", a - 136)  BY <1>4 DEF EventOf
  <2>. QED  BY <1>4, <2>1 DEF AddrOf, Event
<1>5. CASE \E i \in 0 .. 3 : a = 163 + 2 * i
  <2>1. PICK i \in 0 .. 3 : a = 163 + 2 * i  BY <1>5
  <2>2. (a - 163) \div 2 = i  BY <2>1, Halved
  <2>3. EventOf(a) = Event("TEC_TEMP", i)  BY <2>1, <2>2 DEF EventOf
  <2>. QED  BY <2>1, <2>3 DEF AddrOf, Event
<1>6. CASE \E i \in 0 .. 7 : a = 204 + 2 * i
  <2>1. PICK i \in 0 .. 7 : a = 204 + 2 * i  BY <1>6
  <2>2. (a - 204) \div 2 = i  BY <2>1, Halved
  <2>3. EventOf(a) = Event("HTER_TEMP", i)  BY <2>1, <2>2 DEF EventOf
  <2>. QED  BY <2>1, <2>3 DEF AddrOf, Event
<1>7. CASE a \in {17, 86, 135, 144, 145, 162, 203}
  <2>1. /\ EventOf(17) = Event("SLN_MODE", 0) /\ EventOf(86) = Event("SL_MODE", 0)
        /\ EventOf(135) = Event("HD4_MODE", 0) /\ EventOf(144) = Event("VAL_CFG", 0)
        /\ EventOf(145) = Event("VAL_CTRL", 0) /\ EventOf(162) = Event("TEC_MODE", 0)
        /\ EventOf(203) = Event("HTER_MODE", 0)
    BY DEF EventOf
  <2>2. /\ AddrOf(Event("SLN_MODE", 0)) = 17 /\ AddrOf(Event("SL_MODE", 0)) = 86
        /\ AddrOf(Event("HD4_MODE", 0)) = 135 /\ AddrOf(Event("VAL_CFG", 0)) = 144
        /\ AddrOf(Event("VAL_CTRL", 0)) = 145 /\ AddrOf(Event("TEC_MODE", 0)) = 162
        /\ AddrOf(Event("HTER_MODE", 0)) = 203
    BY DEF AddrOf, Event
  <2>. QED  BY <1>7, <2>1, <2>2
<1>. QED  BY <1>1, <1>2, <1>3, <1>4, <1>5, <1>6, <1>7 DEF ControlRows

\* Every row of the table that controls something has an event of its own
\* (app_ctrl.c:33-157).
THEOREM EventsTellRowsApart ==
  \A a, b \in ControlRows : EventOf(a) = EventOf(b) => a = b
BY AddrOfEvent

----------------------------------------------------------------------------
(* Types *)

\* The writes of the table keep the types.
LEMMA StoreTypes ==
  ASSUME ControlTypeOK, NEW t \in Tasks, NEW addr \in Addrs, NEW value \in Values,
         Store(t, addr, value), request' = request, applied' \in 0 .. Len(request),
         reply' = reply
  PROVE  ControlTypeOK'
<1>1. Default \in Values  BY ManualControlAssumption
<1>2. [pc |-> "notify", addr |-> addr, value |-> Default]
        \in [pc : {"idle", "items", "notify", "post", "replied"},
             addr : Addrs \cup {0}, value : Values]
  BY <1>1
<1>3. task' \in [Tasks -> [pc : {"idle", "items", "notify", "post", "replied"},
                           addr : Addrs \cup {0}, value : Values]]
  BY <1>2 DEF Store, ControlTypeOK
<1>4. \A u \in Tasks : /\ task'[u].pc \in {"notify", "post"} => task'[u].addr \in Addrs
                       /\ task'[u].pc = "post" => EventOf(task'[u].addr) # NoEvent
  BY DEF Store, ControlTypeOK
<1>5. memory' \in [Addrs -> Values] /\ overwritten' \subseteq Addrs /\ unreported' \subseteq Addrs
  BY DEF Store, ControlTypeOK
<1>. QED  BY <1>3, <1>4, <1>5 DEF Store, ControlTypeOK

\* A task that goes back to its caller, or replies, keeps the types.
LEMMA TaskTypes ==
  ASSUME ControlTypeOK, NEW t \in Tasks, NEW pc \in {"idle", "items", "replied"},
         task' = [task EXCEPT ![t] = [Idle EXCEPT !.pc = pc]]
  PROVE  /\ task' \in [Tasks -> [pc : {"idle", "items", "notify", "post", "replied"},
                                 addr : Addrs \cup {0}, value : Values]]
         /\ \A u \in Tasks :
              /\ task'[u].pc \in {"notify", "post"} => task'[u].addr \in Addrs
              /\ task'[u].pc = "post" => EventOf(task'[u].addr) # NoEvent
<1>1. Default \in Values  BY ManualControlAssumption
<1>2. [Idle EXCEPT !.pc = pc] = [pc |-> pc, addr |-> 0, value |-> Default]  BY DEF Idle
<1>3. [Idle EXCEPT !.pc = pc] \in [pc : {"idle", "items", "notify", "post", "replied"},
                                    addr : Addrs \cup {0}, value : Values]
  BY <1>1, <1>2
<1>. QED  BY <1>2, <1>3 DEF ControlTypeOK

\* A queue that is not empty gives one of its elements and keeps the others.
LEMMA HeadAndTail ==
  ASSUME NEW S, NEW q \in Seq(S), q # <<>>
  PROVE  /\ Head(q) \in S /\ Head(q) = q[1]
         /\ Tail(q) \in Seq(S) /\ Len(q) \in Nat \ {0}
         /\ Len(Tail(q)) = Len(q) - 1
         /\ \A i \in 1 .. Len(q) - 1 : Tail(q)[i] = q[i + 1]
  OBVIOUS

LEMMA ReturnedIs ==
  ASSUME NEW t \in Tasks
  PROVE  \E pc \in {"idle", "items", "replied"} : Returned(t) = [Idle EXCEPT !.pc = pc]
<1>1. Idle = [Idle EXCEPT !.pc = "idle"]  BY DEF Idle
<1>. QED  BY <1>1 DEF Returned

LEMMA InitTypes == ASSUME Init PROVE ControlTypeOK
<1>1. Default \in Values  BY ManualControlAssumption
<1>2. memory \in [Addrs -> Values] /\ callback \in BOOLEAN
  BY <1>1 DEF Init
<1>3. s_queue \in Seq([of : Actuators, value : Values]) /\ Len(s_queue) <= EVT_QUEUE_LEN
  BY ManualControlAssumption DEF Init
<1>4. handled \in [Actuators -> Values \cup {None}]
  BY DEF Init
<1>5. \A t \in Tasks : task[t] = [pc |-> "idle", addr |-> 0, value |-> Default]
  BY DEF Init, Idle
<1>6. task \in [Tasks -> [pc : {"idle", "items", "notify", "post", "replied"},
                          addr : Addrs \cup {0}, value : Values]]
  BY <1>1 DEF Init, Idle
<1>7. request \in Seq(Item) /\ applied \in 0 .. Len(request) /\ reply = "none"
  BY DEF Init
<1>8. overwritten \subseteq Addrs /\ unreported \subseteq Addrs
  BY DEF Init
<1>. QED  BY <1>2, <1>3, <1>4, <1>5, <1>6, <1>7, <1>8 DEF ControlTypeOK

\* Where the server stands with its request.
ServerInv ==
    /\ task[Csp].pc = "idle" =>
         request = <<>> /\ applied = 0 /\ reply = "none" /\ overwritten = {}
    /\ reply # "none" => task[Csp].pc = "replied"
    /\ \A k \in 1 .. applied : request[k].addr \in Addrs

TypeInv == ControlTypeOK /\ ServerInv

LEMMA TypeStep == ASSUME TypeInv, [Next]_vars PROVE TypeInv'
<1>. /\ Default \in Values /\ EVT_QUEUE_LEN \in Nat
     /\ Csp \in Tasks /\ Csp \notin Consoles /\ Consoles \subseteq Tasks
  BY ManualControlAssumption DEF Tasks
<1>. USE DEF TypeInv
<1>1. ASSUME ReceiveSet PROVE TypeInv'
  <2>1. PICK n \in 0 .. MaxItems : request' \in [1 .. n -> Item]  BY <1>1 DEF ReceiveSet
  <2>2. request' \in Seq(Item) /\ Len(request') \in Nat
    BY <2>1, ManualControlAssumption
  <2>3. task[Csp].pc = "idle" /\ applied = 0 /\ reply = "none"
    BY <1>1 DEF ReceiveSet, ServerInv
  <2>4. task' = [task EXCEPT ![Csp].pc = "items"]  BY <1>1 DEF ReceiveSet
  <2>5. /\ task' \in [Tasks -> [pc : {"idle", "items", "notify", "post", "replied"},
                                addr : Addrs \cup {0}, value : Values]]
        /\ task'[Csp].pc = "items"
        /\ \A u \in Tasks : u # Csp => task'[u] = task[u]
    BY <2>4 DEF ControlTypeOK
  <2>6. ControlTypeOK'
    BY <1>1, <2>2, <2>3, <2>5 DEF ReceiveSet, ControlTypeOK
  <2>. QED  BY <1>1, <2>3, <2>5, <2>6 DEF ReceiveSet, ServerInv
<1>2. ASSUME RefuseSet \/ StopAtStranger \/ FinishSet PROVE TypeInv'
  <2>1. /\ task[Csp].pc = "items"
        /\ reply' \in {"ok", "error", "none"}
        /\ task' = [task EXCEPT ![Csp] = [Idle EXCEPT !.pc = "replied"]]
        /\ UNCHANGED <<memory, callback, s_queue, handled, request, applied,
                       overwritten, unreported>>
    BY <1>2 DEF RefuseSet, StopAtStranger, FinishSet, Reply, More
  <2>2. ControlTypeOK'  BY <2>1, TaskTypes DEF ControlTypeOK
  <2>3. task'[Csp].pc = "replied"  BY <2>1 DEF ControlTypeOK, Idle
  <2>. QED  BY <2>1, <2>2, <2>3 DEF ServerInv
<1>3. ASSUME SetItem PROVE TypeInv'
  <2>1. /\ task[Csp].pc = "items" /\ applied < Len(request)
        /\ applied' = applied + 1 /\ UNCHANGED <<request, reply>>
        /\ NextItem.addr \in Addrs
        /\ Store(Csp, NextItem.addr, NextItem.value)
    BY <1>3 DEF SetItem, More
  <2>2. request \in Seq(Item) /\ applied \in 0 .. Len(request) /\ Len(request) \in Nat
    BY DEF ControlTypeOK
  <2>3. NextItem \in Item  BY <2>1, <2>2 DEF NextItem
  <2>4. NextItem.value \in Values  BY <2>3 DEF Item
  <2>5. applied' \in 0 .. Len(request)  BY <2>1, <2>2
  <2>6. ControlTypeOK'  BY <2>1, <2>4, <2>5, StoreTypes
  <2>7. task'[Csp].pc = "notify"  BY <2>1 DEF Store, ControlTypeOK
  <2>8. reply = "none"  BY <2>1 DEF ServerInv
  <2>9. \A k \in 1 .. applied' : request'[k].addr \in Addrs
    BY <2>1, <2>2 DEF ServerInv, NextItem
  <2>. QED  BY <2>1, <2>6, <2>7, <2>8, <2>9 DEF ServerInv
<1>4. ASSUME FreePacket PROVE TypeInv'
  <2>1. /\ request' = <<>> /\ applied' = 0 /\ reply' = "none" /\ overwritten' = {}
        /\ task' = [task EXCEPT ![Csp] = Idle]
        /\ UNCHANGED <<memory, callback, s_queue, handled, unreported>>
    BY <1>4 DEF FreePacket
  <2>2. Idle = [Idle EXCEPT !.pc = "idle"]  BY DEF Idle
  <2>3. task' = [task EXCEPT ![Csp] = [Idle EXCEPT !.pc = "idle"]]  BY <2>1, <2>2
  <2>4. request' \in Seq(Item) /\ applied' \in 0 .. Len(request')  BY <2>1
  <2>5. ControlTypeOK'  BY <2>1, <2>3, <2>4, TaskTypes DEF ControlTypeOK
  <2>. QED  BY <2>1, <2>5 DEF ServerInv
<1>5. ASSUME NEW t \in Tasks, Callback(t) PROVE TypeInv'
  <2>1. /\ task[t].pc = "notify" /\ EventOf(task[t].addr) # NoEvent
        /\ task' = [task EXCEPT ![t].pc = "post", ![t].value = memory[task[t].addr]]
        /\ UNCHANGED <<memory, callback, s_queue, handled, server, overwritten, unreported>>
    BY <1>5 DEF Callback
  <2>2. task[t].addr \in Addrs /\ memory[task[t].addr] \in Values
    BY <2>1 DEF ControlTypeOK
  <2>3. /\ task' \in [Tasks -> [pc : {"idle", "items", "notify", "post", "replied"},
                                addr : Addrs \cup {0}, value : Values]]
        /\ task'[t].pc = "post" /\ task'[t].addr = task[t].addr
        /\ \A u \in Tasks : u # t => task'[u] = task[u]
    BY <2>1, <2>2 DEF ControlTypeOK
  <2>4. ControlTypeOK'  BY <2>1, <2>2, <2>3 DEF ControlTypeOK, server
  <2>. QED  BY <2>1, <2>3, <2>4 DEF ServerInv, server
<1>6. ASSUME NEW t \in Tasks, NoCallback(t) \/ EVT_Post(t) PROVE TypeInv'
  <2>1. /\ task[t].pc \in {"notify", "post"}
        /\ task' = [task EXCEPT ![t] = Returned(t)]
        /\ UNCHANGED <<memory, callback, handled, server, overwritten>>
    BY <1>6 DEF NoCallback, EVT_Post
  <2>2. task[t].addr \in Addrs  BY <2>1 DEF ControlTypeOK
  <2>3. PICK pc \in {"idle", "items", "replied"} : Returned(t) = [Idle EXCEPT !.pc = pc]
    BY ReturnedIs
  <2>4. task' = [task EXCEPT ![t] = [Idle EXCEPT !.pc = pc]]  BY <2>1, <2>3
  <2>5. unreported' \subseteq Addrs
    BY <1>6, <2>2 DEF NoCallback, EVT_Post, ControlTypeOK
  <2>6. s_queue' \in Seq([of : Actuators, value : Values]) /\ Len(s_queue') <= EVT_QUEUE_LEN
    <3>1. CASE UNCHANGED s_queue  BY <3>1 DEF ControlTypeOK
    <3>2. CASE ~ UNCHANGED s_queue
      <4>1. /\ task[t].pc = "post" /\ Len(s_queue) < EVT_QUEUE_LEN
            /\ s_queue' = Append(s_queue, [of |-> EventOf(task[t].addr), value |-> task[t].value])
        BY <1>6, <3>2 DEF NoCallback, EVT_Post
      <4>2. task[t].value \in Values /\ EventOf(task[t].addr) # NoEvent
        BY <4>1 DEF ControlTypeOK
      <4>3. EventOf(task[t].addr) \in Actuators  BY <2>2, <4>2 DEF Actuators, Controls
      <4>4. [of |-> EventOf(task[t].addr), value |-> task[t].value]
              \in [of : Actuators, value : Values]
        BY <4>2, <4>3
      <4>5. s_queue \in Seq([of : Actuators, value : Values])  BY DEF ControlTypeOK
      <4>. QED  BY <4>1, <4>4, <4>5
    <3>. QED  BY <3>1, <3>2
  <2>7. ControlTypeOK'  BY <2>1, <2>4, <2>5, <2>6, TaskTypes DEF ControlTypeOK, server
  <2>8. task'[Csp].pc \in {task[Csp].pc, "items"} /\ (t = Csp => task'[Csp].pc = "items")
    BY <2>1 DEF ControlTypeOK, Returned, Idle
  <2>9. t = Csp => reply = "none"  BY <2>1 DEF ServerInv
  <2>10. t # Csp => task'[Csp] = task[Csp]  BY <2>1 DEF ControlTypeOK
  <2>. QED  BY <2>1, <2>7, <2>8, <2>9, <2>10 DEF ServerInv, server
<1>7. ASSUME NEW t \in Tasks, CMD_ParamSet(t) PROVE TypeInv'
  <2>1. t \in Consoles /\ UNCHANGED <<request, applied, reply>>
    BY <1>7 DEF CMD_ParamSet, server
  <2>2. PICK addr \in Addrs, value \in Values : Store(t, addr, value)
    BY <1>7 DEF CMD_ParamSet
  <2>3. applied' \in 0 .. Len(request)  BY <2>1 DEF ControlTypeOK
  <2>4. ControlTypeOK'  BY <2>1, <2>2, <2>3, StoreTypes
  <2>5. task'[Csp] = task[Csp]  BY <2>1, <2>2 DEF Store, ControlTypeOK
  <2>6. applied = 0 => Writes(addr) = {}
    BY DEF Writes
  <2>7. task[Csp].pc = "idle" => overwritten' = overwritten
    BY <2>1, <2>2, <2>6 DEF Store, ServerInv
  <2>. QED  BY <2>1, <2>4, <2>5, <2>7 DEF ServerInv
<1>8. ASSUME BindCallback PROVE TypeInv'
  BY <1>8 DEF BindCallback, ControlTypeOK, ServerInv, server
<1>9. ASSUME EVT_AsyncProcess PROVE TypeInv'
  <2>1. /\ s_queue # <<>>
        /\ handled' = [handled EXCEPT ![Head(s_queue).of] = Head(s_queue).value]
        /\ s_queue' = Tail(s_queue)
        /\ UNCHANGED <<memory, callback, task, server, overwritten, unreported>>
    BY <1>9 DEF EVT_AsyncProcess
  <2>2. s_queue \in Seq([of : Actuators, value : Values]) /\ Len(s_queue) <= EVT_QUEUE_LEN
    BY DEF ControlTypeOK
  <2>3. Head(s_queue) \in [of : Actuators, value : Values]
    BY <2>1, <2>2, HeadAndTail
  <2>4. handled' \in [Actuators -> Values \cup {None}]  BY <2>1, <2>3 DEF ControlTypeOK
  <2>5. s_queue' \in Seq([of : Actuators, value : Values]) /\ Len(s_queue') <= EVT_QUEUE_LEN
    BY <2>1, <2>2
  <2>. QED  BY <2>1, <2>4, <2>5 DEF ControlTypeOK, ServerInv, server
<1>10. ASSUME UNCHANGED vars PROVE TypeInv'
  BY <1>10 DEF vars, server, ControlTypeOK, ServerInv, Writes
<1>. QED
  BY <1>1, <1>2, <1>3, <1>4, <1>5, <1>6, <1>7, <1>8, <1>9, <1>10
     DEF Next, handle_set, gs_param_set, App_CtrlTask

\* Every variable has its type, and the server its place in the request.
THEOREM ControlTypeCorrect == Spec => []ControlTypeOK
<1>1. Init => TypeInv
  <2>. SUFFICES ASSUME Init PROVE TypeInv  OBVIOUS
  <2>1. request = <<>> /\ applied = 0 /\ reply = "none" /\ overwritten = {}
    BY DEF Init
  <2>2. ServerInv  BY <2>1 DEF ServerInv
  <2>. QED  BY <2>2, InitTypes DEF TypeInv
<1>2. TypeInv /\ [Next]_vars => TypeInv'  BY TypeStep
<1>. QED  BY <1>1, <1>2, PTL DEF Spec, TypeInv
----------------------------------------------------------------------------
(* A SET writes a prefix of its items *)

LEMMA SetStep == ASSUME TypeInv, SetAppliesPrefix, [Next]_vars PROVE SetAppliesPrefix'
<1>. /\ Csp \in Tasks /\ Csp \notin Consoles /\ Consoles \subseteq Tasks
  BY ManualControlAssumption DEF Tasks
<1>0. request \in Seq(Item) /\ applied \in 0 .. Len(request) /\ Len(request) \in Nat
  BY DEF TypeInv, ControlTypeOK
<1>1. ASSUME ReceiveSet \/ FreePacket PROVE SetAppliesPrefix'
  <2>1. applied' = 0 /\ reply' = "none"
    BY <1>1 DEF ReceiveSet, FreePacket, TypeInv, ServerInv
  <2>2. \A addr : Writes(addr)' = {}
    BY <2>1 DEF Writes
  <2>. QED  BY <2>1, <2>2 DEF SetAppliesPrefix
<1>2. ASSUME RefuseSet \/ StopAtStranger PROVE SetAppliesPrefix'
  BY <1>2 DEF RefuseSet, StopAtStranger, Reply, SetAppliesPrefix, Writes
<1>3. ASSUME FinishSet PROVE SetAppliesPrefix'
  BY <1>0, <1>3 DEF FinishSet, Reply, SetAppliesPrefix, Writes, TypeInv, ServerInv
<1>4. ASSUME SetItem PROVE SetAppliesPrefix'
  <2>1. /\ task[Csp].pc = "items" /\ applied < Len(request)
        /\ applied' = applied + 1 /\ UNCHANGED <<request, reply>>
        /\ NextItem.addr \in Addrs
        /\ memory' = [memory EXCEPT ![NextItem.addr] = NextItem.value]
        /\ overwritten' = overwritten \ {NextItem.addr}
    BY <1>4 DEF SetItem, More, Store
  <2>2. reply' = "none"  BY <2>1 DEF TypeInv, ServerInv
  <2>3. ASSUME NEW addr \in Addrs, addr \notin overwritten', NEW k \in Writes(addr)',
               \A j \in Writes(addr)' : j <= k
        PROVE  memory'[addr] = request'[k].value
    <3>1. k \in 1 .. applied + 1 /\ request[k].addr = addr
      BY <2>1, <2>3 DEF Writes
    <3>2. CASE addr = NextItem.addr
      <4>1. applied + 1 \in Writes(addr)'
        BY <1>0, <2>1, <3>2 DEF Writes, NextItem
      <4>2. applied + 1 <= k  BY <2>3, <4>1
      <4>3. k = applied + 1  BY <1>0, <3>1, <4>2
      <4>. QED  BY <2>1, <3>2, <4>3 DEF NextItem, TypeInv, ControlTypeOK
    <3>3. CASE addr # NextItem.addr
      <4>1. k # applied + 1  BY <3>1, <3>3 DEF NextItem
      <4>2. k \in Writes(addr)  BY <1>0, <3>1, <4>1 DEF Writes
      <4>3. \A j \in Writes(addr) : j \in Writes(addr)'
        BY <1>0, <2>1 DEF Writes
      <4>4. \A j \in Writes(addr) : j <= k  BY <2>3, <4>3
      <4>5. addr \notin overwritten  BY <2>1, <2>3, <3>3
      <4>6. memory[addr] = request[k].value
        BY <4>2, <4>4, <4>5 DEF SetAppliesPrefix
      <4>. QED  BY <2>1, <3>3, <4>6 DEF TypeInv, ControlTypeOK
    <3>. QED  BY <3>2, <3>3
  <2>. QED  BY <2>2, <2>3 DEF SetAppliesPrefix
<1>5. ASSUME NEW t \in Tasks, gs_param_set(t) PROVE SetAppliesPrefix'
  <2>1. UNCHANGED <<memory, request, applied, reply, overwritten>>
    BY <1>5 DEF gs_param_set, Callback, NoCallback, EVT_Post, server
  <2>. QED  BY <2>1 DEF SetAppliesPrefix, Writes
<1>6. ASSUME NEW t \in Tasks, CMD_ParamSet(t) PROVE SetAppliesPrefix'
  <2>1. t # Csp /\ UNCHANGED <<request, applied, reply>>
    BY <1>6 DEF CMD_ParamSet, server
  <2>2. PICK addr \in Addrs, value \in Values : Store(t, addr, value)
    BY <1>6 DEF CMD_ParamSet
  <2>3. /\ memory' = [memory EXCEPT ![addr] = value]
        /\ overwritten' = IF Writes(addr) # {} THEN overwritten \cup {addr} ELSE overwritten
    BY <2>1, <2>2 DEF Store
  <2>4. \A a : Writes(a)' = Writes(a)  BY <2>1 DEF Writes
  <2>5. \A a \in Addrs \ overwritten' :
          a \notin overwritten /\ (a = addr => Writes(a) = {})
    BY <2>3
  <2>6. \A a \in Addrs : a # addr => memory'[a] = memory[a]
    BY <2>3 DEF TypeInv, ControlTypeOK
  <2>7. ASSUME NEW a \in Addrs \ overwritten', NEW k \in Writes(a)',
               \A j \in Writes(a)' : j <= k
        PROVE  memory'[a] = request'[k].value
    <3>1. a # addr /\ a \notin overwritten  BY <2>4, <2>5, <2>7
    <3>2. memory[a] = request[k].value
      BY <2>4, <2>7, <3>1 DEF SetAppliesPrefix
    <3>. QED  BY <2>1, <2>6, <3>1, <3>2
  <2>. QED  BY <2>1, <2>7 DEF SetAppliesPrefix
<1>7. ASSUME App_CtrlTask \/ UNCHANGED vars PROVE SetAppliesPrefix'
  <2>1. UNCHANGED <<memory, request, applied, reply, overwritten>>
    BY <1>7 DEF App_CtrlTask, BindCallback, EVT_AsyncProcess, vars, server
  <2>. QED  BY <2>1 DEF SetAppliesPrefix, Writes
<1>. QED
  BY <1>1, <1>2, <1>3, <1>4, <1>5, <1>6, <1>7 DEF Next, handle_set

\* A SET has written a prefix of its items, whichever task writes the table in
\* between, and an acknowledged SET all of them (serialize.c:319-334).
THEOREM SetsApplyPrefixes == Spec => []SetAppliesPrefix
<1>1. Init => TypeInv /\ SetAppliesPrefix
  <2>. SUFFICES ASSUME Init PROVE TypeInv /\ SetAppliesPrefix  OBVIOUS
  <2>1. request = <<>> /\ applied = 0 /\ reply = "none" /\ overwritten = {}
    BY DEF Init
  <2>2. ServerInv  BY <2>1 DEF ServerInv
  <2>3. \A addr : Writes(addr) = {}  BY <2>1 DEF Writes
  <2>4. SetAppliesPrefix  BY <2>1, <2>3 DEF SetAppliesPrefix
  <2>. QED  BY <2>2, <2>4, InitTypes DEF TypeInv
<1>2. TypeInv /\ SetAppliesPrefix /\ [Next]_vars => (TypeInv /\ SetAppliesPrefix)'
  BY TypeStep, SetStep
<1>. QED  BY <1>1, <1>2, PTL DEF Spec

----------------------------------------------------------------------------
(* The handlers follow the table *)

\* What the queue and the handlers say of an address.
Reported(addr) ==
    /\ \A i \in DOMAIN s_queue :
         LastOf(EventOf(addr), i) => s_queue[i].value = memory[addr]
    /\ (\A i \in DOMAIN s_queue : s_queue[i].of # EventOf(addr))
         => handled[EventOf(addr)] = memory[addr]

\* The strengthening: an address that is to be reported has one task at most
\* between its write and its event, and that task holds the table's value.
FollowInv ==
    \A addr \in Controls \ unreported :
        /\ \A t, u \in Tasks : Busy(t, addr) /\ Busy(u, addr) => t = u
        /\ \A t \in Tasks : (task[t].pc = "post" /\ task[t].addr = addr)
                                => task[t].value = memory[addr]
        /\ (\A t \in Tasks : ~ Busy(t, addr)) => Reported(addr)

LEMMA FollowStore ==
  ASSUME TypeInv, FollowInv, NEW t \in Tasks, NEW addr \in Addrs, NEW value \in Values,
         task[t].pc \notin {"notify", "post"}, Store(t, addr, value)
  PROVE  FollowInv'
<1>1. /\ memory' = [memory EXCEPT ![addr] = value]
      /\ task'[t].pc = "notify" /\ task'[t].addr = addr
      /\ \A u \in Tasks : u # t => task'[u] = task[u]
      /\ UNCHANGED <<s_queue, handled>>
  BY DEF Store, TypeInv, ControlTypeOK
<1>2. \A a \in Addrs : a # addr => memory'[a] = memory[a]
  BY <1>1 DEF TypeInv, ControlTypeOK
<1>3. SUFFICES ASSUME NEW a \in Controls \ unreported'
      PROVE  /\ \A x, y \in Tasks : Busy(x, a)' /\ Busy(y, a)' => x = y
             /\ \A x \in Tasks : (task'[x].pc = "post" /\ task'[x].addr = a)
                                    => task'[x].value = memory'[a]
             /\ (\A x \in Tasks : ~ Busy(x, a)') => Reported(a)'
  BY DEF FollowInv
<1>4. a \in Addrs  BY DEF Controls
<1>5. CASE a = addr
  <2>1. \A u \in Tasks \ {t} : ~ Busy(u, addr)
    BY <1>3, <1>5 DEF Store
  <2>2. \A u \in Tasks \ {t} : ~ Busy(u, addr)'
    BY <1>1, <2>1 DEF Busy
  <2>3. Busy(t, addr)'  BY <1>1 DEF Busy
  <2>4. \A x \in Tasks : ~ (task'[x].pc = "post" /\ task'[x].addr = addr)
    BY <1>1, <2>2 DEF Busy
  <2>. QED  BY <1>5, <2>2, <2>3, <2>4
<1>6. CASE a # addr
  <2>1. a \in Controls \ unreported  BY <1>3, <1>6 DEF Store
  <2>2. \A x \in Tasks : Busy(x, a)' <=> Busy(x, a)
    BY <1>1, <1>6 DEF Busy
  <2>3. \A x \in Tasks : (task'[x].pc = "post" /\ task'[x].addr = a)
                            => task'[x].value = memory'[a]
    BY <1>1, <1>2, <1>4, <1>6, <2>1 DEF FollowInv
  <2>4. Reported(a)' <=> Reported(a)
    BY <1>1, <1>2, <1>4, <1>6 DEF Reported, LastOf
  <2>. QED  BY <2>1, <2>2, <2>3, <2>4 DEF FollowInv
<1>. QED  BY <1>5, <1>6

LEMMA FollowPost ==
  ASSUME TypeInv, FollowInv, NEW t \in Tasks, EVT_Post(t),
         NEW addr \in Addrs, addr = task[t].addr
  PROVE  FollowInv'
<1> DEFINE event == [of |-> EventOf(addr), value |-> task[t].value]
<1>1. /\ task[t].pc = "post"
      /\ task' = [task EXCEPT ![t] = Returned(t)]
      /\ UNCHANGED <<memory, handled>>
  BY DEF EVT_Post
<1>2. EventOf(addr) # NoEvent
  BY <1>1 DEF TypeInv, ControlTypeOK
<1>3. addr \in Controls  BY <1>2 DEF Controls
<1>4. task'[t].pc \in {"idle", "items"}
  BY <1>1 DEF TypeInv, ControlTypeOK, Returned, Idle
<1>5. \A u \in Tasks : u # t => task'[u] = task[u]
  BY <1>1 DEF TypeInv, ControlTypeOK
<1>6. \/ unreported' = unreported \cup {addr} /\ s_queue' = s_queue
      \/ unreported' = unreported /\ s_queue' = Append(s_queue, event)
  BY DEF EVT_Post
<1>7. s_queue \in Seq([of : Actuators, value : Values])
  BY DEF TypeInv, ControlTypeOK
<1>8. SUFFICES ASSUME NEW a \in Controls \ unreported'
      PROVE  /\ \A x, y \in Tasks : Busy(x, a)' /\ Busy(y, a)' => x = y
             /\ \A x \in Tasks : (task'[x].pc = "post" /\ task'[x].addr = a)
                                    => task'[x].value = memory'[a]
             /\ (\A x \in Tasks : ~ Busy(x, a)') => Reported(a)'
  BY DEF FollowInv
<1>9. a \in Controls \ unreported  BY <1>6, <1>8
<1>10. \A x \in Tasks : Busy(x, a)' => Busy(x, a) /\ x # t
  BY <1>4, <1>5 DEF Busy
<1>11. \A x, y \in Tasks : Busy(x, a)' /\ Busy(y, a)' => x = y
  BY <1>9, <1>10 DEF FollowInv
<1>12. \A x \in Tasks : (task'[x].pc = "post" /\ task'[x].addr = a)
                            => task'[x].value = memory'[a]
  BY <1>1, <1>4, <1>5, <1>9 DEF FollowInv
<1>13. ASSUME \A x \in Tasks : ~ Busy(x, a)' PROVE Reported(a)'
  <2>1. CASE a = addr
    <3>1. s_queue' = Append(s_queue, event)  BY <1>6, <1>8, <2>1
    <3>2. task[t].value = memory[addr]
      BY <1>1, <1>9, <2>1 DEF FollowInv
    <3>3. /\ DOMAIN s_queue' = 1 .. Len(s_queue) + 1 /\ Len(s_queue) \in Nat
          /\ s_queue'[Len(s_queue) + 1].of = EventOf(addr)
          /\ s_queue'[Len(s_queue) + 1].value = task[t].value
      BY <1>7, <3>1
    <3>4. ASSUME NEW i \in DOMAIN s_queue', LastOf(EventOf(addr), i)'
          PROVE  s_queue'[i].value = memory'[addr]
      <4>1. i \in 1 .. Len(s_queue) + 1  BY <3>3
      <4>2. Len(s_queue) + 1 \in DOMAIN s_queue'  BY <3>3
      <4>3. ~ (Len(s_queue) + 1 > i)  BY <3>3, <3>4, <4>2 DEF LastOf
      <4>4. i = Len(s_queue) + 1  BY <3>3, <4>1, <4>3
      <4>. QED  BY <1>1, <3>2, <3>3, <4>4
    <3>5. \E i \in DOMAIN s_queue' : s_queue'[i].of = EventOf(addr)
      BY <3>3
    <3>. QED  BY <2>1, <3>4, <3>5 DEF Reported
  <2>2. CASE a # addr
    <3>1. EventOf(a) # EventOf(addr)
      BY <1>3, <2>2, EventsTellRowsApart, RowsAssumption
    <3>2. \A x \in Tasks : ~ Busy(x, a)
      BY <1>5, <1>13, <2>2 DEF Busy
    <3>3. Reported(a)  BY <1>9, <3>2 DEF FollowInv
    <3>4. CASE s_queue' = s_queue
      BY <1>1, <3>3, <3>4 DEF Reported, LastOf
    <3>5. CASE s_queue' = Append(s_queue, event)
      <4>1. /\ DOMAIN s_queue' = 1 .. Len(s_queue) + 1 /\ Len(s_queue) \in Nat
            /\ DOMAIN s_queue = 1 .. Len(s_queue)
            /\ s_queue'[Len(s_queue) + 1].of = EventOf(addr)
            /\ \A i \in DOMAIN s_queue : s_queue'[i] = s_queue[i]
        BY <1>7, <3>5
      <4>2. \A i \in DOMAIN s_queue' :
              LastOf(EventOf(a), i)' => i \in DOMAIN s_queue /\ LastOf(EventOf(a), i)
        BY <3>1, <4>1 DEF LastOf
      <4>3. (\A i \in DOMAIN s_queue' : s_queue'[i].of # EventOf(a))
              => \A i \in DOMAIN s_queue : s_queue[i].of # EventOf(a)
        BY <4>1
      <4>. QED  BY <1>1, <3>3, <4>1, <4>2, <4>3 DEF Reported
    <3>. QED  BY <1>6, <3>4, <3>5
  <2>. QED  BY <2>1, <2>2
<1>. QED  BY <1>11, <1>12, <1>13

LEMMA FollowProcess ==
  ASSUME TypeInv, FollowInv, EVT_AsyncProcess
  PROVE  FollowInv'
<1>1. /\ s_queue # <<>>
      /\ handled' = [handled EXCEPT ![Head(s_queue).of] = Head(s_queue).value]
      /\ s_queue' = Tail(s_queue)
      /\ UNCHANGED <<memory, task, unreported>>
  BY DEF EVT_AsyncProcess
<1>2. s_queue \in Seq([of : Actuators, value : Values])
  BY DEF TypeInv, ControlTypeOK
<1>3. /\ Head(s_queue) = s_queue[1] /\ Head(s_queue).of \in Actuators
      /\ Len(s_queue) \in Nat \ {0}
      /\ Len(Tail(s_queue)) = Len(s_queue) - 1
      /\ \A i \in 1 .. Len(s_queue) - 1 : Tail(s_queue)[i] = s_queue[i + 1]
  <2>1. Head(s_queue) \in [of : Actuators, value : Values]
    BY <1>1, <1>2, HeadAndTail
  <2>2. /\ Head(s_queue) = s_queue[1]
        /\ Len(s_queue) \in Nat \ {0}
        /\ Len(Tail(s_queue)) = Len(s_queue) - 1
        /\ \A i \in 1 .. Len(s_queue) - 1 : Tail(s_queue)[i] = s_queue[i + 1]
    BY <1>1, <1>2, HeadAndTail
  <2>. QED  BY <2>1, <2>2
<1>4. /\ DOMAIN s_queue' = 1 .. Len(s_queue) - 1
      /\ DOMAIN s_queue = 1 .. Len(s_queue)
      /\ \A i \in DOMAIN s_queue' : s_queue'[i] = s_queue[i + 1]
  BY <1>1, <1>2, <1>3
<1>5. ASSUME NEW a \in Controls, Reported(a) PROVE Reported(a)'
  <2> DEFINE act == EventOf(a)
  <2>1. \A i \in DOMAIN s_queue' : LastOf(act, i)' => LastOf(act, i + 1)
    <3>1. SUFFICES ASSUME NEW i \in DOMAIN s_queue', LastOf(act, i)'
          PROVE  LastOf(act, i + 1)
      OBVIOUS
    <3>2. i + 1 \in DOMAIN s_queue /\ s_queue[i + 1].of = act
      BY <1>3, <1>4, <3>1 DEF LastOf
    <3>3. ASSUME NEW j \in DOMAIN s_queue, j > i + 1 PROVE s_queue[j].of # act
      <4>1. j - 1 \in DOMAIN s_queue' /\ j - 1 > i /\ s_queue'[j - 1] = s_queue[(j - 1) + 1]
        BY <1>3, <1>4, <3>3
      <4>2. s_queue'[j - 1].of # act  BY <3>1, <4>1 DEF LastOf
      <4>3. (j - 1) + 1 = j  BY <1>4
      <4>. QED  BY <4>1, <4>2, <4>3
    <3>. QED  BY <3>2, <3>3 DEF LastOf
  <2>2. ASSUME NEW i \in DOMAIN s_queue', LastOf(act, i)'
        PROVE  s_queue'[i].value = memory'[a]
    <3>1. LastOf(act, i + 1) /\ i + 1 \in DOMAIN s_queue
      BY <2>1, <2>2 DEF LastOf
    <3>2. s_queue[i + 1].value = memory[a]  BY <1>5, <3>1 DEF Reported
    <3>. QED  BY <1>1, <1>4, <3>2
  <2>3. ASSUME \A i \in DOMAIN s_queue' : s_queue'[i].of # act
        PROVE  handled'[act] = memory'[a]
    <3>1. \A j \in DOMAIN s_queue : j > 1 => s_queue[j].of # act
      <4>1. SUFFICES ASSUME NEW j \in DOMAIN s_queue, j > 1 PROVE s_queue[j].of # act
        OBVIOUS
      <4>2. j - 1 \in DOMAIN s_queue' /\ s_queue'[j - 1] = s_queue[(j - 1) + 1]
        BY <1>3, <1>4, <4>1
      <4>3. (j - 1) + 1 = j  BY <1>4
      <4>. QED  BY <2>3, <4>2, <4>3
    <3>2. act \in Actuators  BY DEF Actuators
    <3>3. 1 \in DOMAIN s_queue  BY <1>3, <1>4
    <3>4. CASE s_queue[1].of = act
      <4>1. LastOf(act, 1)  BY <3>1, <3>3, <3>4 DEF LastOf
      <4>2. s_queue[1].value = memory[a]  BY <1>5, <3>3, <4>1 DEF Reported
      <4>. QED  BY <1>1, <1>3, <3>2, <3>4, <4>2 DEF TypeInv, ControlTypeOK
    <3>5. CASE s_queue[1].of # act
      <4>1. \A j \in DOMAIN s_queue : s_queue[j].of # act
        BY <1>3, <1>4, <3>1, <3>5
      <4>2. handled[act] = memory[a]  BY <1>5, <4>1 DEF Reported
      <4>. QED  BY <1>1, <1>3, <3>2, <3>5, <4>2 DEF TypeInv, ControlTypeOK
    <3>. QED  BY <3>4, <3>5
  <2>. QED  BY <2>2, <2>3 DEF Reported
<1>. QED  BY <1>1, <1>5 DEF FollowInv, Busy

\* A step that writes nothing and reports nothing.
LEMMA FollowQuiet ==
  ASSUME FollowInv, memory' = memory, s_queue' = s_queue, handled' = handled,
         unreported' = unreported,
         \A t \in Tasks : task'[t] = task[t]
             \/ (/\ task[t].pc \notin {"notify", "post"}
                 /\ task'[t].pc \notin {"notify", "post"})
  PROVE  FollowInv'
<1>1. \A t \in Tasks : \A a : Busy(t, a)' <=> Busy(t, a)
  BY DEF Busy
<1>2. \A a : Reported(a)' <=> Reported(a)
  BY DEF Reported, LastOf
<1>3. \A t \in Tasks : task'[t].pc = "post" => task'[t] = task[t]
  OBVIOUS
<1>4. \A a \in Controls \ unreported, x \in Tasks :
        (task'[x].pc = "post" /\ task'[x].addr = a) => task'[x].value = memory'[a]
  BY <1>3 DEF FollowInv
<1>. QED  BY <1>1, <1>2, <1>4 DEF FollowInv

LEMMA FollowStep == ASSUME TypeInv, FollowInv, [Next]_vars PROVE FollowInv'
<1>. /\ Csp \in Tasks /\ Csp \notin Consoles /\ Consoles \subseteq Tasks
  BY ManualControlAssumption DEF Tasks
<1>2. ASSUME ReceiveSet \/ RefuseSet \/ StopAtStranger \/ FinishSet \/ FreePacket
      PROVE  FollowInv'
  <2>1. /\ task[Csp].pc \in {"idle", "items", "replied"}
        /\ UNCHANGED <<memory, s_queue, handled, unreported>>
    BY <1>2 DEF ReceiveSet, RefuseSet, StopAtStranger, FinishSet, FreePacket, More
  <2>2. /\ task'[Csp].pc \in {"idle", "items", "replied"}
        /\ \A t \in Tasks : t # Csp => task'[t] = task[t]
    BY <1>2 DEF ReceiveSet, RefuseSet, StopAtStranger, FinishSet, FreePacket, Reply, Idle,
                TypeInv, ControlTypeOK
  <2>3. /\ memory' = memory /\ s_queue' = s_queue /\ handled' = handled
        /\ unreported' = unreported
    BY <2>1
  <2>4. \A t \in Tasks : task'[t] = task[t]
             \/ (/\ task[t].pc \notin {"notify", "post"}
                 /\ task'[t].pc \notin {"notify", "post"})
    BY <2>1, <2>2
  <2>. QED  BY <2>3, <2>4, FollowQuiet
<1>3. ASSUME SetItem PROVE FollowInv'
  <2>1. /\ task[Csp].pc = "items" /\ applied < Len(request) /\ NextItem.addr \in Addrs
        /\ Store(Csp, NextItem.addr, NextItem.value)
    BY <1>3 DEF SetItem, More
  <2>2. request \in Seq(Item) /\ applied \in 0 .. Len(request) /\ Len(request) \in Nat
    BY DEF TypeInv, ControlTypeOK
  <2>3. NextItem \in Item  BY <2>1, <2>2 DEF NextItem
  <2>4. NextItem.value \in Values  BY <2>3, ManualControlAssumption DEF Item
  <2>. QED  BY <2>1, <2>4, FollowStore
<1>4. ASSUME NEW t \in Tasks, CMD_ParamSet(t) PROVE FollowInv'
  <2>1. PICK addr \in Addrs, value \in Values : Store(t, addr, value)
    BY <1>4 DEF CMD_ParamSet
  <2>2. task[t].pc \notin {"notify", "post"}  BY <1>4 DEF CMD_ParamSet
  <2>. QED  BY <2>1, <2>2, FollowStore
<1>5. ASSUME NEW t \in Tasks, Callback(t) PROVE FollowInv'
  <2>1. /\ task[t].pc = "notify"
        /\ task' = [task EXCEPT ![t].pc = "post", ![t].value = memory[task[t].addr]]
        /\ UNCHANGED <<memory, s_queue, handled, unreported>>
    BY <1>5 DEF Callback
  <2>2. /\ task'[t].pc = "post" /\ task'[t].addr = task[t].addr
        /\ task'[t].value = memory[task[t].addr]
        /\ \A u \in Tasks : u # t => task'[u] = task[u]
    BY <2>1 DEF TypeInv, ControlTypeOK
  <2>3. \A u \in Tasks : \A a : Busy(u, a)' <=> Busy(u, a)
    BY <2>1, <2>2 DEF Busy
  <2>4. \A a : Reported(a)' <=> Reported(a)
    BY <2>1 DEF Reported, LastOf
  <2>5. ASSUME NEW a \in Controls \ unreported, NEW x \in Tasks,
               task'[x].pc = "post", task'[x].addr = a
        PROVE  task'[x].value = memory'[a]
    <3>1. CASE x = t  BY <2>1, <2>2, <2>5, <3>1
    <3>2. CASE x # t
      <4>1. task[x].pc = "post" /\ task[x].addr = a  BY <2>2, <2>5, <3>2
      <4>2. task[x].value = memory[a]  BY <4>1 DEF FollowInv
      <4>. QED  BY <2>1, <2>2, <3>2, <4>2
    <3>. QED  BY <3>1, <3>2
  <2>. QED  BY <2>1, <2>3, <2>4, <2>5 DEF FollowInv
<1>6. ASSUME NEW t \in Tasks, NoCallback(t) PROVE FollowInv'
  <2>1. /\ task[t].pc = "notify"
        /\ task' = [task EXCEPT ![t] = Returned(t)]
        /\ unreported' = unreported \cup {task[t].addr}
        /\ UNCHANGED <<memory, s_queue, handled>>
    BY <1>6 DEF NoCallback
  <2>2. /\ task'[t].pc \in {"idle", "items"}
        /\ \A u \in Tasks : u # t => task'[u] = task[u]
    BY <2>1 DEF TypeInv, ControlTypeOK, Returned, Idle
  <2>3. \A u \in Tasks : \A a \in Controls \ unreported' : Busy(u, a)' <=> Busy(u, a)
    BY <2>1, <2>2 DEF Busy
  <2>4. \A a : Reported(a)' <=> Reported(a)
    BY <2>1 DEF Reported, LastOf
  <2>5. \A a \in Controls \ unreported', x \in Tasks :
          (task'[x].pc = "post" /\ task'[x].addr = a) => task'[x].value = memory'[a]
    BY <2>1, <2>2 DEF FollowInv
  <2>6. \A a \in Controls \ unreported' : a \in Controls \ unreported  BY <2>1
  <2>. QED  BY <2>3, <2>4, <2>5, <2>6 DEF FollowInv
<1>7. ASSUME BindCallback \/ UNCHANGED vars PROVE FollowInv'
  <2>1. UNCHANGED <<memory, s_queue, handled, unreported, task>>
    BY <1>7 DEF BindCallback, vars
  <2>. QED  BY <2>1, FollowQuiet
<1>8. ASSUME NEW t \in Tasks, EVT_Post(t) PROVE FollowInv'
  <2>1. task[t].addr \in Addrs  BY <1>8 DEF EVT_Post, TypeInv, ControlTypeOK
  <2>. QED  BY <1>8, <2>1, FollowPost
<1>. QED
  BY <1>2, <1>3, <1>4, <1>5, <1>6, <1>7, <1>8, FollowProcess
     DEF Next, handle_set, gs_param_set, App_CtrlTask

\* The last event of an actuator, or its handler when none waits, has the value
\* of the table, for every address whose last write was the only one at its time
\* and was not dropped (app_ctrl.c:33-157, evt.c:53-65).
THEOREM HandlersFollow == Spec => []HandlersFollowTable
<1>1. Init => TypeInv /\ FollowInv
  <2>. SUFFICES ASSUME Init PROVE TypeInv /\ FollowInv  OBVIOUS
  <2>1. request = <<>> /\ applied = 0 /\ reply = "none" /\ overwritten = {}
    BY DEF Init
  <2>2. ServerInv  BY <2>1 DEF ServerInv
  <2>3. Controls \ unreported = {}  BY DEF Init, Controls
  <2>. QED  BY <2>2, <2>3, InitTypes DEF TypeInv, FollowInv
<1>2. TypeInv /\ FollowInv /\ [Next]_vars => (TypeInv /\ FollowInv)'
  BY TypeStep, FollowStep
<1>3. FollowInv => HandlersFollowTable
  BY DEF FollowInv, HandlersFollowTable, Reported
<1>. QED  BY <1>1, <1>2, <1>3, PTL DEF Spec
=============================================================================
