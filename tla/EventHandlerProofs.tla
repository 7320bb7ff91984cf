------------------------- MODULE EventHandlerProofs --------------------------
(***************************************************************************)
(* The two containers of EventHandler agree, for any number of             *)
(* descriptors and any times.                                              *)
(***************************************************************************)
EXTENDS EventHandler, TLAPS

\* What Without and With return.
LEMMA WithoutFacts ==
  ASSUME NEW f, NEW x
  PROVE  /\ DOMAIN Without(f, x) = DOMAIN f \ {x}
         /\ \A y \in DOMAIN f \ {x} : Without(f, x)[y] = f[y]
  BY DEF Without

LEMMA WithFacts ==
  ASSUME NEW f, NEW x, NEW v
  PROVE  /\ DOMAIN With(f, x, v) = DOMAIN f \cup {x}
         /\ With(f, x, v)[x] = v
         /\ \A y \in DOMAIN f \ {x} : With(f, x, v)[y] = f[y]
  BY DEF With

----------------------------------------------------------------------------
(***************************************************************************)
(* IteratorValid is inductive together with the types of the slots.  That  *)
(* an iterator points at an entry of its own descriptor is what keeps the  *)
(* iterators of the others valid when the entry is erased.                 *)
(***************************************************************************)
SlotsOK == sockets_event_ \in [Slots -> Slot]

IInv == SlotsOK /\ IteratorValid

LEMMA InitIInv == Init => IInv
  BY DEF Init, IInv, SlotsOK, IteratorValid, Slots

LEMMA SlotFacts ==
  ASSUME SlotsOK, NEW fd \in Slots
  PROVE  /\ sockets_event_[fd] \in Slot
         /\ sockets_event_[fd].it \in Time \cup {End}
         /\ sockets_event_[fd].cb \in Time \cup {Empty}
  BY DEF SlotsOK, Slot

\* A slot whose iterator is end() may be added, changed or dropped freely.
LEMMA AddSocketIInv ==
  ASSUME IInv, NEW fd \in Fds, AddSocket(fd)
  PROVE  IInv'
  <1> DEFINE fresh == [it |-> End, cb |-> Empty]
  <1>1. /\ Slots' = Slots \cup {fd}
        /\ sockets_event_'[fd] = fresh
        /\ \A g \in Slots \ {fd} : sockets_event_'[g] = sockets_event_[g]
        /\ sockets_event_' = [g \in Slots' |-> sockets_event_'[g]]
    BY DEF AddSocket, With, Slots
  <1>2. fresh \in Slot /\ fresh.it = End
    BY DEF Slot
  <1>3. SlotsOK'
    <2>1. \A g \in Slots' : sockets_event_'[g] \in Slot
      BY <1>1, <1>2, SlotFacts DEF IInv
    <2> QED  BY <1>1, <2>1 DEF SlotsOK
  <1>4. event_table_' = event_table_ /\ Armed' = Armed
    BY DEF AddSocket, Armed
  <1>5. IteratorValid'
    BY <1>1, <1>2, <1>4 DEF IInv, IteratorValid
  <1> QED  BY <1>3, <1>5 DEF IInv

LEMMA RemoveSocketIInv ==
  ASSUME IInv, NEW fd \in Fds, RemoveSocket(fd)
  PROVE  IInv'
  <1>1. /\ Slots' = Slots \ {fd}
        /\ \A g \in Slots' : sockets_event_'[g] = sockets_event_[g]
        /\ sockets_event_' = [g \in Slots' |-> sockets_event_'[g]]
    BY DEF RemoveSocket, Without, Slots
  <1>2. event_table_' = event_table_ /\ Armed' = Armed
    BY DEF RemoveSocket, Armed
  <1>3. SlotsOK'
    <2>1. \A g \in Slots' : sockets_event_'[g] \in Slot
      BY <1>1, SlotFacts DEF IInv
    <2> QED  BY <1>1, <2>1 DEF SlotsOK
  <1>4. IteratorValid'
    BY <1>1, <1>2 DEF IInv, IteratorValid
  <1> QED  BY <1>3, <1>4 DEF IInv

\* The new entry is at a free time, so no iterator pointed there.
LEMMA AddEventIInv ==
  ASSUME IInv, NEW fd \in Fds, NEW next \in Time, AddEvent(fd, next)
  PROVE  IInv'
  <1>1. /\ Armed' = Armed \cup {next} /\ next \notin Armed
        /\ event_table_'[next] = fd
        /\ \A t \in Armed : event_table_'[t] = event_table_[t]
    BY DEF AddEvent, With, Armed
  <1>2. CASE fd \notin Slots
    <2>1. sockets_event_' = sockets_event_ /\ Slots' = Slots
      BY <1>2 DEF AddEvent, Slots
    <2> QED  BY <1>1, <2>1 DEF IInv, SlotsOK, IteratorValid
  <1>3. CASE fd \in Slots
    <2> DEFINE slot == [it |-> next, cb |-> next]
    <2>1. /\ Slots' = Slots
          /\ sockets_event_'[fd] = slot
          /\ \A g \in Slots \ {fd} : sockets_event_'[g] = sockets_event_[g]
          /\ sockets_event_' = [sockets_event_ EXCEPT ![fd] = slot]
      BY <1>3 DEF AddEvent, Slots
    <2>2. slot \in Slot /\ slot.it = next
      BY DEF Slot
    <2>3. SlotsOK'
      BY <2>1, <2>2 DEF IInv, SlotsOK
    <2>4. IteratorValid'
      BY <1>1, <2>1, <2>2 DEF IInv, IteratorValid
    <2> QED  BY <2>3, <2>4 DEF IInv
  <1> QED  BY <1>2, <1>3

\* Erasing an entry and setting the iterator of its slot to end() leaves the
\* other iterators valid: they point at entries of other descriptors.
LEMMA EraseIInv ==
  ASSUME IInv, NEW fd \in Slots, NEW t, t \in Armed => event_table_[t] = fd,
         event_table_' = Without(event_table_, t),
         sockets_event_' = [sockets_event_ EXCEPT ![fd].it = End]
  PROVE  IInv'
  <1>1. /\ Armed' = Armed \ {t}
        /\ \A u \in Armed' : event_table_'[u] = event_table_[u]
    BY WithoutFacts DEF Armed
  <1>2. /\ Slots' = Slots
        /\ \A g \in Slots \ {fd} : sockets_event_'[g] = sockets_event_[g]
    BY DEF Slots
  <1>3. /\ sockets_event_'[fd] = [it |-> End, cb |-> sockets_event_[fd].cb]
        /\ sockets_event_'[fd] \in Slot
    <2>1. sockets_event_'[fd] = [sockets_event_[fd] EXCEPT !.it = End]
      BY DEF Slots, IInv, SlotsOK
    <2> QED  BY <2>1, SlotFacts DEF IInv, Slot
  <1>4. SlotsOK'
    <2>1. \A g \in Slots' : sockets_event_'[g] \in Slot
      BY <1>2, <1>3, SlotFacts DEF IInv
    <2>2. sockets_event_' = [g \in Slots' |-> sockets_event_'[g]]
      BY <1>2 DEF IInv, SlotsOK
    <2> QED  BY <2>1, <2>2 DEF SlotsOK
  <1>5. IteratorValid'
    <2> SUFFICES ASSUME NEW g \in Slots', sockets_event_'[g].it # End
                 PROVE  /\ sockets_event_'[g].it \in Armed'
                        /\ event_table_'[sockets_event_'[g].it] = g
      BY DEF IteratorValid
    <2>1. g # fd /\ g \in Slots /\ sockets_event_'[g] = sockets_event_[g]
      BY <1>2, <1>3
    <2>2. sockets_event_[g].it \in Armed /\ event_table_[sockets_event_[g].it] = g
      BY <2>1 DEF IInv, IteratorValid
    <2>3. sockets_event_[g].it # t
      BY <2>1, <2>2
    <2> QED  BY <1>1, <2>1, <2>2, <2>3
  <1> QED  BY <1>4, <1>5 DEF IInv

LEMMA DeleteEventIInv ==
  ASSUME IInv, NEW fd \in Fds, DeleteEvent(fd)
  PROVE  IInv'
  <1> DEFINE it == sockets_event_[fd].it
  <1>1. fd \in Slots /\ sockets_event_' = [sockets_event_ EXCEPT ![fd].it = End]
    BY DEF DeleteEvent
  <1>2. CASE it # End
    <2>1. it \in Armed /\ event_table_[it] = fd
      BY <1>1, <1>2 DEF IInv, IteratorValid
    <2>2. event_table_' = Without(event_table_, it)
      BY <1>2 DEF DeleteEvent
    <2> QED  BY <1>1, <2>1, <2>2, EraseIInv
  <1>3. CASE it = End
    <2>1. event_table_' = event_table_ /\ Armed' = Armed
      BY <1>3 DEF DeleteEvent, Armed
    <2>2. sockets_event_' = sockets_event_
      BY <1>1, <1>3, SlotFacts DEF IInv, SlotsOK, Slot
    <2> QED  BY <2>1, <2>2 DEF IInv, SlotsOK, IteratorValid, Slots
  <1> QED  BY <1>2, <1>3

LEMMA CallEventIInv ==
  ASSUME IInv, NEW t \in Time, CallEvent(t)
  PROVE  IInv'
  <1>1. /\ event_table_[t] \in Slots
        /\ event_table_' = Without(event_table_, t)
        /\ sockets_event_' = [sockets_event_ EXCEPT ![event_table_[t]].it = End]
    BY DEF CallEvent
  <1> QED  BY <1>1, EraseIInv

\* The erased entry had no slot, so no iterator pointed at it.
LEMMA PassEventIInv ==
  ASSUME IInv, NEW t \in Time, PassEvent(t)
  PROVE  IInv'
  <1>1. /\ event_table_[t] \notin Slots
        /\ sockets_event_' = sockets_event_ /\ Slots' = Slots
        /\ Armed' = Armed \ {t}
        /\ \A u \in Armed' : event_table_'[u] = event_table_[u]
    BY WithoutFacts DEF PassEvent, Slots, Armed
  <1> QED  BY <1>1 DEF IInv, SlotsOK, IteratorValid

\* Every other step leaves both containers alone.
LEMMA FrameIInv ==
  ASSUME IInv, UNCHANGED <<event_table_, sockets_event_>>
  PROVE  IInv'
  BY DEF IInv, SlotsOK, IteratorValid, Slots, Armed

LEMMA NextIInv ==
  ASSUME IInv, [Next]_vars
  PROVE  IInv'
  <1>1. ASSUME NEW fd \in Fds,
               \/ AddSocket(fd) \/ RemoveSocket(fd) \/ DeleteEvent(fd)
               \/ Open(fd) \/ Close(fd) \/ DataArrives(fd)
        PROVE  IInv'
    <2>1. CASE Open(fd) \/ Close(fd) \/ DataArrives(fd)
      BY <2>1, FrameIInv DEF Open, Close, DataArrives, members
    <2> QED
      BY <1>1, <2>1, AddSocketIInv, RemoveSocketIInv, DeleteEventIInv
  <1>2. ASSUME NEW fd \in Fds, NEW next \in Time,
               AddEvent(fd, next) \/ AddEventTaken(fd, next)
        PROVE  IInv'
    BY <1>2, AddEventIInv, FrameIInv DEF AddEventTaken, vars, members
  <1>3. ASSUME NEW t \in Time, PassEvent(t) \/ CallEvent(t)
        PROVE  IInv'
    BY <1>3, PassEventIInv, CallEventIInv
  <1>4. CASE \/ Run \/ WaitFails \/ Tick \/ BeginWait \/ EndWait \/ PassSocket
             \/ CallSocket \/ SocketsDone \/ EventsDone \/ CallbackReturns
             \/ UNCHANGED vars
    BY <1>4, FrameIInv
       DEF Run, WaitFails, Tick, BeginWait, EndWait, PassSocket, CallSocket,
           SocketsDone, EventsDone, CallbackReturns, vars, members
  <1> QED  BY <1>1, <1>2, <1>3, <1>4 DEF Next, Operation, LoopStep

\* "Must keep the iterator valid" (event_handler.h:57) holds whatever the
\* callers do: DeleteEvent never erases through a dangling iterator.
THEOREM HandlerIteratorValid == Spec => []IteratorValid
  <1>1. IInv => IteratorValid
    BY DEF IInv
  <1>2. Spec => []IInv
    BY InitIInv, NextIInv, PTL DEF Spec
  <1> QED  BY <1>1, <1>2, PTL

----------------------------------------------------------------------------
(***************************************************************************)
(* Types.                                                                  *)
(***************************************************************************)
TableOK == Armed \subseteq Time /\ event_table_ \in [Armed -> Fds]

Rest == /\ event_fd_ \in {-1, 0, 3}
        /\ socket_fds_ \subseteq Fds
        /\ Slots \subseteq Fds
        /\ clock \in Time
        /\ open \subseteq Fds
        /\ interest \subseteq open
        /\ pc \in Where

LEMMA WithoutTable ==
  ASSUME TableOK, NEW t, event_table_' = Without(event_table_, t)
  PROVE  TableOK'
  BY DEF TableOK, Without, Armed

LEMMA WithTable ==
  ASSUME TableOK, NEW fd \in Fds, NEW t \in Time, event_table_' = With(event_table_, t, fd)
  PROVE  TableOK'
  <1>1. Armed' = Armed \cup {t} /\ Armed' \subseteq Time
    BY DEF With, TableOK, Armed
  <1>2. event_table_' = [u \in Armed' |-> IF u = t THEN fd ELSE event_table_[u]]
    BY <1>1 DEF With, Armed
  <1>3. \A u \in Armed' : (IF u = t THEN fd ELSE event_table_[u]) \in Fds
    BY <1>1 DEF TableOK
  <1> QED  BY <1>1, <1>2, <1>3 DEF TableOK

LEMMA NextTable ==
  ASSUME TableOK, [Next]_vars
  PROVE  TableOK'
  <1>1. ASSUME UNCHANGED event_table_ PROVE TableOK'
    BY <1>1 DEF TableOK, Armed
  <1>2. ASSUME NEW fd \in Fds, DeleteEvent(fd) PROVE TableOK'
    BY <1>1, <1>2, WithoutTable DEF DeleteEvent
  <1>3. ASSUME NEW fd \in Fds, NEW next \in Time, AddEvent(fd, next) PROVE TableOK'
    BY <1>3, WithTable DEF AddEvent
  <1>4. ASSUME NEW t \in Time, PassEvent(t) \/ CallEvent(t) PROVE TableOK'
    BY <1>4, WithoutTable DEF PassEvent, CallEvent
  <1>5. ASSUME NEW fd \in Fds,
               \/ AddSocket(fd) \/ RemoveSocket(fd) \/ Open(fd) \/ Close(fd)
               \/ DataArrives(fd) \/ \E next \in Time : AddEventTaken(fd, next)
        PROVE  TableOK'
    BY <1>1, <1>5
       DEF AddSocket, RemoveSocket, Open, Close, DataArrives, AddEventTaken, members, vars
  <1>6. CASE \/ Run \/ WaitFails \/ Tick \/ BeginWait \/ EndWait \/ PassSocket
             \/ CallSocket \/ SocketsDone \/ EventsDone \/ CallbackReturns
             \/ UNCHANGED vars
    BY <1>1, <1>6
       DEF Run, WaitFails, Tick, BeginWait, EndWait, PassSocket, CallSocket,
           SocketsDone, EventsDone, CallbackReturns, vars, members
  <1> QED
    BY <1>2, <1>3, <1>4, <1>5, <1>6 DEF Next, Operation, LoopStep

LEMMA NextRest ==
  ASSUME Rest, [Next]_vars
  PROVE  Rest'
  <1>1. ASSUME NEW fd \in Fds, AddSocket(fd) \/ RemoveSocket(fd)
        PROVE  Rest'
    <2>1. Slots' \subseteq Slots \cup {fd}
      BY <1>1 DEF AddSocket, RemoveSocket, With, Without, Slots
    <2> QED  BY <1>1, <2>1 DEF AddSocket, RemoveSocket, Rest, loop
  <1>2. ASSUME NEW fd \in Fds, NEW next \in Time, AddEvent(fd, next) PROVE Rest'
    BY <1>2 DEF AddEvent, Rest, Slots, kernel, loop
  <1>3. ASSUME NEW fd \in Fds,
               \/ DeleteEvent(fd) \/ Open(fd) \/ Close(fd) \/ DataArrives(fd)
               \/ \E next \in Time : AddEventTaken(fd, next)
        PROVE  Rest'
    BY <1>3 DEF DeleteEvent, Open, Close, DataArrives, AddEventTaken, Rest, Slots,
                members, kernel, loop, vars
  <1>4. ASSUME NEW t \in Time, PassEvent(t) \/ CallEvent(t) PROVE Rest'
    BY <1>4 DEF PassEvent, CallEvent, Rest, Slots, Where, kernel
  <1>5. CASE Tick
    BY <1>5, HandlerAssumption DEF Tick, Rest, Slots, Time, members, kernel, loop
  <1>6. CASE \/ Run \/ WaitFails \/ BeginWait \/ EndWait \/ PassSocket
             \/ CallSocket \/ SocketsDone \/ EventsDone \/ CallbackReturns
             \/ UNCHANGED vars
    BY <1>6
       DEF Run, WaitFails, BeginWait, EndWait, PassSocket, CallSocket, SocketsDone,
           EventsDone, CallbackReturns, Rest, Slots, Where, vars, members, kernel, loop
  <1> QED
    BY <1>1, <1>2, <1>3, <1>4, <1>5, <1>6 DEF Next, Operation, LoopStep

\* Every member has its type: table and slots hold descriptors of sockets,
\* and what the kernel watches is open.
THEOREM HandlerTypeOK == Spec => []TypeOK
  <1>1. Init => TableOK /\ Rest
    BY HandlerAssumption DEF Init, TableOK, Rest, Armed, Slots, Time, Where
  <1>2. IInv /\ TableOK /\ Rest => TypeOK
    BY DEF IInv, SlotsOK, TableOK, Rest, TypeOK
  <1>3. Spec => [](IInv /\ TableOK /\ Rest)
    BY <1>1, InitIInv, NextIInv, NextTable, NextRest, PTL DEF Spec
  <1> QED  BY <1>2, <1>3, PTL

----------------------------------------------------------------------------
(***************************************************************************)
(* What the rules of InOrder, RemoveSocket and Close buy the callers.  The *)
(* converse of IteratorValid, EntriesOwned, becomes inductive, and with it *)
(* the callback in a slot belongs to the entry that leads to it.           *)
(***************************************************************************)
CallbackOfEntry ==
  \A fd \in Slots :
    sockets_event_[fd].it # End => sockets_event_[fd].cb = sockets_event_[fd].it

DInv == /\ Armed \subseteq Time
        /\ EntriesOwned
        /\ CallbackOfEntry
        /\ Slots = socket_fds_
        /\ RegisteredIsWatched
        /\ RightCallback

LEMMA InitDInv == Init => DInv
  BY DEF Init, DInv, EntriesOwned, CallbackOfEntry, RegisteredIsWatched,
         RightCallback, Slots, Armed

LEMMA AddSocketDInv ==
  ASSUME IInv, DInv, NEW fd \in Fds, AddSocket(fd)
  PROVE  DInv'
  <1>1. /\ fd \notin Slots
        /\ Slots' = Slots \cup {fd}
        /\ sockets_event_'[fd] = [it |-> End, cb |-> Empty]
        /\ \A g \in Slots : sockets_event_'[g] = sockets_event_[g]
        /\ event_table_' = event_table_ /\ Armed' = Armed
        /\ pc' = pc /\ running' = running
    BY DEF AddSocket, With, Slots, Armed, loop, DInv
  <1>2. EntriesOwned'
    BY <1>1 DEF DInv, EntriesOwned
  <1>3. CallbackOfEntry'
    BY <1>1 DEF DInv, CallbackOfEntry
  <1>4. Slots' = socket_fds_' /\ RegisteredIsWatched' /\ RightCallback'
    BY <1>1 DEF DInv, RegisteredIsWatched, RightCallback, AddSocket
  <1> QED  BY <1>1, <1>2, <1>3, <1>4 DEF DInv

LEMMA RemoveSocketDInv ==
  ASSUME Disciplined, IInv, DInv, NEW fd \in Fds, RemoveSocket(fd)
  PROVE  DInv'
  <1>1. /\ fd \in Slots /\ sockets_event_[fd].it = End
        /\ Slots' = Slots \ {fd}
        /\ \A g \in Slots' : sockets_event_'[g] = sockets_event_[g]
        /\ event_table_' = event_table_ /\ Armed' = Armed
        /\ pc' = pc /\ running' = running
    BY DEF RemoveSocket, Without, Slots, Armed, loop, DInv, RegisteredIsWatched
  <1>2. ASSUME NEW t \in Armed
        PROVE  event_table_[t] \in Slots' /\ sockets_event_[event_table_[t]].it = t
    <2>1. event_table_[t] \in Slots /\ sockets_event_[event_table_[t]].it = t
      BY DEF DInv, EntriesOwned
    <2>2. t # End
      BY DEF DInv, Time, End
    <2> QED  BY <1>1, <2>1, <2>2
  <1>3. EntriesOwned'
    BY <1>1, <1>2 DEF EntriesOwned
  <1>4. CallbackOfEntry'
    BY <1>1 DEF DInv, CallbackOfEntry
  <1>5. Slots' = socket_fds_' /\ RegisteredIsWatched' /\ RightCallback'
    BY <1>1 DEF DInv, RegisteredIsWatched, RightCallback, RemoveSocket
  <1> QED  BY <1>1, <1>3, <1>4, <1>5 DEF DInv

LEMMA AddEventDInv ==
  ASSUME Disciplined, IInv, DInv, NEW fd \in Fds, NEW next \in Time,
         AddEvent(fd, next)
  PROVE  DInv'
  <1>1. /\ fd \in Slots /\ sockets_event_[fd].it = End
        /\ Slots' = Slots
        /\ sockets_event_'[fd] = [it |-> next, cb |-> next]
        /\ \A g \in Slots \ {fd} : sockets_event_'[g] = sockets_event_[g]
        /\ Armed' = Armed \cup {next}
        /\ event_table_'[next] = fd
        /\ \A t \in Armed : event_table_'[t] = event_table_[t]
    BY DEF AddEvent, InOrder, With, Slots, Armed
  <1>2. ASSUME NEW t \in Armed'
        PROVE  /\ event_table_'[t] \in Slots'
               /\ sockets_event_'[event_table_'[t]].it = t
    <2>1. CASE t = next
      BY <1>1, <2>1
    <2>2. CASE t # next
      <3>1. t \in Armed /\ t # End
        BY <1>1, <2>2 DEF DInv, Time, End
      <3>2. event_table_[t] \in Slots /\ sockets_event_[event_table_[t]].it = t
        BY <3>1 DEF DInv, EntriesOwned
      <3> QED  BY <1>1, <3>1, <3>2
    <2> QED  BY <2>1, <2>2
  <1>3. EntriesOwned'
    BY <1>2 DEF EntriesOwned
  <1>4. CallbackOfEntry'
    BY <1>1 DEF DInv, CallbackOfEntry
  <1>5. Slots' = socket_fds_' /\ RegisteredIsWatched' /\ RightCallback'
    BY <1>1 DEF DInv, RegisteredIsWatched, RightCallback, AddEvent, kernel, loop
  <1>6. Armed' \subseteq Time
    BY <1>1 DEF DInv
  <1> QED  BY <1>3, <1>4, <1>5, <1>6 DEF DInv

\* The entry a slot points at is its only one: once it is erased and the
\* iterator is end(), no entry of that descriptor is left.
LEMMA EraseDInv ==
  ASSUME IInv, DInv, NEW fd \in Slots, NEW t, t = sockets_event_[fd].it,
         event_table_' = IF t # End THEN Without(event_table_, t) ELSE event_table_,
         sockets_event_' = [sockets_event_ EXCEPT ![fd].it = End]
  PROVE  /\ Armed' \subseteq Time /\ EntriesOwned' /\ CallbackOfEntry'
         /\ Slots' = Slots
  <1>1. /\ Armed' = Armed \ {t}
        /\ \A u \in Armed' : event_table_'[u] = event_table_[u]
    <2>1. CASE t # End
      BY ZenonT(30), <2>1, WithoutFacts DEF Armed
    <2>2. CASE t = End
      <3>1. t \notin Armed
        BY <2>2 DEF DInv, Time, End
      <3> QED  BY <2>2, <3>1 DEF Armed
    <2> QED  BY <2>1, <2>2
  <1>2. /\ Slots' = Slots
        /\ \A g \in Slots \ {fd} : sockets_event_'[g] = sockets_event_[g]
        /\ sockets_event_'[fd].it = End
    <2>1. sockets_event_[fd] \in Slot
      BY SlotFacts DEF IInv
    <2> QED  BY <2>1 DEF Slots, Slot
  <1>3. ASSUME NEW u \in Armed'
        PROVE  /\ event_table_'[u] \in Slots'
               /\ sockets_event_'[event_table_'[u]].it = u
    <2>1. u \in Armed /\ u # t /\ event_table_'[u] = event_table_[u]
      BY <1>1
    <2>2. event_table_[u] \in Slots /\ sockets_event_[event_table_[u]].it = u
      BY <2>1 DEF DInv, EntriesOwned
    <2> QED  BY <1>2, <2>1, <2>2
  <1>4. EntriesOwned'
    BY <1>3 DEF EntriesOwned
  <1>5. CallbackOfEntry'
    BY <1>2 DEF DInv, CallbackOfEntry
  <1> QED  BY <1>1, <1>2, <1>4, <1>5 DEF DInv

LEMMA DeleteEventDInv ==
  ASSUME IInv, DInv, NEW fd \in Fds, DeleteEvent(fd)
  PROVE  DInv'
  <1>1. /\ Armed' \subseteq Time /\ EntriesOwned' /\ CallbackOfEntry'
        /\ Slots' = Slots
    BY EraseDInv DEF DeleteEvent
  <1> QED
    BY <1>1 DEF DInv, RegisteredIsWatched, RightCallback, DeleteEvent, kernel, loop

\* The callback called is the one that was armed for the entry.
LEMMA CallEventDInv ==
  ASSUME IInv, DInv, NEW t \in Time, CallEvent(t)
  PROVE  DInv'
  <1> DEFINE fd == event_table_[t]
  <1>1. /\ t \in Armed /\ t # End
        /\ fd \in Slots /\ sockets_event_[fd].it = t
        /\ event_table_' = Without(event_table_, t)
        /\ sockets_event_' = [sockets_event_ EXCEPT ![fd].it = End]
    BY DEF CallEvent, Due, IsFirst, DInv, EntriesOwned, Time, End
  <1>2. /\ Armed' \subseteq Time /\ EntriesOwned' /\ CallbackOfEntry'
        /\ Slots' = Slots
    <2>1. t = sockets_event_[fd].it /\ fd \in Slots
      BY <1>1
    <2>2. event_table_' = IF t # End THEN Without(event_table_, t) ELSE event_table_
      BY <1>1
    <2>3. sockets_event_' = [sockets_event_ EXCEPT ![fd].it = End]
      BY <1>1
    <2> HIDE DEF fd
    <2> QED  BY <2>1, <2>2, <2>3, EraseDInv
  <1>3. running' = [fd |-> fd, due |-> t, cb |-> t]
    BY <1>1 DEF CallEvent, DInv, CallbackOfEntry
  <1>4. RightCallback'
    BY <1>3 DEF RightCallback
  <1> QED
    BY <1>2, <1>4 DEF DInv, RegisteredIsWatched, CallEvent, kernel

\* No entry is without a slot, so HandleEvent never gives up early.
LEMMA PassEventDInv ==
  ASSUME DInv, NEW t \in Time
  PROVE  ~PassEvent(t)
  BY DEF DInv, EntriesOwned, PassEvent, Due, IsFirst

LEMMA FrameDInv ==
  ASSUME DInv, UNCHANGED <<event_table_, sockets_event_, socket_fds_, interest>>,
         RightCallback'
  PROVE  DInv'
  BY DEF DInv, EntriesOwned, CallbackOfEntry, RegisteredIsWatched, Slots, Armed

LEMMA NextDInv ==
  ASSUME Disciplined, IInv, DInv, [Next]_vars
  PROVE  DInv'
  <1>1. ASSUME NEW fd \in Fds,
               \/ AddSocket(fd) \/ RemoveSocket(fd) \/ DeleteEvent(fd)
               \/ Open(fd) \/ Close(fd) \/ DataArrives(fd)
        PROVE  DInv'
    <2>1. CASE Open(fd) \/ DataArrives(fd)
      BY <2>1, FrameDInv DEF Open, DataArrives, members, loop, DInv, RightCallback
    <2>2. CASE Close(fd)
      <3>1. interest' = interest
        BY <2>2 DEF Close, DInv, RegisteredIsWatched
      <3> QED  BY <2>2, <3>1, FrameDInv DEF Close, members, loop, DInv, RightCallback
    <2> QED
      BY <1>1, <2>1, <2>2, AddSocketDInv, RemoveSocketDInv, DeleteEventDInv
  <1>2. ASSUME NEW fd \in Fds, NEW next \in Time,
               AddEvent(fd, next) \/ AddEventTaken(fd, next)
        PROVE  DInv'
    BY <1>2, AddEventDInv DEF AddEventTaken
  <1>3. ASSUME NEW t \in Time, PassEvent(t) \/ CallEvent(t)
        PROVE  DInv'
    BY <1>3, PassEventDInv, CallEventDInv
  <1>4. CASE \/ Run \/ WaitFails \/ Tick \/ BeginWait \/ EndWait \/ PassSocket
             \/ CallSocket \/ SocketsDone \/ EventsDone \/ CallbackReturns
             \/ UNCHANGED vars
    <2>1. UNCHANGED <<event_table_, sockets_event_, socket_fds_, interest>>
      BY <1>4
         DEF Run, WaitFails, Tick, BeginWait, EndWait, PassSocket, CallSocket,
             SocketsDone, EventsDone, CallbackReturns, vars, members, kernel
    <2>2. RightCallback'
      BY <1>4
         DEF Run, WaitFails, Tick, BeginWait, EndWait, PassSocket, CallSocket,
             SocketsDone, EventsDone, CallbackReturns, vars, loop, DInv,
             RightCallback
    <2> QED  BY <2>1, <2>2, FrameDInv
  <1> QED  BY <1>1, <1>2, <1>3, <1>4 DEF Next, Operation, LoopStep

\* For disciplined callers every entry belongs to the slot of its descriptor,
\* the callback called is the one armed for the entry, so that no empty
\* callback is called and none is called early, and the kernel watches every
\* registered socket.
THEOREM HandlerDisciplined ==
  ASSUME Disciplined
  PROVE  Spec => [](EntriesOwned /\ RightCallback /\ RegisteredIsWatched)
  <1>1. Spec => []IInv
    BY InitIInv, NextIInv, PTL DEF Spec
  <1>2. IInv /\ DInv /\ [Next]_vars => DInv'
    BY NextDInv
  <1>3. DInv => EntriesOwned /\ RightCallback /\ RegisteredIsWatched
    BY DEF DInv
  <1> QED  BY <1>1, <1>2, <1>3, InitDInv, PTL DEF Spec

\* Disciplined callers: DeleteEvent cancels all there is to cancel
\* (event_handler.cpp:119-129).
COROLLARY HandlerEntriesOwned ==
  ASSUME Disciplined
  PROVE  Spec => []EntriesOwned
  BY HandlerDisciplined, PTL

\* Disciplined callers: the callback that runs is the one that was armed for
\* the entry HandleEvent took (event_handler.cpp:91-99).
COROLLARY HandlerRightCallback ==
  ASSUME Disciplined
  PROVE  Spec => []RightCallback
  BY HandlerDisciplined, PTL

\* Disciplined callers: no registered socket is deaf (event_handler.cpp:12-42).
COROLLARY HandlerRegisteredIsWatched ==
  ASSUME Disciplined
  PROVE  Spec => []RegisteredIsWatched
  BY HandlerDisciplined, PTL
==============================================================================
