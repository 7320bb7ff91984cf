---------------------------- MODULE EventHandler -----------------------------
(***************************************************************************)
(* EventHandler (event_handler.h:33-57, event_handler.cpp): one thread     *)
(* that waits for sockets with epoll, edge triggered, and for points in    *)
(* time, and calls the callbacks registered for them.                      *)
(*                                                                         *)
(* Two containers describe the timed events and must agree: event_table_   *)
(* maps a time to a descriptor, sockets_event_ maps a descriptor to its    *)
(* slot: an iterator into event_table_ and a callback.  An iterator is the *)
(* time of the entry it points at; a callback is named by the time it was  *)
(* armed for.  What the callbacks do is the caller's: while one runs, any  *)
(* of the operations of the class may be called, any number of times.      *)
(*                                                                         *)
(* The class checks almost nothing.  Disciplined = TRUE adds the rules its *)
(* callers need (InOrder below); FALSE lets them do anything with open     *)
(* and closed descriptors.                                                 *)
(***************************************************************************)
EXTENDS SequencesExt, Integers

CONSTANTS Fds,           \* socket descriptors
          MaxTime,       \* bound: the clock stops here
          Ms,            \* clock units in a millisecond
          wait_time_,    \* milliseconds to wait when no event is armed
          kEventSize,    \* size of data_events_
          Disciplined    \* the callers keep the rules

ASSUME HandlerAssumption == /\ MaxTime \in Nat
                            /\ Ms \in Nat \ {0}
                            /\ wait_time_ \in Nat
                            /\ kEventSize \in Nat \ {0}
                            /\ Disciplined \in BOOLEAN

VARIABLES
  event_fd_,        \* what epoll_create returned
  socket_fds_,      \* descriptors with a socket callback
  event_table_,     \* [time -> descriptor]
  sockets_event_,   \* [descriptor -> slot]
  clock,            \* local_clock::now()
  open,             \* descriptors the process has open
  interest,         \* the kernel's interest list
  ready,            \* the kernel's ready list, first in first out
  pc,               \* where Run is
  data_events_,     \* reported sockets HandleSocket has still to visit
  deadline,         \* when epoll_wait times out, 0 outside it
  running           \* the callback that runs

members == <<event_fd_, socket_fds_, event_table_, sockets_event_>>
kernel == <<open, interest, ready>>
loop == <<pc, data_events_, deadline, running>>
vars == <<members, clock, kernel, loop>>

Time == 0 .. MaxTime
End == -1          \* event_table_.end()
Empty == -1        \* the empty std::function of a fresh slot
Slot == [it : Time \cup {End}, cb : Time \cup {Empty}]
Where == {"idle", "loop", "wait", "sockets", "socket_cb", "events", "event_cb",
          "crashed"}

Armed == DOMAIN event_table_
Slots == DOMAIN sockets_event_
Without(f, x) == [y \in DOMAIN f \ {x} |-> f[y]]
With(f, x, v) == [y \in DOMAIN f \cup {x} |-> IF y = x THEN v ELSE f[y]]
NoCallback == [fd |-> End, due |-> End, cb |-> Empty]
IsFirst(t) == t \in Armed /\ \A u \in Armed : t <= u

(***************************************************************************)
(* EventHandler::Init has run.  epoll_create fails, or returns 0 in a      *)
(* process whose descriptor 0 is closed, or returns another descriptor.    *)
(***************************************************************************)
Init ==
  /\ event_fd_ \in {-1, 0, 3}
  /\ socket_fds_ = {}
  /\ event_table_ = <<>>
  /\ sockets_event_ = <<>>
  /\ clock = 0
  /\ open = {}
  /\ interest = {}
  /\ ready = <<>>
  /\ pc = "idle"
  /\ data_events_ = <<>>
  /\ deadline = 0
  /\ running = NoCallback

----------------------------------------------------------------------------
(***************************************************************************)
(* The operations.  There is one thread (event_handler.h:33): they are     *)
(* called before Run, after it returned, or from a callback.               *)
(***************************************************************************)
Calls == pc \in {"idle", "socket_cb", "event_cb"}

\* A wrong AddSocket: the iterator of the fresh slot is not set.
Uninitialised == -2
AddSocketRaw(fd) ==
  /\ Calls
  /\ fd \notin socket_fds_
  /\ event_fd_ >= 0 /\ fd \in open
  /\ fd \notin interest
  /\ interest' = interest \cup {fd}
  /\ socket_fds_' = socket_fds_ \cup {fd}
  /\ sockets_event_' = With(sockets_event_, fd, [it |-> Uninitialised, cb |-> Empty])
  /\ UNCHANGED <<event_fd_, event_table_, clock, open, ready, loop>>

AddSocket(fd) ==
  /\ Calls
  /\ fd \notin socket_fds_                \* else only its callback changes
  /\ event_fd_ >= 0 /\ fd \in open        \* else EPOLL_CTL_ADD fails
  /\ fd \notin interest
  /\ interest' = interest \cup {fd}
  /\ socket_fds_' = socket_fds_ \cup {fd}
  /\ sockets_event_' = With(sockets_event_, fd, [it |-> End, cb |-> Empty])
  /\ UNCHANGED <<event_fd_, event_table_, clock, open, ready, loop>>

\* A wrong RemoveSocket: the socket callback stays.
RemoveSocketHalf(fd) ==
  /\ Calls
  /\ fd \in interest
  /\ Disciplined /\ fd \in Slots => sockets_event_[fd].it = End
  /\ interest' = interest \ {fd}
  /\ ready' = SelectSeq(ready, LAMBDA r : r # fd)
  /\ sockets_event_' = Without(sockets_event_, fd)
  /\ UNCHANGED <<event_fd_, socket_fds_, event_table_, clock, open, loop>>

RemoveSocket(fd) ==
  /\ Calls
  /\ fd \in interest                      \* else EPOLL_CTL_DEL fails
  /\ Disciplined /\ fd \in Slots => sockets_event_[fd].it = End
  /\ interest' = interest \ {fd}
  /\ ready' = SelectSeq(ready, LAMBDA r : r # fd)
  /\ socket_fds_' = socket_fds_ \ {fd}
  /\ sockets_event_' = Without(sockets_event_, fd)
  /\ UNCHANGED <<event_fd_, event_table_, clock, open, loop>>

\* The rules for AddEvent: the descriptor is registered, has no event armed,
\* and no other event has that time, which lies ahead.
InOrder(fd, next) ==
  /\ fd \in Slots
  /\ sockets_event_[fd].it = End
  /\ next > clock

\* insert finds the time taken, and the event is dropped without a word.
AddEventTaken(fd, next) ==
  /\ Calls
  /\ ~Disciplined
  /\ next \in Armed
  /\ UNCHANGED vars

\* A wrong AddEvent: a callback the slot already has is kept.
AddEventKeepsCallback(fd, next) ==
  /\ Calls
  /\ next \notin Armed
  /\ Disciplined => InOrder(fd, next)
  /\ event_table_' = With(event_table_, next, fd)
  /\ sockets_event_' =
       IF fd \in Slots
       THEN [sockets_event_ EXCEPT ![fd].it = next,
                                   ![fd].cb = IF @ = Empty THEN next ELSE @]
       ELSE sockets_event_
  /\ UNCHANGED <<event_fd_, socket_fds_, clock, kernel, loop>>

\* The entry is inserted before the slot is looked up, and stays without one.
AddEvent(fd, next) ==
  /\ Calls
  /\ next \notin Armed
  /\ Disciplined => InOrder(fd, next)
  /\ event_table_' = With(event_table_, next, fd)
  /\ sockets_event_' =
       IF fd \in Slots
       THEN [sockets_event_ EXCEPT ![fd] = [it |-> next, cb |-> next]]
       ELSE sockets_event_
  /\ UNCHANGED <<event_fd_, socket_fds_, clock, kernel, loop>>

\* A wrong DeleteEvent: the entry stays in the table.
DeleteEventHalf(fd) ==
  /\ Calls
  /\ fd \in Slots
  /\ sockets_event_' = [sockets_event_ EXCEPT ![fd].it = End]
  /\ UNCHANGED <<event_fd_, socket_fds_, event_table_, clock, kernel, loop>>

DeleteEvent(fd) ==
  /\ Calls
  /\ fd \in Slots
  /\ event_table_' = IF sockets_event_[fd].it # End
                     THEN Without(event_table_, sockets_event_[fd].it)
                     ELSE event_table_
  /\ sockets_event_' = [sockets_event_ EXCEPT ![fd].it = End]
  /\ UNCHANGED <<event_fd_, socket_fds_, clock, kernel, loop>>

----------------------------------------------------------------------------
(***************************************************************************)
(* Run.                                                                    *)
(***************************************************************************)
\* The check before the loop takes descriptor 0 for a failure.
Run ==
  /\ pc = "idle"
  /\ event_fd_ > 0
  /\ pc' = "loop"
  /\ UNCHANGED <<members, clock, kernel, data_events_, deadline, running>>

\* GetWaitTime cuts the distance to the first event to whole milliseconds.
WaitTime ==
  IF Armed = {} THEN wait_time_
  ELSE LET first == CHOOSE t \in Armed : IsFirst(t)
       IN  IF first <= clock THEN 0 ELSE (first - clock) \div Ms

BeginWait ==
  /\ pc = "loop"
  /\ deadline' = clock + WaitTime * Ms
  /\ pc' = "wait"
  /\ UNCHANGED <<members, clock, kernel, data_events_, running>>

\* Wrong waits: without a timeout; HandleSocket misses the last socket.
EndWaitNoTimeout ==
  /\ pc = "wait"
  /\ ready # <<>>
  /\ LET n == IF Len(ready) < kEventSize THEN Len(ready) ELSE kEventSize
     IN  /\ data_events_' = SubSeq(ready, 1, n)
         /\ ready' = SubSeq(ready, n + 1, Len(ready))
  /\ pc' = "sockets"
  /\ deadline' = 0
  /\ UNCHANGED <<members, clock, open, interest, running>>

EndWaitMissesLast ==
  /\ pc = "wait"
  /\ ready # <<>> \/ clock >= deadline
  /\ LET n == IF Len(ready) < kEventSize THEN Len(ready) ELSE kEventSize
     IN  /\ data_events_' = SubSeq(ready, 1, n - 1)
         /\ ready' = SubSeq(ready, n + 1, Len(ready))
  /\ pc' = "sockets"
  /\ deadline' = 0
  /\ UNCHANGED <<members, clock, open, interest, running>>

\* epoll_wait reports at most kEventSize sockets; edge triggered, they leave
\* the ready list.
EndWait ==
  /\ pc = "wait"
  /\ ready # <<>> \/ clock >= deadline
  /\ LET n == IF Len(ready) < kEventSize THEN Len(ready) ELSE kEventSize
     IN  /\ data_events_' = SubSeq(ready, 1, n)
         /\ ready' = SubSeq(ready, n + 1, Len(ready))
  /\ pc' = "sockets"
  /\ deadline' = 0
  /\ UNCHANGED <<members, clock, open, interest, running>>

\* A signal: epoll_wait returns -1 and Run returns.
WaitFails ==
  /\ pc = "wait"
  /\ pc' = "idle"
  /\ deadline' = 0
  /\ UNCHANGED <<members, clock, kernel, data_events_, running>>

\* HandleSocket passes over a socket that a callback removed meanwhile.
PassSocket ==
  /\ pc = "sockets"
  /\ data_events_ # <<>>
  /\ Head(data_events_) \notin socket_fds_
  /\ data_events_' = Tail(data_events_)
  /\ UNCHANGED <<members, clock, kernel, pc, deadline, running>>

CallSocket ==
  /\ pc = "sockets"
  /\ data_events_ # <<>>
  /\ Head(data_events_) \in socket_fds_
  /\ data_events_' = Tail(data_events_)
  /\ pc' = "socket_cb"
  /\ running' = [NoCallback EXCEPT !.fd = Head(data_events_)]
  /\ UNCHANGED <<members, clock, kernel, deadline>>

SocketsDone ==
  /\ pc = "sockets"
  /\ data_events_ = <<>>
  /\ pc' = "events"
  /\ UNCHANGED <<members, clock, kernel, data_events_, deadline, running>>

EventsDone ==
  /\ pc = "events"
  /\ \A t \in Armed : t > clock
  /\ pc' = "loop"
  /\ UNCHANGED <<members, clock, kernel, data_events_, deadline, running>>

Due(t) == pc = "events" /\ IsFirst(t) /\ t <= clock

\* The entry has no slot: HandleEvent erases it and returns, other events
\* that are due wait for the next round.
PassEvent(t) ==
  /\ Due(t)
  /\ event_table_[t] \notin Slots
  /\ event_table_' = Without(event_table_, t)
  /\ pc' = "loop"
  /\ UNCHANGED <<event_fd_, socket_fds_, sockets_event_, clock, kernel,
                 data_events_, deadline, running>>

\* A wrong HandleEvent: the slot's iterator keeps pointing at the entry.
CallEventDangling(t) ==
  /\ Due(t)
  /\ event_table_[t] \in Slots
  /\ LET fd == event_table_[t] IN
       /\ event_table_' = Without(event_table_, t)
       /\ running' = [fd |-> fd, due |-> t, cb |-> sockets_event_[fd].cb]
       /\ pc' = IF sockets_event_[fd].cb = Empty THEN "crashed" ELSE "event_cb"
  /\ UNCHANGED <<event_fd_, socket_fds_, sockets_event_, clock, kernel,
                 data_events_, deadline>>

\* The slot's callback is called, whichever entry led to it.  An empty one
\* throws bad_function_call, which nothing catches.
CallEvent(t) ==
  /\ Due(t)
  /\ event_table_[t] \in Slots
  /\ LET fd == event_table_[t] IN
       /\ event_table_' = Without(event_table_, t)
       /\ sockets_event_' = [sockets_event_ EXCEPT ![fd].it = End]
       /\ running' = [fd |-> fd, due |-> t, cb |-> sockets_event_[fd].cb]
       /\ pc' = IF sockets_event_[fd].cb = Empty THEN "crashed" ELSE "event_cb"
  /\ UNCHANGED <<event_fd_, socket_fds_, clock, kernel, data_events_, deadline>>

CallbackReturns ==
  /\ \/ pc = "socket_cb" /\ pc' = "sockets"
     \/ pc = "event_cb" /\ pc' = "events"
  /\ running' = NoCallback
  /\ UNCHANGED <<members, clock, kernel, data_events_, deadline>>

----------------------------------------------------------------------------
(***************************************************************************)
(* The process and the kernel around the class.                            *)
(***************************************************************************)
Open(fd) ==
  /\ Calls
  /\ fd \notin open
  /\ open' = open \cup {fd}
  /\ UNCHANGED <<members, clock, interest, ready, loop>>

\* The kernel forgets a descriptor that is closed; the class does not.
Close(fd) ==
  /\ Calls
  /\ fd \in open
  /\ Disciplined => fd \notin socket_fds_
  /\ open' = open \ {fd}
  /\ interest' = interest \ {fd}
  /\ ready' = SelectSeq(ready, LAMBDA r : r # fd)
  /\ UNCHANGED <<members, clock, loop>>

DataArrives(fd) ==
  /\ pc # "crashed"
  /\ fd \in interest
  /\ ~Contains(ready, fd)
  /\ ready' = Append(ready, fd)
  /\ UNCHANGED <<members, clock, open, interest, loop>>

Tick ==
  /\ pc # "crashed"
  /\ clock < MaxTime
  /\ clock' = clock + 1
  /\ UNCHANGED <<members, kernel, loop>>

LoopStep ==
  \/ BeginWait \/ EndWait
  \/ PassSocket \/ CallSocket \/ SocketsDone
  \/ \E t \in Time : PassEvent(t) \/ CallEvent(t)
  \/ EventsDone
  \/ CallbackReturns

Operation ==
  \E fd \in Fds :
    \/ AddSocket(fd)
    \/ RemoveSocket(fd)
    \/ \E next \in Time : AddEvent(fd, next) \/ AddEventTaken(fd, next)
    \/ DeleteEvent(fd)
    \/ Open(fd) \/ Close(fd)

Next ==
  \/ Operation
  \/ Run
  \/ LoopStep
  \/ WaitFails
  \/ \E fd \in Fds : DataArrives(fd)
  \/ Tick

Spec == Init /\ [][Next]_vars

(***************************************************************************)
(* Fairness: the thread is scheduled and callbacks return (LoopStep), and  *)
(* time passes.  Nothing is assumed of callers, data or signals.           *)
(***************************************************************************)
FairSpec == Spec /\ WF_vars(LoopStep) /\ WF_vars(Tick)

----------------------------------------------------------------------------
\* Every variable has its type.
TypeOK ==
  /\ event_fd_ \in {-1, 0, 3}
  /\ socket_fds_ \subseteq Fds
  /\ Armed \subseteq Time /\ event_table_ \in [Armed -> Fds]
  /\ Slots \subseteq Fds /\ sockets_event_ \in [Slots -> Slot]
  /\ clock \in Time
  /\ open \subseteq Fds
  /\ interest \subseteq open
  /\ pc \in Where

\* "Must keep the iterator valid" (event_handler.h:57): the iterator of every
\* slot is end() or points at an entry of that very descriptor, whatever the
\* callers do, so that DeleteEvent never erases through a dangling one.
IteratorValid ==
  \A fd \in Slots :
    LET it == sockets_event_[fd].it
    IN  it # End => it \in Armed /\ event_table_[it] = fd

\* For disciplined callers no entry is orphaned: each entry of the table is
\* the one its descriptor's slot points at, so DeleteEvent cancels all there
\* is to cancel.
EntriesOwned ==
  \A t \in Armed : event_table_[t] \in Slots /\ sockets_event_[event_table_[t]].it = t

\* For disciplined callers HandleEvent calls the callback that was armed for
\* the entry it took, never an empty one and never one armed for later.
RightCallback == pc \in {"event_cb", "crashed"} => running.cb = running.due

\* For disciplined callers the class and the kernel watch the same sockets:
\* no socket is registered and deaf.
RegisteredIsWatched == socket_fds_ = interest

\* Every armed event is called or deleted in the end, unless Run returned.
EventServed ==
  \A fd \in Fds, t \in Time :
    (fd \in Slots /\ sockets_event_[fd].it = t)
      ~> (fd \notin Slots \/ sockets_event_[fd].it # t \/ pc = "idle")

\* A socket with data gets its callback in the end, also when more sockets
\* are ready than data_events_ holds, unless it is removed or Run returned.
SocketServed ==
  \A fd \in Fds :
    (Contains(ready, fd) \/ Contains(data_events_, fd))
      ~> (fd \notin interest \/ pc = "idle" \/ (pc = "socket_cb" /\ running.fd = fd))
==============================================================================
