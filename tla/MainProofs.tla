------------------------------ MODULE MainProofs ------------------------------
(***************************************************************************)
(* The descriptors, ports and threads of Main, for any number of entries,  *)
(* any ports and any limit of descriptors.                                 *)
(***************************************************************************)
EXTENDS Main, FiniteSetTheorems, SequenceTheorems, TLAPS

At0 == {"none", "rtp", "hostid", "recv", "ended"}  \* no socket yet, or no more
Sending == {"bind", "coders", "loop"}          \* both sockets are open
Places == Setup \cup {"none", "loop", "destroy", "destroy_recv", "ended"}

Types ==
  /\ config \in Configs
  /\ main_pc \in {"config", "entries", "join", "returned", "terminated"}
  /\ pc \in [Entries -> Places]
  /\ fd_ \in [Entries -> [Holders -> Descriptors \cup {-1}]]
  /\ open \subseteq Descriptors
  /\ DOMAIN bound \subseteq open

\* Which sockets are open follows from how far the setup came.
Stages ==
  \A s \in Entries :
    /\ pc[s] \in At0 => fd_[s]["recv"] = -1
    /\ pc[s] \in At0 \cup {"send", "destroy_recv"} => fd_[s]["send"] = -1
    /\ pc[s] \in Sending \cup {"send"} => fd_[s]["recv"] # -1
    /\ pc[s] \in Sending => fd_[s]["send"] # -1
    /\ pc[s] = "hostid" <=> fd_[s]["hostid"] # -1

\* A descriptor of a socket or a lookup is open, and no other one has it.
Held ==
  \A s \in Entries, w \in Holders : fd_[s][w] # -1 =>
    /\ fd_[s][w] \in open
    /\ \A t \in Entries, o \in Holders : fd_[t][o] = fd_[s][w] => t = s /\ o = w

\* Every descriptor but the standard ones belongs to a socket or a lookup.
Owned ==
  \A d \in open \ {0, 1, 2} :
    \E s \in Entries, w \in Holders : fd_[s][w] = d

\* Once a socket was given descriptor 0 it stays open, and is no lookup's.
ZeroTaken ==
  /\ \A y, z \in zeros : y = z
  /\ zeros # {} => 0 \in open /\ \A s \in Entries : fd_[s]["hostid"] # 0

\* A port belongs to one socket, and past bind a session has its own.
PortHeld ==
  /\ \A d, e \in DOMAIN bound : bound[d] = bound[e] => d = e
  /\ \A s \in Entries : pc[s] \in {"coders", "loop"} =>
       fd_[s]["recv"] \in DOMAIN bound /\ bound[fd_[s]["recv"]] = config[s].port
  /\ \A s \in Entries : fd_[s]["hostid"] \notin DOMAIN bound

SocketInv == Types /\ Stages /\ Held /\ Owned /\ ZeroTaken /\ PortHeld

\* main has started the threads of the entries it passed, and those it
\* joined have ended.
ThreadInv ==
  /\ i \in Nat
  /\ th \in Seq(Entries)
  /\ joined \in 0 .. Len(th)
  /\ \A k \in 1 .. Len(th) : th[k] < i
  /\ \A s \in Entries : pc[s] # "none" => \E k \in 1 .. Len(th) : th[k] = s
  /\ \A k \in 1 .. joined : pc[th[k]] = "ended"
  /\ main_pc = "config" => th = <<>>
  /\ main_pc = "returned" =>
       \/ i \in DOMAIN config /\ config[i].fault = "codec"
       \/ joined = Len(th)

----------------------------------------------------------------------------
LEMMA ConfigFacts ==
  ASSUME NEW c \in Configs
  PROVE  /\ DOMAIN c \subseteq Entries
         /\ \A s \in DOMAIN c : c[s] \in Entry
  <1>1. PICK n \in 0 .. MaxEntries : c \in [1 .. n -> Entry]
    BY DEF Configs
  <1>2. DOMAIN c = 1 .. n /\ 1 .. n \subseteq Entries
    BY <1>1, MainAssumption DEF Entries
  <1> QED  BY <1>1, <1>2

LEMMA InitSocketInv ==
  ASSUME Init
  PROVE  SocketInv
  <1>1. /\ config \in Configs /\ main_pc = "config" /\ bound = <<>>
        /\ pc = [s \in Entries |-> "none"]
        /\ fd_ = [s \in Entries |-> [which \in Holders |-> -1]]
        /\ zeros = {}
        /\ open \in {{0, 1, 2}, {1, 2}}
    BY DEF Init
  <1>2. Types
    BY <1>1, MainAssumption DEF Types, Places, Descriptors
  <1>3. Stages /\ ZeroTaken /\ Held
    BY <1>1 DEF Stages, ZeroTaken, Held, At0, Sending, Sockets, Holders
  <1>4. Owned /\ PortHeld
    BY <1>1 DEF Owned, PortHeld
  <1> QED  BY <1>2, <1>3, <1>4 DEF SocketInv

\* A descriptor that was free is given to a socket or to a lookup.
LEMMA OpensInv ==
  ASSUME SocketInv, NEW s \in Entries, NEW which \in Holders, NEW fd \in Free,
         LowestFree(fd), fd_' = [fd_ EXCEPT ![s][which] = fd], open' = open \cup {fd},
         NEW to, pc' = [pc EXCEPT ![s] = to],
         \/ pc[s] = "rtp" /\ which = "hostid" /\ to = "hostid"
         \/ pc[s] = "recv" /\ which = "recv" /\ to = "send"
         \/ pc[s] = "send" /\ which = "send" /\ to = "bind",
         zeros' = IF fd = 0 /\ which # "hostid" THEN zeros \cup {<<s, which>>} ELSE zeros,
         UNCHANGED <<config, main_pc, bound>>
  PROVE  SocketInv'
  <1>1. fd \in Descriptors /\ fd \notin open /\ fd # -1
    BY DEF Free, Descriptors
  <1>2. Types'
    <2>1. to \in Places
      BY DEF Places, Setup
    <2> QED  BY <1>1, <2>1 DEF SocketInv, Types
  <1>3. /\ fd_'[s][which] = fd
        /\ \A t \in Entries, o \in Holders :
             (t # s \/ o # which) => fd_'[t][o] = fd_[t][o]
        /\ \A t \in Entries : t # s => pc'[t] = pc[t]
        /\ pc'[s] = to
    BY DEF SocketInv, Types
  <1>4. fd_[s][which] = -1 /\ (which = "send" => fd_[s]["recv"] # -1)
    BY DEF SocketInv, Stages, At0, Sending
  <1>5. Stages'
    <2>1. ASSUME NEW t \in Entries, t # s
          PROVE  pc'[t] = pc[t] /\ \A o \in Holders : fd_'[t][o] = fd_[t][o]
      BY <1>3, <2>1
    <2>2. \A t \in Entries : t # s =>
            /\ pc'[t] \in At0 => fd_'[t]["recv"] = -1
            /\ pc'[t] \in At0 \cup {"send", "destroy_recv"} => fd_'[t]["send"] = -1
            /\ pc'[t] \in Sending \cup {"send"} => fd_'[t]["recv"] # -1
            /\ pc'[t] \in Sending => fd_'[t]["send"] # -1
            /\ pc'[t] = "hostid" <=> fd_'[t]["hostid"] # -1
      BY <2>1 DEF SocketInv, Stages, Sockets, Holders
    <2>3. CASE which = "hostid"
      BY <1>1, <1>3, <2>2, <2>3 DEF SocketInv, Stages, At0, Sending, Sockets, Holders
    <2>4. CASE which = "recv"
      BY <1>1, <1>3, <2>2, <2>4 DEF SocketInv, Stages, At0, Sending, Sockets, Holders
    <2>5. CASE which = "send"
      BY <1>1, <1>3, <1>4, <2>2, <2>5 DEF SocketInv, Stages, At0, Sending, Sockets, Holders
    <2> QED  BY <2>3, <2>4, <2>5
  <1>6. Held'
    BY <1>1, <1>3 DEF SocketInv, Held
  <1>7. Owned'
    <2>1. ASSUME NEW d \in open' \ {0, 1, 2}
          PROVE  \E t \in Entries, o \in Holders : fd_'[t][o] = d
      <3>1. CASE d = fd
        BY <1>3, <3>1
      <3>2. CASE d # fd
        <4>1. PICK t \in Entries, o \in Holders : fd_[t][o] = d
          BY <2>1, <3>2 DEF SocketInv, Owned
        <4>2. d # -1
          BY <2>1, <3>2 DEF SocketInv, Types, Descriptors
        <4> QED  BY <1>3, <1>4, <4>1, <4>2
      <3> QED  BY <3>1, <3>2
    <2> QED  BY <2>1 DEF Owned
  <1>8. ZeroTaken'
    <2>1. CASE fd = 0
      <3>1. zeros = {}
        BY <1>1, <2>1 DEF SocketInv, ZeroTaken
      <3>2. CASE which = "hostid"
        BY <3>1, <3>2 DEF ZeroTaken
      <3>3. CASE which # "hostid"
        <4>1. zeros' = {<<s, which>>} /\ 0 \in open'
          BY <2>1, <3>1, <3>3
        <4>2. \A t \in Entries : fd_[t]["hostid"] # 0
          BY <1>1, <2>1 DEF SocketInv, Held, Holders
        <4>3. \A t \in Entries : fd_'[t]["hostid"] = fd_[t]["hostid"]
          BY <1>3, <3>3 DEF Holders
        <4> QED  BY <4>1, <4>2, <4>3 DEF ZeroTaken
      <3> QED  BY <3>2, <3>3
    <2>2. CASE fd # 0
      <3>1. zeros' = zeros
        BY <2>2
      <3>2. \A t \in Entries : fd_'[t]["hostid"] = 0 => fd_[t]["hostid"] = 0
        BY <1>3, <2>2 DEF Holders
      <3> QED  BY <3>1, <3>2 DEF SocketInv, ZeroTaken
    <2> QED  BY <2>1, <2>2
  <1>9. PortHeld'
    <2>1. ASSUME NEW t \in Entries PROVE fd_'[t]["hostid"] \notin DOMAIN bound
      BY <1>1, <1>3 DEF SocketInv, Types, PortHeld, Holders
    <2>2. ASSUME NEW t \in Entries, pc'[t] \in {"coders", "loop"}
          PROVE  fd_'[t]["recv"] = fd_[t]["recv"] /\ pc[t] = pc'[t]
      BY <1>3, <2>2 DEF Sockets, Holders
    <2> QED  BY <2>1, <2>2 DEF SocketInv, PortHeld
  <1> QED  BY <1>2, <1>5, <1>6, <1>7, <1>8, <1>9 DEF SocketInv

LEMMA SocketInitInv ==
  ASSUME SocketInv, NEW s \in Entries, NEW which \in Sockets, SocketInit(s, which)
  PROVE  SocketInv'
  <1>1. PICK fd \in Free :
          /\ LowestFree(fd)
          /\ fd_' = [fd_ EXCEPT ![s][which] = fd]
          /\ open' = open \cup {fd}
    BY DEF SocketInit
  <1>2. which \in Holders /\ which # "hostid"
    BY DEF Sockets, Holders
  <1>3. fd_'[s][which] = fd
    BY <1>1, <1>2 DEF SocketInv, Types
  <1>4. zeros' = IF fd = 0 /\ which # "hostid" THEN zeros \cup {<<s, which>>} ELSE zeros
    BY <1>2, <1>3 DEF SocketInit
  <1> DEFINE to == IF which = "recv" THEN "send" ELSE "bind"
  <1>5. /\ pc[s] = which /\ pc' = [pc EXCEPT ![s] = to]
        /\ UNCHANGED <<config, main_pc, bound>>
    BY DEF SocketInit, Runs, Goes, mainVars
  <1>6. \/ which = "recv" /\ to = "send"
        \/ which = "send" /\ to = "bind"
    <2>1. which = "recv" \/ which = "send"
      BY DEF Sockets
    <2> QED  BY <2>1
  <1> HIDE DEF to
  <1> QED  BY <1>1, <1>2, <1>4, <1>5, <1>6, OpensInv

LEMMA HostIdOpensInv ==
  ASSUME SocketInv, NEW s \in Entries, HostIdOpens(s)
  PROVE  SocketInv'
  <1>1. PICK fd \in Free :
          /\ LowestFree(fd)
          /\ fd_' = [fd_ EXCEPT ![s]["hostid"] = fd]
          /\ open' = open \cup {fd}
    BY DEF HostIdOpens
  <1>2. /\ pc[s] = "rtp" /\ pc' = [pc EXCEPT ![s] = "hostid"]
        /\ UNCHANGED <<config, main_pc, bound, zeros>>
    BY DEF HostIdOpens, Runs, Goes, mainVars, history
  <1>3. "hostid" \in Holders
    BY DEF Holders
  <1> QED  BY <1>1, <1>2, <1>3, OpensInv

\* A step of the setup after which the same sockets are open.
LEMMA MovesInv ==
  ASSUME SocketInv, NEW s \in Entries, NEW from, NEW to,
         pc[s] = from, pc' = [pc EXCEPT ![s] = to],
         \/ from \in Setup \ {"hostid"} /\ to = "destroy"
         \/ from = "rtp" /\ to = "recv"
         \/ from = "coders" /\ to = "loop"
         \/ from = "none" /\ to \in {"rtp", "recv"},
         main_pc' \in {"config", "entries", "join", "returned", "terminated"},
         UNCHANGED <<config, fd_, kernel, zeros>>
  PROVE  SocketInv'
  <1>1. /\ config' = config /\ fd_' = fd_ /\ open' = open /\ bound' = bound
        /\ zeros' = zeros
        /\ pc'[s] = to /\ \A t \in Entries : t # s => pc'[t] = pc[t]
    BY DEF kernel, SocketInv, Types
  <1>2. Types'
    <2>1. to \in Places
      BY DEF Places, Setup
    <2> QED  BY <1>1, <2>1 DEF SocketInv, Types
  <1>3. Stages'
    BY <1>1 DEF SocketInv, Stages, At0, Sending, Setup
  <1>4. Held' /\ Owned'
    BY <1>1 DEF SocketInv, Held, Owned
  <1>5. ZeroTaken'
    BY <1>1 DEF SocketInv, ZeroTaken
  <1>6. PortHeld'
    BY <1>1 DEF SocketInv, PortHeld, Setup
  <1> QED  BY <1>2, <1>3, <1>4, <1>5, <1>6 DEF SocketInv

LEMMA BindInv ==
  ASSUME SocketInv, NEW s \in Entries, Bind(s)
  PROVE  SocketInv'
  <1> DEFINE fd == fd_[s]["recv"]
  <1>1. /\ pc[s] = "bind" /\ pc' = [pc EXCEPT ![s] = "coders"]
        /\ \A d \in DOMAIN bound : bound[d] # config[s].port
        /\ bound' = [d \in DOMAIN bound \cup {fd} |->
                       IF d = fd THEN config[s].port ELSE bound[d]]
        /\ config' = config /\ fd_' = fd_ /\ open' = open /\ main_pc' = main_pc
        /\ zeros' = zeros
    BY DEF Bind, Runs, Goes, PortTaken, BindTo, mainVars, history
  <1>2. /\ pc'[s] = "coders" /\ \A t \in Entries : t # s => pc'[t] = pc[t]
        /\ DOMAIN bound' = DOMAIN bound \cup {fd}
    BY <1>1 DEF SocketInv, Types
  <1>3. fd \in open /\ fd # -1
    BY <1>1 DEF SocketInv, Stages, Held, Sending, Sockets, Holders
  <1>4. Types'
    BY <1>1, <1>2, <1>3 DEF SocketInv, Types, Places, Setup
  <1>5. Stages' /\ Held' /\ Owned' /\ ZeroTaken'
    BY <1>1, <1>2 DEF SocketInv, Stages, Held, Owned, ZeroTaken, At0, Sending
  <1>6. ASSUME NEW t \in Entries, t # s, pc[t] \in {"coders", "loop"}
        PROVE  fd_[t]["recv"] # fd
    BY <1>3, <1>6 DEF SocketInv, Held, Sockets, Holders
  <1>7. \A t \in Entries : fd_[t]["hostid"] # fd
    BY <1>3 DEF SocketInv, Held, Sockets, Holders
  <1>8. PortHeld'
    BY <1>1, <1>2, <1>6, <1>7 DEF SocketInv, PortHeld
  <1> QED  BY <1>4, <1>5, <1>8 DEF SocketInv

\* Closing one socket of a session on its way out.
LEMMA CloseInv ==
  ASSUME SocketInv, NEW s \in Entries, NEW which \in Sockets, Close(s, which),
         NEW to,
         \/ pc[s] = "destroy" /\ which = "send" /\ to = "destroy_recv"
         \/ pc[s] = "destroy_recv" /\ which = "recv" /\ to = "ended",
         pc' = [pc EXCEPT ![s] = to], UNCHANGED <<config, main_pc, zeros>>
  PROVE  SocketInv'
  <1> DEFINE fd == fd_[s][which]
  <1>1. /\ open' = IF fd > 0 THEN open \ {fd} ELSE open
        /\ bound' = [d \in DOMAIN bound \cap open' |-> bound[d]]
        /\ fd_' = [fd_ EXCEPT ![s][which] = -1]
    BY DEF Close
  <1>2. /\ fd \in Descriptors \cup {-1} /\ open' \subseteq open
        /\ \A d \in open : d # fd => d \in open'
        /\ 0 \in open => 0 \in open'
    BY <1>1 DEF SocketInv, Types, Descriptors, Sockets, Holders
  <1>3. /\ fd_'[s][which] = -1
        /\ \A t \in Entries, o \in Holders :
             (t # s \/ o # which) => fd_'[t][o] = fd_[t][o]
        /\ \A t \in Entries : fd_'[t]["hostid"] = fd_[t]["hostid"]
        /\ pc'[s] = to /\ \A t \in Entries : t # s => pc'[t] = pc[t]
        /\ DOMAIN bound' = DOMAIN bound \cap open'
        /\ \A d \in DOMAIN bound' : bound'[d] = bound[d]
    BY <1>1 DEF SocketInv, Types, Sockets, Holders
  <1>4. Types'
    BY <1>1, <1>2, <1>3 DEF SocketInv, Types, Places, Setup
  <1>5. Stages'
    BY <1>3 DEF SocketInv, Stages, At0, Sending, Sockets, Holders
  <1>6. \A t \in Entries, o \in Holders :
          (t # s \/ o # which) /\ fd_[t][o] # -1 => fd_[t][o] # fd
    BY DEF SocketInv, Held, Sockets, Holders
  <1>7. Held'
    BY <1>2, <1>3, <1>6 DEF SocketInv, Held
  <1>8. Owned'
    <2>1. ASSUME NEW d \in open' \ {0, 1, 2}
          PROVE  \E t \in Entries, o \in Holders : fd_'[t][o] = d
      <3>1. PICK t \in Entries, o \in Holders : fd_[t][o] = d
        BY <1>2, <2>1 DEF SocketInv, Owned
      <3>2. d # fd
        BY <1>1, <2>1 DEF SocketInv, Types, Descriptors
      <3> QED  BY <1>3, <3>1, <3>2
    <2> QED  BY <2>1 DEF Owned
  <1>9. ZeroTaken'
    BY <1>2, <1>3 DEF SocketInv, ZeroTaken
  <1>10. PortHeld'
    <2>1. ASSUME NEW t \in Entries, pc'[t] \in {"coders", "loop"}
          PROVE  fd_'[t]["recv"] \in DOMAIN bound' /\ bound'[fd_'[t]["recv"]] = config'[t].port
      <3>1. t # s /\ pc[t] \in {"coders", "loop"}
        BY <1>3, <2>1
      <3>2. /\ fd_'[t]["recv"] = fd_[t]["recv"] /\ fd_[t]["recv"] # -1
            /\ fd_[t]["recv"] \in DOMAIN bound /\ fd_[t]["recv"] \in open
            /\ bound[fd_[t]["recv"]] = config[t].port
        BY <1>3, <3>1 DEF SocketInv, PortHeld, Types, Stages, Held, Sending, Sockets, Holders
      <3>3. fd_[t]["recv"] \in open'
        BY <1>2, <1>6, <3>1, <3>2 DEF Sockets, Holders
      <3> QED  BY <1>3, <3>2, <3>3
    <2> QED  BY <1>3, <2>1 DEF SocketInv, PortHeld
  <1> QED  BY <1>4, <1>5, <1>7, <1>8, <1>9, <1>10 DEF SocketInv

\* The lookup of the host's id is over.
LEMMA HostIdClosesInv ==
  ASSUME SocketInv, NEW s \in Entries, HostIdCloses(s)
  PROVE  SocketInv'
  <1> DEFINE fd == fd_[s]["hostid"]
  <1>1. /\ pc[s] = "hostid" /\ pc' = [pc EXCEPT ![s] = "recv"]
        /\ open' = open \ {fd}
        /\ fd_' = [fd_ EXCEPT ![s]["hostid"] = -1]
        /\ UNCHANGED <<config, main_pc, bound, zeros>>
    BY DEF HostIdCloses, Runs, Goes, mainVars, history
  <1>2. fd # -1 /\ fd \in open
    BY <1>1 DEF SocketInv, Stages, Held, Holders
  <1>3. /\ \A o \in Sockets : fd_'[s][o] = fd_[s][o]
        /\ \A t \in Entries, o \in Holders : t # s => fd_'[t][o] = fd_[t][o]
        /\ fd_'[s]["hostid"] = -1
        /\ pc'[s] = "recv" /\ \A t \in Entries : t # s => pc'[t] = pc[t]
    BY <1>1 DEF SocketInv, Types, Sockets, Holders
  <1>4. \A t \in Entries, o \in Holders :
          (t # s \/ o # "hostid") /\ fd_[t][o] # -1 => fd_[t][o] # fd
    BY DEF SocketInv, Held, Holders
  <1>5. Types'
    <2>1. DOMAIN bound \subseteq open'
      BY <1>1 DEF SocketInv, PortHeld, Types
    <2> QED  BY <1>1, <2>1 DEF SocketInv, Types, Places, Setup
  <1>6. Stages'
    BY <1>1, <1>3 DEF SocketInv, Stages, At0, Sending, Sockets, Holders
  <1>7. ASSUME NEW t \in Entries, NEW o \in Holders, fd_'[t][o] # -1
        PROVE  (t # s \/ o # "hostid") /\ fd_'[t][o] = fd_[t][o]
    BY <1>3, <1>7 DEF Sockets, Holders
  <1>8. Held'
    BY <1>1, <1>4, <1>7 DEF SocketInv, Held
  <1>9. Owned'
    <2>1. ASSUME NEW d \in open' \ {0, 1, 2}
          PROVE  \E t \in Entries, o \in Holders : fd_'[t][o] = d
      <3>1. PICK t \in Entries, o \in Holders : fd_[t][o] = d
        BY <1>1, <2>1 DEF SocketInv, Owned
      <3>2. t # s \/ o # "hostid"
        BY <1>1, <2>1, <3>1
      <3> QED  BY <1>3, <3>1, <3>2 DEF Sockets, Holders
    <2> QED  BY <2>1 DEF Owned
  <1>10. ZeroTaken'
    BY <1>1, <1>3 DEF SocketInv, ZeroTaken, Holders
  <1>11. PortHeld'
    <2>1. ASSUME NEW t \in Entries PROVE fd_'[t]["hostid"] \notin DOMAIN bound
      BY <1>3 DEF SocketInv, PortHeld, Types, Descriptors, Holders
    <2>2. \A t \in Entries : fd_'[t]["recv"] = fd_[t]["recv"]
      BY <1>3 DEF Sockets, Holders
    <2>3. \A t \in Entries : pc'[t] \in {"coders", "loop"} => pc[t] \in {"coders", "loop"}
      BY <1>3
    <2> QED  BY <1>1, <2>1, <2>2, <2>3 DEF SocketInv, PortHeld
  <1> QED  BY <1>5, <1>6, <1>8, <1>9, <1>10, <1>11 DEF SocketInv

LEMMA MainStepInv ==
  ASSUME SocketInv, ThreadInv, MainStep
  PROVE  SocketInv'
  <1>1. CASE StartSession
    <2>1. i \in Entries /\ pc[i] = "none"
      <3>1. i \in Entries
        BY <1>1, ConfigFacts DEF StartSession, At, SocketInv, Types
      <3>2. \A k \in 1 .. Len(th) : th[k] # i
        BY DEF ThreadInv
      <3> QED  BY <3>1, <3>2 DEF ThreadInv
    <2>2. PICK first \in {"rtp", "recv"} : pc' = [pc EXCEPT ![i] = first]
      BY <1>1 DEF StartSession
    <2>3. UNCHANGED <<config, fd_, kernel, zeros, main_pc>>
      BY <1>1 DEF StartSession, history
    <2> QED  BY <2>1, <2>2, <2>3, MovesInv DEF SocketInv, Types
  <1>2. CASE ~StartSession
    <2>1. /\ UNCHANGED <<config, pc, fd_, open, bound, zeros>>
          /\ main_pc' \in {"config", "entries", "join", "returned", "terminated"}
      BY <1>2 DEF MainStep, ReadConfig, SkipEntry, WrongCodec, Throws, StartJoining,
                  Join, Return, kernel, history, SocketInv, Types
    <2> QED  BY <2>1 DEF SocketInv, Types, Stages, Held, Owned, ZeroTaken, PortHeld
  <1> QED  BY <1>1, <1>2

LEMMA SessionStepInv ==
  ASSUME SocketInv, NEW s \in Entries, SessionStep(s)
  PROVE  SocketInv'
  <1>1. ASSUME NEW which \in Sockets, SocketFails(s, which) PROVE SocketInv'
    <2>1. /\ pc[s] = which /\ pc' = [pc EXCEPT ![s] = "destroy"]
          /\ UNCHANGED <<config, fd_, kernel, zeros, main_pc>>
      BY <1>1 DEF SocketFails, Runs, Goes, mainVars
    <2>2. which \in Setup \ {"hostid"}
      BY DEF Sockets, Setup
    <2> QED  BY <2>1, <2>2, MovesInv DEF SocketInv, Types
  <1>2. CASE BindFails(s) \/ CodersFail(s)
    <2>1. /\ pc[s] \in Setup \ {"hostid"} /\ pc' = [pc EXCEPT ![s] = "destroy"]
          /\ UNCHANGED <<config, fd_, kernel, zeros, main_pc>>
      BY <1>2 DEF BindFails, CodersFail, Runs, Goes, mainVars, history, Setup
    <2> QED  BY <2>1, MovesInv DEF SocketInv, Types
  <1>3. CASE CodersInit(s)
    <2>1. /\ pc[s] = "coders" /\ pc' = [pc EXCEPT ![s] = "loop"]
          /\ UNCHANGED <<config, fd_, kernel, zeros, main_pc>>
      BY <1>3 DEF CodersInit, Runs, Goes, mainVars, history
    <2> QED  BY <2>1, MovesInv DEF SocketInv, Types
  <1>4. CASE DestroySend(s)
    BY <1>4, CloseInv DEF DestroySend, Runs, Goes, mainVars, history, Sockets
  <1>5. CASE DestroyRecv(s)
    BY <1>5, CloseInv DEF DestroyRecv, Runs, Goes, mainVars, history, Sockets
  <1>6. CASE HostIdNotOpened(s)
    <2>1. /\ pc[s] = "rtp" /\ pc' = [pc EXCEPT ![s] = "recv"]
          /\ UNCHANGED <<config, fd_, kernel, zeros, main_pc>>
      BY <1>6 DEF HostIdNotOpened, Runs, Goes, mainVars, history
    <2> QED  BY <2>1, MovesInv DEF SocketInv, Types
  <1> QED
    BY <1>1, <1>2, <1>3, <1>4, <1>5, <1>6, SocketInitInv, HostIdOpensInv,
       HostIdClosesInv, BindInv DEF SessionStep

----------------------------------------------------------------------------
(***************************************************************************)
(* The list th that main joins.                                            *)
(***************************************************************************)
LEMMA InitThreadInv ==
  ASSUME Init
  PROVE  ThreadInv
  BY DEF Init, ThreadInv

\* A thread moves on; it was started, and it had not ended.
LEMMA SessionThreadInv ==
  ASSUME SocketInv, ThreadInv, NEW s \in Entries, SessionStep(s)
  PROVE  ThreadInv'
  <1>1. PICK to : /\ pc' = [pc EXCEPT ![s] = to] /\ pc[s] \notin {"none", "ended"}
                  /\ UNCHANGED <<config, main_pc, i, th, joined>>
    BY DEF SessionStep, HostIdOpens, HostIdCloses, HostIdNotOpened, SocketInit, SocketFails, Bind, BindFails, CodersInit, CodersFail,
           DestroySend, DestroyRecv, Runs, Goes, mainVars, Sockets
  <1>2. \A t \in Entries : t # s => pc'[t] = pc[t]
    BY <1>1 DEF SocketInv, Types
  <1>3. \A t \in Entries : pc'[t] # "none" => \E k \in 1 .. Len(th) : th[k] = t
    BY <1>1, <1>2 DEF ThreadInv
  <1>4. ASSUME NEW k \in 1 .. joined PROVE pc'[th[k]] = "ended"
    <2>1. th[k] \in Entries /\ pc[th[k]] = "ended"
      BY DEF ThreadInv
    <2> QED  BY <1>1, <1>2, <2>1
  <1> QED  BY <1>1, <1>3, <1>4 DEF ThreadInv

LEMMA StartThreadInv ==
  ASSUME SocketInv, ThreadInv, StartSession
  PROVE  ThreadInv'
  <1>1. i \in Entries /\ i \in Nat
    BY ConfigFacts DEF StartSession, At, SocketInv, Types, ThreadInv
  <1>2. /\ th' = Append(th, i) /\ i' = i + 1 /\ joined' = joined
        /\ \E first \in {"rtp", "recv"} : pc' = [pc EXCEPT ![i] = first]
        /\ main_pc = "entries" /\ main_pc' = main_pc
    BY DEF StartSession, At
  <1>3. /\ th' \in Seq(Entries) /\ Len(th') = Len(th) + 1
        /\ th'[Len(th) + 1] = i /\ \A k \in 1 .. Len(th) : th'[k] = th[k]
    BY <1>1, <1>2, AppendProperties DEF ThreadInv
  <1>4. Len(th) \in Nat /\ joined \in 0 .. Len(th)
    BY LenProperties DEF ThreadInv
  <1>5. \A t \in Entries : t # i => pc'[t] = pc[t]
    BY <1>2 DEF SocketInv, Types
  <1>6. ASSUME NEW k \in 1 .. Len(th') PROVE th'[k] < i'
    <2>1. CASE k = Len(th) + 1
      BY <1>1, <1>2, <1>3, <2>1
    <2>2. CASE k \in 1 .. Len(th)
      <3>1. th[k] \in Entries /\ th[k] < i
        BY <2>2 DEF ThreadInv
      <3> QED  BY <1>1, <1>2, <1>3, <2>2, <3>1 DEF Entries
    <2> QED  BY <1>3, <1>4, <2>1, <2>2
  <1>7. ASSUME NEW t \in Entries, pc'[t] # "none"
        PROVE  \E k \in 1 .. Len(th') : th'[k] = t
    <2>1. CASE t = i
      BY <1>3, <1>4, <2>1
    <2>2. CASE t # i
      <3>1. PICK k \in 1 .. Len(th) : th[k] = t
        BY <1>5, <1>7, <2>2 DEF ThreadInv
      <3> QED  BY <1>3, <1>4, <3>1
    <2> QED  BY <2>1, <2>2
  <1>8. ASSUME NEW k \in 1 .. joined PROVE pc'[th'[k]] = "ended"
    <2>1. k \in 1 .. Len(th)
      BY <1>4
    <2>2. th[k] \in Entries /\ th[k] # i /\ pc[th[k]] = "ended"
      BY <1>1, <2>1 DEF ThreadInv
    <2> QED  BY <1>3, <1>5, <2>1, <2>2
  <1> QED  BY <1>1, <1>2, <1>3, <1>4, <1>6, <1>7, <1>8 DEF ThreadInv

LEMMA MainThreadInv ==
  ASSUME SocketInv, ThreadInv, MainStep
  PROVE  ThreadInv'
  <1>1. CASE ReadConfig \/ WrongCodec \/ Throws \/ StartJoining
    <2>1. /\ UNCHANGED <<config, i, th, joined, pc>>
          /\ main_pc' = "returned" => \/ main_pc = "config"
                                      \/ i \in DOMAIN config /\ config[i].fault = "codec"
      BY <1>1 DEF ReadConfig, WrongCodec, Throws, StartJoining, At
    <2>2. main_pc' # "config"
      BY <1>1 DEF ReadConfig, WrongCodec, Throws, StartJoining
    <2>3. main_pc = "config" => joined = Len(th)
      BY LenProperties DEF ThreadInv
    <2> QED  BY <2>1, <2>2, <2>3 DEF ThreadInv
  <1>2. CASE SkipEntry
    <2>1. /\ UNCHANGED <<th, joined, pc, main_pc>> /\ i' = i + 1
          /\ main_pc = "entries"
      BY <1>2 DEF SkipEntry, At
    <2>2. \A k \in 1 .. Len(th) : th[k] < i'
      <3>1. \A k \in 1 .. Len(th) : th[k] \in Entries /\ th[k] < i
        BY DEF ThreadInv
      <3>2. i \in Nat /\ \A e \in Entries : e \in Nat
        BY DEF ThreadInv, Entries
      <3> QED  BY <2>1, <3>1, <3>2
    <2> QED  BY <2>1, <2>2 DEF ThreadInv
  <1>3. CASE Join
    <2>1. /\ joined < Len(th) /\ pc[th[joined + 1]] = "ended" /\ joined' = joined + 1
          /\ UNCHANGED <<i, th, pc, main_pc>> /\ main_pc = "join"
      BY <1>3 DEF Join
    <2> QED  BY <2>1, LenProperties DEF ThreadInv
  <1>4. CASE Return
    BY <1>4 DEF Return, ThreadInv
  <1> QED  BY <1>1, <1>2, <1>3, <1>4, StartThreadInv DEF MainStep

----------------------------------------------------------------------------
Inv == SocketInv /\ ThreadInv

LEMMA NextInv ==
  ASSUME Inv, [Next]_vars
  PROVE  Inv'
  <1>1. CASE MainStep
    BY <1>1, MainStepInv, MainThreadInv DEF Inv
  <1>2. CASE \E s \in Entries : SessionStep(s)
    BY <1>2, SessionStepInv, SessionThreadInv DEF Inv
  <1>3. CASE UNCHANGED vars
    BY <1>3 DEF vars, mainVars, kernel, history, Inv, SocketInv, Types, Stages, Held, Owned,
                ZeroTaken, PortHeld, ThreadInv
  <1> QED  BY <1>1, <1>2, <1>3 DEF Next, Loop, Over

\* The invariant of the process holds in every behaviour.
THEOREM MainInvariant == Spec => []Inv
  <1>1. Init => Inv
    BY InitSocketInv, InitThreadInv DEF Inv
  <1> QED  BY <1>1, NextInv, PTL DEF Spec

\* Descriptor 0, which Send refuses, is given to one socket of the process at
\* most, for any number of sessions that are set up, fail and end
\* (udp.cpp:26, 45).
THEOREM MainZeroGivenOnce == Spec => []ZeroGivenOnce
  <1>1. ASSUME Inv PROVE ZeroGivenOnce
    <2>1. \A y, z \in zeros : y = z
      BY <1>1 DEF Inv, SocketInv, ZeroTaken
    <2>2. CASE zeros = {}
      BY <2>2, FS_EmptySet DEF ZeroGivenOnce
    <2>3. CASE zeros # {}
      <3>1. PICK z \in zeros : zeros = {z}
        BY <2>1, <2>3
      <3>2. Cardinality({z}) = 1
        BY FS_Singleton
      <3> QED  BY <3>1, <3>2 DEF ZeroGivenOnce
    <2> QED  BY <2>2, <2>3
  <1> QED  BY <1>1, MainInvariant, PTL

\* Sessions in their loops have a port each, the one their entries name.
THEOREM MainOnePortEach == Spec => []OnePortEach
  <1>1. ASSUME Inv PROVE OnePortEach
    <2>1. ASSUME NEW s \in Entries, pc[s] = "loop"
          PROVE  /\ fd_[s]["recv"] \in DOMAIN bound
                 /\ bound[fd_[s]["recv"]] = config[s].port
                 /\ fd_[s]["recv"] # -1
      BY <1>1, <2>1 DEF Inv, SocketInv, PortHeld, Stages, Sending
    <2>2. ASSUME NEW s \in Entries, pc[s] = "loop",
                 NEW t \in Entries \ {s}, pc[t] = "loop"
          PROVE  config[t].port # config[s].port
      <3>1. fd_[t]["recv"] # fd_[s]["recv"]
        BY <1>1, <2>1, <2>2 DEF Inv, SocketInv, Held, Sockets, Holders
      <3> QED  BY <1>1, <2>1, <2>2, <3>1 DEF Inv, SocketInv, PortHeld
    <2> QED  BY <2>1, <2>2 DEF OnePortEach
  <1> QED  BY <1>1, MainInvariant, PTL

\* Every descriptor but the standard ones has exactly one holder, a socket or
\* a lookup of a session that lives.
THEOREM MainDescriptorsOwned == Spec => []DescriptorsOwned
  <1>1. ASSUME Inv PROVE DescriptorsOwned
    <2>1. ASSUME NEW d \in open \ {0, 1, 2}
          PROVE  \E s \in Entries, which \in Holders :
                   /\ Live(s) /\ fd_[s][which] = d
                   /\ \A t \in Entries, other \in Holders :
                        fd_[t][other] = d => t = s /\ other = which
      <3>1. PICK s \in Entries, which \in Holders : fd_[s][which] = d
        BY <1>1, <2>1 DEF Inv, SocketInv, Owned
      <3>2. d # -1
        BY <1>1, <2>1 DEF Inv, SocketInv, Types, Descriptors
      <3>3. Live(s)
        BY <1>1, <3>1, <3>2 DEF Inv, SocketInv, Stages, At0, Sockets, Holders, Live
      <3>4. \A t \in Entries, other \in Holders :
              fd_[t][other] = d => t = s /\ other = which
        BY <1>1, <3>1, <3>2 DEF Inv, SocketInv, Held
      <3> QED  BY <3>1, <3>3, <3>4
    <2> QED  BY <2>1 DEF DescriptorsOwned
  <1> QED  BY <1>1, MainInvariant, PTL

\* main returns over a running thread only at an entry with an unknown codec;
\* else every session has ended and holds no descriptor (main.cpp:96, 117).
THEOREM MainCutsOffAtBadCodec == Spec => []CutsOffAtBadCodec
  <1>1. ASSUME Inv PROVE CutsOffAtBadCodec
    <2>1. ASSUME main_pc = "returned", NEW s \in Entries,
                 ~(i \in DOMAIN config /\ config[i].fault = "codec")
          PROVE  ~Live(s) /\ \A which \in Holders : fd_[s][which] = -1
      <3>1. joined = Len(th)
        BY <1>1, <2>1 DEF Inv, ThreadInv
      <3>2. pc[s] \in {"none", "ended"}
        BY <1>1, <3>1 DEF Inv, ThreadInv
      <3> QED  BY <1>1, <3>2 DEF Inv, SocketInv, Stages, At0, Sockets, Holders, Live
    <2> QED  BY <2>1 DEF CutsOffAtBadCodec
  <1> QED  BY <1>1, MainInvariant, PTL

----------------------------------------------------------------------------
(***************************************************************************)
(* Types.  That no more setups fail than there are entries is a fact about *)
(* the sessions on their way out, each of which failed once.               *)
(***************************************************************************)
Leaving == {s \in Entries : pc[s] \in {"destroy", "destroy_recv", "ended"}}

Rest ==
  /\ i \in 1 .. MaxEntries + 1
  /\ \A s \in Entries : pc[s] # "none" => s \in DOMAIN config
  /\ bound \in [DOMAIN bound -> Ports]
  /\ failures \in Nat /\ failures <= Cardinality(Leaving)
  /\ zeros \subseteq Entries \X Sockets

LEMMA LeavingFinite ==
  /\ IsFiniteSet(Leaving)
  /\ Cardinality(Leaving) \in Nat
  /\ Cardinality(Leaving) <= MaxEntries
  <1>1. IsFiniteSet(Entries) /\ Cardinality(Entries) = MaxEntries
    BY FS_Interval, MainAssumption DEF Entries
  <1>2. Leaving \subseteq Entries
    BY DEF Leaving
  <1> QED  BY <1>1, <1>2, FS_Subset, FS_CardinalityType

LEMMA InitRest ==
  ASSUME Init
  PROVE  Rest
  <1>1. 0 <= Cardinality(Leaving)
    BY LeavingFinite
  <1>2. bound \in [DOMAIN bound -> Ports]
    BY DEF Init
  <1> QED  BY <1>1, <1>2, MainAssumption DEF Init, Rest

LEMMA MainStepRest ==
  ASSUME Inv, Rest, MainStep
  PROVE  Rest'
  <1>1. CASE StartSession \/ SkipEntry
    <2>1. i \in Entries /\ i \in DOMAIN config /\ i' = i + 1
      BY <1>1, ConfigFacts DEF StartSession, SkipEntry, At, Inv, SocketInv, Types
    <2>2. i' \in 1 .. MaxEntries + 1
      BY <2>1, MainAssumption DEF Entries
    <2>3. /\ \A s \in Entries : s # i => pc'[s] = pc[s]
          /\ pc'[i] \notin {"destroy", "destroy_recv", "ended"} \/ pc' = pc
          /\ UNCHANGED <<config, bound, failures, zeros>>
      BY <1>1, <2>1 DEF StartSession, SkipEntry, Inv, SocketInv, Types, kernel, history
    <2>4. pc[i] = "none" \/ pc' = pc
      <3>1. CASE SkipEntry
        BY <3>1 DEF SkipEntry
      <3>2. CASE StartSession
        <4>1. \A k \in 1 .. Len(th) : th[k] # i
          BY DEF Inv, ThreadInv
        <4> QED  BY <2>1, <4>1 DEF Inv, ThreadInv
      <3> QED  BY <1>1, <3>1, <3>2
    <2>5. Leaving' = Leaving
      BY <2>1, <2>3, <2>4 DEF Leaving
    <2> QED  BY <2>1, <2>2, <2>3, <2>5 DEF Rest
  <1>2. CASE ~(StartSession \/ SkipEntry)
    BY <1>2 DEF MainStep, ReadConfig, WrongCodec, Throws, StartJoining, Join, Return,
                kernel, history, Rest, Leaving
  <1> QED  BY <1>1, <1>2

\* A session that leaves, or a step of one that does not.
LEMMA LeavingGrows ==
  ASSUME Inv, NEW s \in Entries, NEW to, pc' = [pc EXCEPT ![s] = to],
         pc[s] \in {"destroy", "destroy_recv", "ended"}
           => to \in {"destroy", "destroy_recv", "ended"}
  PROVE  /\ Cardinality(Leaving') >= Cardinality(Leaving)
         /\ pc[s] \in Setup /\ to = "destroy"
              => Cardinality(Leaving') = Cardinality(Leaving) + 1
         /\ Cardinality(Leaving) \in Nat /\ Cardinality(Leaving') \in Nat
  <1>1. pc'[s] = to /\ \A t \in Entries : t # s => pc'[t] = pc[t]
    BY DEF Inv, SocketInv, Types
  <1>2. Leaving' = Leaving \/ (Leaving' = Leaving \cup {s} /\ s \notin Leaving)
    BY <1>1 DEF Leaving
  <1>3. pc[s] \in Setup /\ to = "destroy" => Leaving' = Leaving \cup {s} /\ s \notin Leaving
    BY <1>1 DEF Leaving, Setup
  <1>4. s \notin Leaving => Cardinality(Leaving \cup {s}) = Cardinality(Leaving) + 1
    BY LeavingFinite, FS_AddElement
  <1> QED  BY <1>2, <1>3, <1>4, LeavingFinite

LEMMA SessionStepRest ==
  ASSUME Inv, Rest, NEW s \in Entries, SessionStep(s)
  PROVE  Rest'
  <1>1. PICK to : /\ pc' = [pc EXCEPT ![s] = to]
                  /\ pc[s] \in {"destroy", "destroy_recv"}
                       => to \in {"destroy_recv", "ended"}
                  /\ pc[s] \notin {"none", "ended"}
                  /\ \/ failures' = failures
                     \/ failures' = failures + 1 /\ to = "destroy" /\ pc[s] \in Setup
                  /\ UNCHANGED <<config, i>>
    BY DEF SessionStep, HostIdOpens, HostIdCloses, HostIdNotOpened, SocketInit,
           SocketFails, Bind, BindFails, CodersInit, CodersFail, DestroySend,
           DestroyRecv, Runs, Goes, mainVars, history, Sockets, Setup
  <1>2. \A t \in Entries : pc'[t] # "none" => t \in DOMAIN config
    BY <1>1 DEF Rest, Inv, SocketInv, Types
  <1>3. failures' \in Nat /\ failures' <= Cardinality(Leaving')
    <2>1. /\ Cardinality(Leaving') >= Cardinality(Leaving)
          /\ pc[s] \in Setup /\ to = "destroy"
               => Cardinality(Leaving') = Cardinality(Leaving) + 1
          /\ Cardinality(Leaving) \in Nat /\ Cardinality(Leaving') \in Nat
      BY <1>1, LeavingGrows
    <2>2. failures \in Nat /\ failures <= Cardinality(Leaving)
      BY DEF Rest
    <2> QED  BY <1>1, <2>1, <2>2
  <1>4. bound' \in [DOMAIN bound' -> Ports]
    <2>1. CASE Bind(s)
      <3> DEFINE fd == fd_[s]["recv"]  port == config[s].port
      <3>1. s \in DOMAIN config
        BY <1>1 DEF Rest
      <3>2. config[s] \in Entry
        BY <3>1, ConfigFacts DEF Inv, SocketInv, Types
      <3>3. port \in Ports
        BY <3>2 DEF Entry
      <3>4. bound' = [d \in DOMAIN bound \cup {fd} |-> IF d = fd THEN port ELSE bound[d]]
        BY <2>1 DEF Bind, BindTo
      <3> HIDE DEF fd, port
      <3> QED  BY <3>3, <3>4 DEF Rest
    <2>2. CASE \E which \in Sockets : Close(s, which)
      <3>1. PICK which \in Sockets : Close(s, which)
        BY <2>2
      <3>2. bound' = [d \in DOMAIN bound \cap open' |-> bound[d]]
        BY <3>1 DEF Close
      <3> QED  BY <3>2 DEF Rest
    <2>3. CASE UNCHANGED bound
      BY <2>3 DEF Rest
    <2> QED
      BY <2>1, <2>2, <2>3
         DEF SessionStep, HostIdOpens, HostIdCloses, HostIdNotOpened, SocketInit,
             SocketFails, BindFails, CodersInit, CodersFail, DestroySend,
             DestroyRecv, kernel, Sockets
  <1>5. i' \in 1 .. MaxEntries + 1
    BY <1>1 DEF Rest
  <1>6. zeros' \subseteq Entries \X Sockets
    <2>1. ASSUME NEW which \in Sockets, SocketInit(s, which)
          PROVE  zeros' \subseteq Entries \X Sockets
      BY <2>1 DEF SocketInit, Rest
    <2>2. CASE UNCHANGED zeros
      BY <2>2 DEF Rest
    <2> QED
      BY <2>1, <2>2
         DEF SessionStep, HostIdOpens, HostIdCloses, HostIdNotOpened, SocketFails,
             Bind, BindFails, CodersInit, CodersFail, DestroySend, DestroyRecv, history
  <1> QED  BY <1>1, <1>2, <1>3, <1>4, <1>5, <1>6 DEF Rest

LEMMA NextRest ==
  ASSUME Inv, Rest, [Next]_vars
  PROVE  Rest'
  <1>1. CASE UNCHANGED vars
    BY <1>1 DEF vars, mainVars, kernel, history, Rest, Leaving
  <1> QED  BY <1>1, MainStepRest, SessionStepRest DEF Next, Loop, Over

\* Every variable has its type: only descriptors that are open have a port,
\* and no setup fails twice.
THEOREM MainTypeOK == Spec => []TypeOK
  <1>1. Inv /\ Rest => TypeOK
    <2> SUFFICES ASSUME Inv, Rest PROVE TypeOK
      OBVIOUS
    <2>1. failures \in 0 .. MaxEntries
      BY LeavingFinite, MainAssumption DEF Rest
    <2>2. pc \in [Entries -> Setup \cup {"none", "loop", "destroy", "destroy_recv", "ended"}]
      BY DEF Inv, SocketInv, Types, Places
    <2> QED  BY <2>1, <2>2 DEF Inv, SocketInv, Types, ThreadInv, Rest, TypeOK
  <1>2. Spec => [](Inv /\ Rest)
    BY InitRest, NextRest, MainInvariant, PTL DEF Spec
  <1> QED  BY <1>1, <1>2, PTL
==============================================================================
