--------------------------------- MODULE Main ---------------------------------
(***************************************************************************)
(* The process: main reads the configuration and starts one thread per     *)
(* session (main.cpp:20-121); a thread sets its session up - two           *)
(* UdpSockets, bind, two coders (session.cpp:16-77, 245-305) - and stays   *)
(* in ProcessLoop; when the setup fails, the destructor closes the         *)
(* sockets and the thread ends.  Of UpLoop and DownLoop only the first     *)
(* sets up an RtpSession, which asks for the host's id before that.        *)
(*                                                                         *)
(* The threads share what the kernel gives the process: descriptors, the   *)
(* lowest free one first, and ports, one socket each.                      *)
(***************************************************************************)
EXTENDS SequencesExt, Integers, FiniteSets

CONSTANTS Ports,        \* recv_port of the entries, not 0
          MaxEntries,   \* bound: entries of the configuration
          MaxFd         \* the largest descriptor the process may open

ASSUME MainAssumption == MaxEntries \in Nat /\ MaxFd \in Nat \ {0, 1}

\* An entry is sound, has an address that is too long, or a codec name that
\* is not known.
Faults == {"none", "address", "codec"}
Entry == [port : Ports, fault : Faults]
Configs == UNION {[1 .. n -> Entry] : n \in 0 .. MaxEntries}

VARIABLES
  config,      \* root["session"]
  main_pc,     \* where main is
  i,           \* the entry main looks at
  th,          \* th: the entries whose threads were started
  joined,      \* how many of them are joined
  pc,          \* [entry -> where its thread is]
  fd_,         \* [entry -> fd_ of recv_socket_ and of send_socket_, and what
               \*           gethostid has open]
  open,        \* kernel: descriptors open in the process
  bound,       \* kernel: [descriptor -> port]
  failures,    \* history: setups that failed for want of memory or descriptors
  zeros        \* history: sockets that were given descriptor 0

mainVars == <<main_pc, i, th, joined>>
kernel == <<open, bound>>
history == <<failures, zeros>>
vars == <<config, mainVars, pc, fd_, kernel, history>>

Entries == 1 .. MaxEntries
Sockets == {"recv", "send"}
Holders == Sockets \cup {"hostid"}
Descriptors == 0 .. MaxFd
Free == Descriptors \ open
Gone == main_pc \in {"returned", "terminated"}
Setup == {"rtp", "hostid", "recv", "send", "bind", "coders"}
Live(s) == pc[s] \notin {"none", "ended"}

Init ==
  /\ config \in Configs
  /\ main_pc = "config"
  /\ i = 1
  /\ th = <<>>
  /\ joined = 0
  /\ pc = [s \in Entries |-> "none"]
  /\ fd_ = [s \in Entries |-> [which \in Holders |-> -1]]
  /\ open \in {{0, 1, 2}, {1, 2}}       \* standard input may be closed
  /\ bound = <<>>
  /\ failures = 0
  /\ zeros = {}

----------------------------------------------------------------------------
(***************************************************************************)
(* main.  When it returns or throws the process is over, whatever its      *)
(* threads do: th is destroyed, and the destructor of a thread that is not *)
(* joined calls std::terminate.                                            *)
(***************************************************************************)
ReadConfig ==
  /\ main_pc = "config"
  /\ main_pc' \in {"entries", "returned"}     \* no file, or no array in it
  /\ UNCHANGED <<config, i, th, joined, pc, fd_, kernel, history>>

At(fault) == main_pc = "entries" /\ i \in DOMAIN config /\ config[i].fault = fault

\* A wrong loop: an address that is too long ends it.
BreakAtEntry ==
  /\ At("address")
  /\ main_pc' = "join"
  /\ UNCHANGED <<config, i, th, joined, pc, fd_, kernel, history>>

SkipEntry ==
  /\ At("address")
  /\ i' = i + 1
  /\ UNCHANGED <<config, main_pc, th, joined, pc, fd_, kernel, history>>

\* return -1 (line 96), whether or not threads were started
WrongCodec ==
  /\ At("codec")
  /\ main_pc' = "returned"
  /\ UNCHANGED <<config, i, th, joined, pc, fd_, kernel, history>>

\* A value has the wrong type and jsoncpp throws, or the system has no room
\* for one more thread.
Throws ==
  /\ main_pc = "entries" /\ i \in DOMAIN config
  /\ main_pc' = "terminated"
  /\ UNCHANGED <<config, i, th, joined, pc, fd_, kernel, history>>

\* UpLoop or DownLoop, as the entry says; DownloadSession has no rtp_.Init.
StartSession ==
  /\ At("none")
  /\ \E first \in {"rtp", "recv"} : pc' = [pc EXCEPT ![i] = first]
  /\ th' = Append(th, i)
  /\ i' = i + 1
  /\ UNCHANGED <<config, main_pc, joined, fd_, kernel, history>>

StartJoining ==
  /\ main_pc = "entries"
  /\ i \notin DOMAIN config
  /\ main_pc' = "join"
  /\ UNCHANGED <<config, i, th, joined, pc, fd_, kernel, history>>

\* Wrong loops over th: one round too many; no thread is waited for.
JoinTooMany ==
  /\ main_pc = "join"
  /\ joined < Len(th) => pc[th[joined + 1]] = "ended"
  /\ joined <= Len(th)
  /\ joined' = joined + 1
  /\ UNCHANGED <<config, main_pc, i, th, pc, fd_, kernel, history>>

Detach ==
  /\ main_pc = "join"
  /\ joined < Len(th)
  /\ joined' = joined + 1
  /\ UNCHANGED <<config, main_pc, i, th, pc, fd_, kernel, history>>

Join ==
  /\ main_pc = "join"
  /\ joined < Len(th)
  /\ pc[th[joined + 1]] = "ended"
  /\ joined' = joined + 1
  /\ UNCHANGED <<config, main_pc, i, th, pc, fd_, kernel, history>>

Return ==
  /\ main_pc = "join"
  /\ joined = Len(th)
  /\ main_pc' = "returned"
  /\ UNCHANGED <<config, i, th, joined, pc, fd_, kernel, history>>

----------------------------------------------------------------------------
(***************************************************************************)
(* A session's thread.  Its pc names the step of Init that comes next.     *)
(***************************************************************************)
Runs(s, at) == ~Gone /\ pc[s] = at
Goes(s, to) == pc' = [pc EXCEPT ![s] = to]

LowestFree(fd) == fd \in Free /\ \A d \in Free : fd <= d

(***************************************************************************)
(* rtp_.Init (session.cpp:20), whose SSRCGenerator calls gethostid (rtp.   *)
(* cpp:97).  The C library opens a file (/etc/hostid, /etc/hosts) or a     *)
(* socket for it and closes it again, or finds the file missing or no      *)
(* descriptor left.  One such lookup stands for all of them.               *)
(***************************************************************************)
HostIdOpens(s) ==
  /\ Runs(s, "rtp")
  /\ \E fd \in Free :
       /\ LowestFree(fd)
       /\ fd_' = [fd_ EXCEPT ![s]["hostid"] = fd]
       /\ open' = open \cup {fd}
  /\ Goes(s, "hostid")
  /\ UNCHANGED <<config, mainVars, bound, history>>

HostIdCloses(s) ==
  /\ Runs(s, "hostid")
  /\ open' = open \ {fd_[s]["hostid"]}
  /\ fd_' = [fd_ EXCEPT ![s]["hostid"] = -1]
  /\ Goes(s, "recv")
  /\ UNCHANGED <<config, mainVars, bound, history>>

HostIdNotOpened(s) ==
  /\ Runs(s, "rtp")
  /\ Goes(s, "recv")
  /\ UNCHANGED <<config, mainVars, fd_, kernel, history>>

\* UdpSocket::Init of recv_socket_, then of send_socket_
SocketInit(s, which) ==
  /\ Runs(s, which)
  /\ \E fd \in Free :
       /\ LowestFree(fd)
       /\ fd_' = [fd_ EXCEPT ![s][which] = fd]
       /\ open' = open \cup {fd}
  /\ Goes(s, IF which = "recv" THEN "send" ELSE "bind")
  /\ zeros' = IF fd_'[s][which] = 0 THEN zeros \cup {<<s, which>>} ELSE zeros
  /\ UNCHANGED <<config, mainVars, bound, failures>>

\* The process has no descriptor left.
SocketFails(s, which) ==
  /\ Runs(s, which)
  /\ Free = {}
  /\ Goes(s, "destroy")
  /\ failures' = failures + 1
  /\ UNCHANGED <<config, mainVars, fd_, kernel, zeros>>

\* bind(2): a port that a socket has is refused to any other.
PortTaken(port) == \E d \in DOMAIN bound : bound[d] = port
BindTo(fd, port) == [d \in DOMAIN bound \cup {fd} |-> IF d = fd THEN port ELSE bound[d]]

\* A wrong Init: the answer of Bind is not looked at.
BindUnchecked(s) ==
  /\ Runs(s, "bind")
  /\ bound' = IF PortTaken(config[s].port) THEN bound
              ELSE BindTo(fd_[s]["recv"], config[s].port)
  /\ Goes(s, "coders")
  /\ UNCHANGED <<config, mainVars, fd_, open, history>>

\* UdpSocket::Bind, then SetSendIp
Bind(s) ==
  /\ Runs(s, "bind")
  /\ ~PortTaken(config[s].port)
  /\ bound' = BindTo(fd_[s]["recv"], config[s].port)
  /\ Goes(s, "coders")
  /\ UNCHANGED <<config, mainVars, fd_, open, history>>

BindFails(s) ==
  /\ Runs(s, "bind")
  /\ PortTaken(config[s].port)
  /\ Goes(s, "destroy")
  /\ UNCHANGED <<config, mainVars, fd_, kernel, history>>

CodersInit(s) ==
  /\ Runs(s, "coders")
  /\ Goes(s, "loop")
  /\ UNCHANGED <<config, mainVars, fd_, kernel, history>>

CodersFail(s) ==
  /\ Runs(s, "coders")
  /\ Goes(s, "destroy")
  /\ failures' = failures + 1
  /\ UNCHANGED <<config, mainVars, fd_, kernel, zeros>>

\* ProcessLoop never returns; what it does is module ProcessLoop.
Loop(s) ==
  /\ Runs(s, "loop")
  /\ UNCHANGED vars

\* Wrong versions of Close: descriptor 0 is closed like any other;
\* fd_ is reset before it is closed.
CloseZeroToo(s, which) ==
  LET fd == fd_[s][which]
  IN  /\ open' = IF fd >= 0 THEN open \ {fd} ELSE open
      /\ bound' = [d \in DOMAIN bound \cap open' |-> bound[d]]
      /\ fd_' = [fd_ EXCEPT ![s][which] = -1]

CloseForgets(s, which) ==
  /\ fd_' = [fd_ EXCEPT ![s][which] = -1]
  /\ UNCHANGED kernel

\* UdpSocket::Close, which takes descriptor 0 for none
Close(s, which) ==
  LET fd == fd_[s][which]
  IN  /\ open' = IF fd > 0 THEN open \ {fd} ELSE open
      /\ bound' = [d \in DOMAIN bound \cap open' |-> bound[d]]
      /\ fd_' = [fd_ EXCEPT ![s][which] = -1]

\* The destructors of the members run in reverse order of declaration.
DestroySend(s) ==
  /\ Runs(s, "destroy")
  /\ Close(s, "send")
  /\ Goes(s, "destroy_recv")
  /\ UNCHANGED <<config, mainVars, history>>

DestroyRecv(s) ==
  /\ Runs(s, "destroy_recv")
  /\ Close(s, "recv")
  /\ Goes(s, "ended")
  /\ UNCHANGED <<config, mainVars, history>>

\* The process is over, and its threads with it.
Over == Gone /\ UNCHANGED vars

MainStep ==
  \/ ReadConfig
  \/ SkipEntry \/ WrongCodec \/ Throws \/ StartSession
  \/ StartJoining \/ Join \/ Return

SessionStep(s) ==
  \/ HostIdOpens(s) \/ HostIdCloses(s) \/ HostIdNotOpened(s)
  \/ \E which \in Sockets : SocketInit(s, which) \/ SocketFails(s, which)
  \/ Bind(s) \/ BindFails(s)
  \/ CodersInit(s) \/ CodersFail(s)
  \/ DestroySend(s) \/ DestroyRecv(s)

Next ==
  \/ MainStep
  \/ \E s \in Entries : SessionStep(s) \/ Loop(s)
  \/ Over

Spec == Init /\ [][Next]_vars

(***************************************************************************)
(* Fairness: every thread is scheduled, and no call of the setup blocks.   *)
(***************************************************************************)
FairSpec ==
  /\ Spec
  /\ WF_vars(MainStep)
  /\ \A s \in Entries : WF_vars(SessionStep(s))

----------------------------------------------------------------------------
\* Every variable has its type.
TypeOK ==
  /\ config \in Configs
  /\ main_pc \in {"config", "entries", "join", "returned", "terminated"}
  /\ i \in 1 .. MaxEntries + 1
  /\ th \in Seq(Entries) /\ joined \in 0 .. Len(th)
  /\ pc \in [Entries -> Setup \cup {"none", "loop", "destroy", "destroy_recv", "ended"}]
  /\ fd_ \in [Entries -> [Holders -> Descriptors \cup {-1}]]
  /\ open \subseteq Descriptors
  /\ DOMAIN bound \subseteq open /\ bound \in [DOMAIN bound -> Ports]
  /\ failures \in 0 .. MaxEntries
  /\ zeros \subseteq Entries \X Sockets

\* Init takes descriptor 0 for a success (udp.cpp:9), but Send refuses it
\* (udp.cpp:45) and Close never gives it back (udp.cpp:26): whatever fails and
\* is set up in a process, in whatever order, only one socket ever is given 0.
ZeroGivenOnce == Cardinality(zeros) <= 1

\* "每路对话使用不同的端口" (README.md: every conversation uses a port of its
\* own): sessions in their loops receive on different ports, each on the
\* port of its entry, however the setups of the threads interleave.
OnePortEach ==
  \A s \in Entries : pc[s] = "loop" =>
    /\ fd_[s]["recv"] \in DOMAIN bound /\ bound[fd_[s]["recv"]] = config[s].port
    /\ \A t \in Entries \ {s} : pc[t] = "loop" => config[t].port # config[s].port

\* No descriptor leaks or is shared: each one a session opened, except 0, is
\* held by exactly one socket or lookup, and none of a thread that ended.
DescriptorsOwned ==
  \A d \in open \ {0, 1, 2} :
    \E s \in Entries, which \in Holders :
      /\ Live(s) /\ fd_[s][which] = d
      /\ \A t \in Entries, other \in Holders :
           fd_[t][other] = d => t = s /\ other = which

\* main returns over the head of a running thread in one case only, an entry
\* with an unknown codec after it (main.cpp:96): else, when it returns, every
\* session ended and gave its sockets back.
CutsOffAtBadCodec ==
  main_pc = "returned" =>
    \/ i \in DOMAIN config /\ config[i].fault = "codec"
    \/ \A s \in Entries : ~Live(s) /\ \A which \in Holders : fd_[s][which] = -1

\* Every port that a sound entry names is served in the end and for good,
\* whoever wins the race for it, unless the process ended or a setup failed
\* for want of memory or descriptors.
PortServed ==
  \A s \in Entries :
    <>[](\/ Gone \/ failures > 0
         \/ s \notin DOMAIN config \/ config[s].fault # "none"
         \/ \E t \in DOMAIN config : pc[t] = "loop" /\ config[t].port = config[s].port)
===============================================================================
