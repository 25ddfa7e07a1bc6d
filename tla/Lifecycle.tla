----------------------------- MODULE Lifecycle ------------------------------
(***************************************************************************)
(* BtIOService, BtAcceptor and BtEndpoint: how channels get their sockets, *)
(* and how everything is shut down.                                        *)
(*                                                                         *)
(* A client endpoint connects and sends its name and those of the channel. *)
(* The acceptor of the port reads them in handlers that the io threads of  *)
(* the host run, and puts the socket into the promise filed under these    *)
(* names, for which the addChannel of the host waits.  Endpoint::stop      *)
(* waits for the channels to be closed, and BtIOService::stop for the      *)
(* acceptors, the endpoints and the io threads.                            *)
(*                                                                         *)
(* What goes over an open channel is the subject of BtSocketIO: here only  *)
(* the message with the names and the two operations of close are seen.    *)
(***************************************************************************)
EXTENDS Naturals, Sequences, FiniteSets

CONSTANTS
  Services,   (* instances of BtIOService                                  *)
  Ports,
  Endpoint,   (* the endpoints: service, port, host (a Boolean) and name   *)
  Channel,    (* the channels that threads add: endpoint, local, remote,   *)
              (* thread, and place in the order the thread adds them       *)
  None,
  Stops,      (* when programs call stop: "joined", endpoints when all the *)
              (* channels of the service have been closed; "open",         *)
              (* endpoints while channels are open; in both cases the      *)
              (* service after the endpoints; "early", not even that       *)
  Growth,     (* sizes at which mSocketPromises gets more buckets          *)
  Faults      (* what befalls a client's first message: "short", "reset"   *)

Endpoints == DOMAIN Endpoint
Channels  == DOMAIN Channel
Svc    == [e \in Endpoints |-> Endpoint[e].service]
Port   == [c \in Channels |-> Endpoint[Channel[c].endpoint].port]
Io     == [c \in Channels |-> Svc[Channel[c].endpoint]]
IsHost == [c \in Channels |-> Endpoint[Channel[c].endpoint].host]
Hosts   == {c \in Channels : IsHost[c]}
Clients == Channels \ Hosts
ThreadOf   == [c \in Channels |-> {d \in Channels : Channel[d].thread = Channel[c].thread}]
ChannelsOf == [e \in Endpoints |-> {c \in Channels : Channel[c].endpoint = e}]
PortsOf    == [s \in Services |-> {p \in Ports : \E e \in Endpoints :
                 Endpoint[e].host /\ Endpoint[e].port = p /\ Svc[e] = s}]

(* The names of a channel in the order in which the client sends them.     *)
Names == [c \in Channels |->
  <<Endpoint[Channel[c].endpoint].name, Channel[c].local, Channel[c].remote>>]

(* The tag under which the acceptor files a socket.                        *)
FiledUnder(names) == <<names[1], names[3], names[2]>>

(* Bug: the name of the endpoint is left out.                              *)
Nameless == [c \in Channels |-> IF IsHost[c] THEN <<"", Channel[c].local, Channel[c].remote>>
                                             ELSE <<"", Channel[c].remote, Channel[c].local>>]

(* The tag a channel of a host asks for, or a client is filed under.       *)
Tag == [c \in Channels |-> IF IsHost[c] THEN Names[c] ELSE FiledUnder(Names[c])]

(* What a message whose end is missing is filed under.                     *)
CutTag == [c \in Clients |-> <<Names[c][1], "cut", Names[c][2]>>]
Tags      == {Tag[c] : c \in Channels} \cup {CutTag[c] : c \in Clients}

ASSUME EndpointsAssumption ==
  /\ \A e \in Endpoints : Endpoint[e] \in
       [service : Services, port : Ports, host : BOOLEAN, name : STRING]
  /\ \A c \in Channels : /\ Channel[c] = [endpoint |-> Channel[c].endpoint,
                                          local    |-> Channel[c].local,
                                          remote   |-> Channel[c].remote,
                                          thread   |-> Channel[c].thread,
                                          place    |-> Channel[c].place]
                         /\ Channel[c].endpoint \in Endpoints
                         /\ Channel[c].place \in Nat
  /\ {None, "no", "pending"} \cap Channels = {}

(* One service listens on a port.                                          *)
ASSUME PortsAssumption == \A d, e \in Endpoints :
  Endpoint[d].host /\ Endpoint[e].host /\ Endpoint[d].port = Endpoint[e].port
    => Svc[d] = Svc[e]

(* Programs give each channel of a host its own names, and each end has    *)
(* exactly one counterpart.                                                *)
Mirror(h, c) == /\ Port[h] = Port[c] /\ Names[h][1] = Names[c][1]
                /\ Channel[h].local = Channel[c].remote
                /\ Channel[h].remote = Channel[c].local

Mirrored == {pair \in Hosts \X Clients : Mirror(pair[1], pair[2])}

ASSUME MatchingAssumption ==
  /\ \A h \in Hosts : \E c \in Clients : Mirror(h, c)
  /\ \A c \in Clients : \E h \in Hosts : Mirror(h, c)
  /\ \A c, d \in Channels : IsHost[c] = IsHost[d] /\ Port[c] = Port[d]
                              /\ Names[c] = Names[d] => c = d

(* removeChannel finds a channel by its local name alone.                  *)
ASSUME LocalNamesAssumption == \A c, d \in Channels :
  Channel[c].endpoint = Channel[d].endpoint /\ Channel[c].local = Channel[d].local => c = d

(* What is left of a name is not another channel's name.                   *)
ASSUME CutAssumption ==
  "short" \in Faults => \A c \in Clients, d \in Channels : CutTag[c] # Tag[d]

ASSUME BoundsAssumption ==
  Stops \in {"joined", "open", "early"} /\ Growth \subseteq Nat /\ Faults \subseteq {"short", "reset"}

VARIABLES
  svc,        (* svc[s]: how far BtIOService::stop is                      *)
  running,    (* running[s]: io_service::run has not returned              *)
  ep,         (* ep[e]: how far start and stop of the endpoint are         *)
  done,       (* done[e]: mDoneProm is kept                                *)
  listening,  (* listening[p]: the handle of the acceptor of port p        *)
  halted,     (* halted[p]: mStopped of the acceptor                       *)
  accepting,  (* accepting[p]: whether an accept is pending, or the client *)
              (* whose connection it got                                   *)
  ended,      (* ended[p]: mStoppedPromise is kept                         *)
  backlog,    (* backlog[p]: connections the kernel holds for the acceptor *)
  shake,      (* shake[c]: how far the host has read the names of client c *)
  named,      (* named[c]: client c has sent its names                     *)
  proms,      (* mSocketPromises[p][tag]: entries, the first found is last *)
  stale,      (* those in a lookup while mSocketPromises was growing       *)
  user,       (* user[c]: where the thread that uses channel c is          *)
  slot,       (* slot[c]: the entry whose future host channel c waits for  *)
  socket,     (* socket[c]: the client at the other end of host channel c  *)
  mChannels,  (* channels in the lists of the endpoints                    *)
  before,     (* before[c]: those with the name of c when c was appended   *)
  dead        (* a process has been terminated, or does what is undefined  *)

ioVars     == <<svc, listening, halted, accepting, ended>>
handVars   == <<backlog, shake, proms, stale>>
chanVars   == <<named, user, slot, socket, mChannels, before>>
epVars     == <<ep, done>>
vars       == <<ioVars, running, epVars, handVars, chanVars, dead>>

Acceptors(s) == {p \in PortsOf[s] : listening[p] # "none"}
Serves(p)    == \E s \in Services : p \in PortsOf[s] /\ running[s]
Last(s)      == s[Len(s)]

(* Bug: a new promise holds a socket that is no one's.                     *)
Preset == [socket |-> "unset", taken |-> FALSE]

Fresh  == [socket |-> None, taken |-> FALSE]

(* addChannel has returned.                                                *)
Added(c) == user[c] \in {"open", "closing", "drained", "leaving", "closed"}

(* Some thread holds mAddChannelMtx of endpoint e.                         *)
Locked(e) == \E c \in ChannelsOf[e] : user[c] = "leaving"

Init ==
  /\ svc = [s \in Services |-> "up"] /\ running = [s \in Services |-> TRUE]
  /\ ep = [e \in Endpoints |-> "new"] /\ done = [e \in Endpoints |-> FALSE]
  /\ listening = [p \in Ports |-> "none"] /\ halted = [p \in Ports |-> FALSE]
  /\ accepting = [p \in Ports |-> "no"] /\ ended = [p \in Ports |-> FALSE]
  /\ backlog = [p \in Ports |-> << >>]
  /\ shake = [c \in Clients |-> "none"] /\ named = [c \in Clients |-> FALSE]
  /\ proms = [p \in Ports |-> [t \in Tags |-> << >>]] /\ stale = {}
  /\ user = [c \in Channels |-> "new"]
  /\ slot = [h \in Hosts |-> 0] /\ socket = [h \in Hosts |-> None]
  /\ mChannels = {} /\ before = [c \in Channels |-> {}]
  /\ dead = FALSE

(***************************************************************************)
(* BtEndpoint::start and BtIOService::getAcceptor.                         *)
(***************************************************************************)
(* The acceptor of a port is created, bound and started only once.         *)
GetAcceptor(p) ==
  IF listening[p] = "none"
    THEN /\ listening' = [listening EXCEPT ![p] = "open"]
         /\ accepting' = [accepting EXCEPT ![p] = "pending"]
    ELSE UNCHANGED <<listening, accepting>>

StartEndpoint(e) ==
  /\ ep[e] = "new" /\ svc[Svc[e]] = "up"
  /\ ep' = [ep EXCEPT ![e] = "started"]
  /\ IF Endpoint[e].host THEN GetAcceptor(Endpoint[e].port)
                         ELSE UNCHANGED <<listening, accepting>>
  /\ UNCHANGED <<svc, halted, ended, done, handVars, chanVars, dead>>

(***************************************************************************)
(* BtEndpoint::addChannel.                                                 *)
(***************************************************************************)
(* The channel is appended to mChannels.  The thread has added its earlier *)
(* channels.                                                               *)
AppendChannel(c) ==
  LET e == Channel[c].endpoint IN
  /\ user[c] = "new" /\ ep[e] = "started" /\ ~Locked(e)
  /\ \A d \in ThreadOf[c] : Channel[d].place < Channel[c].place => Added(d)
  /\ mChannels' = mChannels \cup {c}
  /\ before' = [before EXCEPT ![c] = {d \in mChannels \cap ChannelsOf[e] :
                                        Channel[d].local = Channel[c].local}]

(* A client connects, as often as it is refused, and posts its names.      *)
Connect(c) ==
  /\ ~IsHost[c] /\ listening[Port[c]] = "open" /\ AppendChannel(c)
  /\ backlog' = [backlog EXCEPT ![Port[c]] = Append(@, c)]
  /\ user' = [user EXCEPT ![c] = "open"]
  /\ UNCHANGED <<ioVars, epVars, shake, proms, stale, named, slot, socket, dead>>

(* Threads of port p that may be in a lookup, without the lock.            *)
Looking(p) == {h \in Hosts : Port[h] = p /\ user[h] = "asked"}
                \cup {c \in Clients : Port[c] = p /\ shake[c] = "found"}
Size(p)    == Cardinality({entry \in Tags \X (1..Cardinality(Channels)) :
                             entry[2] <= Len(proms[p][entry[1]])})

(* Under the lock: x makes the entry of tag t, unless there is one.  More  *)
(* buckets move entries under the eyes of those in a lookup.               *)
FindOrEmplace(x, p, t) ==
  IF proms[p][t] # << >> THEN UNCHANGED <<proms, stale>>
  ELSE /\ proms' = [proms EXCEPT ![p][t] = <<Fresh>>]
       /\ stale' = IF Size(p) + 1 \in Growth THEN stale \cup (Looking(p) \ {x}) ELSE stale

(* Outside it: operator[].  A lookup that missed the entry adds another.   *)
Found(x, p, t) == {proms[p][t]} \cup (IF x \in stale THEN {Append(proms[p][t], Fresh)} ELSE {})

Ask(h) ==
  /\ IsHost[h] /\ AppendChannel(h)
  /\ FindOrEmplace(h, Port[h], Tag[h])
  /\ user' = [user EXCEPT ![h] = "asked"]
  /\ UNCHANGED <<ioVars, epVars, backlog, shake, named, slot, socket, dead>>

(* get_future throws when the future was taken before.                     *)
TakeFuture(h) ==
  /\ IsHost[h] /\ user[h] = "asked"
  /\ \E s \in Found(h, Port[h], Tag[h]) :
       IF Last(s).taken
         THEN dead' = TRUE /\ UNCHANGED <<proms, slot, user>>
         ELSE /\ proms' = [proms EXCEPT ![Port[h]][Tag[h]] = [s EXCEPT ![Len(s)].taken = TRUE]]
              /\ slot' = [slot EXCEPT ![h] = Len(s)]
              /\ user' = [user EXCEPT ![h] = "waiting"]
              /\ UNCHANGED dead
  /\ stale' = stale \ {h}
  /\ UNCHANGED <<ioVars, epVars, backlog, shake, named, socket, mChannels, before>>

GetSocket(h) ==
  /\ IsHost[h] /\ user[h] = "waiting" /\ proms[Port[h]][Tag[h]][slot[h]].socket # None
  /\ socket' = [socket EXCEPT ![h] = proms[Port[h]][Tag[h]][slot[h]].socket]
  /\ user' = [user EXCEPT ![h] = "open"]
  /\ UNCHANGED <<ioVars, epVars, handVars, named, slot, mChannels, before, dead>>

(* An io thread of the client writes the names.                            *)
SendNames(c) ==
  /\ ~IsHost[c] /\ user[c] \in {"open", "closing"} /\ ~named[c] /\ running[Io[c]]
  /\ named' = [named EXCEPT ![c] = TRUE]
  /\ UNCHANGED <<ioVars, epVars, handVars, user, slot, socket, mChannels, before, dead>>

(***************************************************************************)
(* The handlers of BtAcceptor, in the io threads of the host.              *)
(***************************************************************************)
(* A pending accept gets a connection.                                     *)
Accept(p) ==
  /\ listening[p] = "open" /\ accepting[p] = "pending" /\ backlog[p] # << >>
  /\ accepting' = [accepting EXCEPT ![p] = Head(backlog[p])]
  /\ backlog' = [backlog EXCEPT ![p] = Tail(@)]
  /\ UNCHANGED <<svc, listening, halted, ended, epVars, shake, proms, stale, chanVars, dead>>

(* A handler that uses a destroyed acceptor.                               *)
Gone(p) == listening[p] = "gone"

(* Bug: accepts again whether or not the acceptor was stopped.             *)
RestartAlways(p) ==
  accepting' = [accepting EXCEPT ![p] = "pending"] /\ UNCHANGED <<ended, dead>>

(* start(): accepts again, or reports that the acceptor has stopped.       *)
Restart(p) ==
  /\ accepting' = [accepting EXCEPT ![p] = IF halted[p] THEN "no" ELSE "pending"]
  /\ ended' = [ended EXCEPT ![p] = @ \/ halted[p]]
  /\ dead' = (Gone(p) \/ (halted[p] /\ ended[p]))

(* The handler of an accept: start() first, then the names are awaited.    *)
Accepted(p) ==
  /\ accepting[p] \in Clients /\ Serves(p)
  /\ Restart(p)
  /\ shake' = [shake EXCEPT ![accepting[p]] = "header"]
  /\ UNCHANGED <<svc, listening, halted, epVars, backlog, proms, stale, chanVars>>

(* The accept of a closed handle fails.                                    *)
AcceptFails(p) ==
  /\ accepting[p] = "pending" /\ listening[p] # "open" /\ Serves(p)
  /\ Restart(p)
  /\ UNCHANGED <<svc, listening, halted, epVars, handVars, chanVars>>

ReadHeader(c) ==
  /\ shake[c] = "header" /\ named[c] /\ Serves(Port[c])
  /\ \/ shake' = [shake EXCEPT ![c] = "body"] /\ UNCHANGED dead
     \/ "short" \in Faults /\ dead' = TRUE /\ UNCHANGED shake
  /\ UNCHANGED <<ioVars, epVars, backlog, proms, stale, chanVars>>

(* The body has come, the entry of its tag is found or made.               *)
ReadBody(c) ==
  /\ shake[c] = "body" /\ Serves(Port[c])
  /\ shake' = [shake EXCEPT ![c] = "found"]
  /\ FindOrEmplace(c, Port[c], Tag[c])
  /\ dead' = Gone(Port[c])
  /\ UNCHANGED <<ioVars, epVars, backlog, chanVars>>

(* prom.set_value throws when the promise was kept before.                 *)
HandOver(c) ==
  /\ shake[c] = "found" /\ Serves(Port[c])
  /\ shake' = [shake EXCEPT ![c] = "over"]
  /\ \E s \in Found(c, Port[c], Tag[c]) :
       IF Gone(Port[c]) \/ Last(s).socket # None
         THEN dead' = TRUE /\ UNCHANGED proms
         ELSE /\ proms' = [proms EXCEPT ![Port[c]][Tag[c]] = [s EXCEPT ![Len(s)].socket = c]]
              /\ UNCHANGED dead
  /\ stale' = stale \ {c}
  /\ UNCHANGED <<ioVars, epVars, backlog, chanVars>>

(* async_receive may return less than was asked for: the end of the last   *)
(* name is missing, or a whole name, which names[2] does not expect.       *)
ShortBody(c) ==
  /\ "short" \in Faults /\ shake[c] = "body" /\ Serves(Port[c])
  /\ shake' = [shake EXCEPT ![c] = "over"]
  /\ \/ /\ proms' = [proms EXCEPT ![Port[c]][CutTag[c]] =
                                 Append(@, [Fresh EXCEPT !.socket = c])]
        /\ UNCHANGED dead
     \/ dead' = TRUE /\ UNCHANGED proms
  /\ UNCHANGED <<ioVars, epVars, backlog, stale, chanVars>>

(* The connection fails while the header is awaited.  The handler goes on, *)
(* as ec2 is set but bytesTransferred is not 4, with an unread buffer, and *)
(* names has no names.                                                     *)
Reset(c) ==
  /\ "reset" \in Faults /\ shake[c] = "header" /\ ~named[c] /\ Serves(Port[c])
  /\ dead' = TRUE
  /\ UNCHANGED <<ioVars, epVars, handVars, chanVars>>

(***************************************************************************)
(* BtChannel::close and BtEndpoint::removeChannel.                         *)
(***************************************************************************)
(* CloseRecv and CloseSend are posted.                                     *)
Close(c) ==
  /\ user[c] = "open"
  /\ \A d \in ThreadOf[c] : Added(d) /\ user[d] \notin {"closing", "drained", "leaving"}
  /\ user' = [user EXCEPT ![c] = "closing"]
  /\ UNCHANGED <<ioVars, epVars, handVars, named, slot, socket, mChannels, before, dead>>

(* They run in the strands, behind the names of a client.                  *)
Drain(c) ==
  /\ user[c] = "closing" /\ running[Io[c]] /\ (c \in Clients => named[c])
  /\ user' = [user EXCEPT ![c] = "drained"]
  /\ UNCHANGED <<ioVars, epVars, handVars, named, slot, socket, mChannels, before, dead>>

(* Bug: the names are not compared.                                        *)
ErasedAll(c) == mChannels \cap ChannelsOf[Channel[c].endpoint]

(* The channel erased: the first with the local name of c.                 *)
Erased(c) == {d \in mChannels : /\ Channel[d].endpoint = Channel[c].endpoint
                                /\ Channel[d].local = Channel[c].local
                                /\ before[d] \cap mChannels = {}}

Stopping(e) == ep[e] \in {"stopping", "stopped"}

(* Bug: mStopped is not asked.                                             *)
EmptiesList(c) == ChannelsOf[Channel[c].endpoint] \cap (mChannels \ Erased(c)) = {}

(* Whether c is the last channel of an endpoint that has been stopped.     *)
IsLast(c) == /\ Stopping(Channel[c].endpoint)
             /\ ChannelsOf[Channel[c].endpoint] \cap (mChannels \ Erased(c)) = {}

(* removeChannel, up to the release of the mutex.                          *)
Remove(c) ==
  LET e == Channel[c].endpoint IN
  /\ user[c] = "drained" /\ ~Locked(e)
  /\ mChannels' = mChannels \ Erased(c)
  /\ done' = [done EXCEPT ![e] = @ \/ IsLast(c)]
  /\ dead' = (IsLast(c) /\ done[e])
  /\ user' = [user EXCEPT ![c] = "leaving"]
  /\ UNCHANGED <<ioVars, ep, handVars, named, slot, socket, before>>

Unlock(c) ==
  /\ user[c] = "leaving"
  /\ user' = [user EXCEPT ![c] = "closed"]
  /\ UNCHANGED <<ioVars, epVars, handVars, named, slot, socket, mChannels, before, dead>>

(***************************************************************************)
(* BtEndpoint::stop and BtIOService::stop.                                 *)
(***************************************************************************)
(* Bug: the promise is kept although channels are left.                    *)
StopAtOnce(e) ==
  /\ ep[e] = "started" /\ ~Locked(e) /\ \A c \in ChannelsOf[e] : Added(c)
  /\ Stops = "joined" => \A c \in Channels : Io[c] = Svc[e] => user[c] = "closed"
  /\ ep' = [ep EXCEPT ![e] = "stopping"]
  /\ done' = [done EXCEPT ![e] = TRUE]
  /\ UNCHANGED <<ioVars, handVars, chanVars, dead>>

(* Stop is called once all channels have been added, or also closed.       *)
StopEndpoint(e) ==
  /\ ep[e] = "started" /\ ~Locked(e) /\ \A c \in ChannelsOf[e] : Added(c)
  /\ Stops = "joined" => \A c \in Channels : Io[c] = Svc[e] => user[c] = "closed"
  /\ ep' = [ep EXCEPT ![e] = "stopping"]
  /\ done' = [done EXCEPT ![e] = @ \/ ChannelsOf[e] \cap mChannels = {}]
  /\ dead' = (done[e] /\ ChannelsOf[e] \cap mChannels = {})
  /\ UNCHANGED <<ioVars, handVars, chanVars>>

(* Bug: stop does not wait.                                                *)
ReturnsAtOnce(e) ==
  /\ ep[e] = "stopping"
  /\ ep' = [ep EXCEPT ![e] = "stopped"]
  /\ UNCHANGED <<ioVars, done, handVars, chanVars, dead>>

StopReturns(e) ==
  /\ ep[e] = "stopping" /\ done[e]
  /\ ep' = [ep EXCEPT ![e] = "stopped"]
  /\ UNCHANGED <<ioVars, done, handVars, chanVars, dead>>

(* The worker is reset.  Programs stop their endpoints first, or leave it  *)
(* to this call to wait for them.                                          *)
StopService(s) ==
  /\ svc[s] = "up"
  /\ \A e \in Endpoints : Svc[e] = s =>
       \/ ep[e] = "stopped"
       \/ (Stops = "early" /\ ep[e] # "new" /\ \A c \in ChannelsOf[e] : Added(c))
  /\ svc' = [svc EXCEPT ![s] = "closing"]
  /\ UNCHANGED <<listening, halted, accepting, ended, epVars, handVars, chanVars, dead>>

(* BtAcceptor::stop: first the flag, then the handle.                      *)
Halt(p) ==
  /\ ~halted[p] /\ \E s \in Services : svc[s] = "closing" /\ p \in Acceptors(s)
  /\ halted' = [halted EXCEPT ![p] = TRUE]
  /\ UNCHANGED <<svc, listening, accepting, ended, epVars, handVars, chanVars, dead>>

CloseHandle(p) ==
  /\ halted[p] /\ listening[p] = "open"
  /\ listening' = [listening EXCEPT ![p] = "closed"]
  /\ UNCHANGED <<svc, halted, accepting, ended, epVars, handVars, chanVars, dead>>

(* Bug: ~BtAcceptor does not wait for the last handler.                    *)
DestroyAtOnce(s) ==
  /\ svc[s] = "closing" /\ \A p \in Acceptors(s) : listening[p] = "closed"
  /\ listening' = [p \in Ports |-> IF p \in Acceptors(s) THEN "gone" ELSE listening[p]]
  /\ svc' = [svc EXCEPT ![s] = "waiting"]
  /\ UNCHANGED <<halted, accepting, ended, epVars, handVars, chanVars, dead>>

(* ~BtAcceptor, when all acceptors have been stopped.                      *)
Destroy(s) ==
  /\ svc[s] = "closing" /\ \A p \in Acceptors(s) : listening[p] = "closed" /\ ended[p]
  /\ listening' = [p \in Ports |-> IF p \in Acceptors(s) THEN "gone" ELSE listening[p]]
  /\ svc' = [svc EXCEPT ![s] = "waiting"]
  /\ UNCHANGED <<halted, accepting, ended, epVars, handVars, chanVars, dead>>

(* The futures of the endpoints.                                           *)
Await(s) ==
  /\ svc[s] = "waiting" /\ \A e \in Endpoints : Svc[e] = s => done[e]
  /\ svc' = [svc EXCEPT ![s] = "joining"]
  /\ UNCHANGED <<listening, halted, accepting, ended, epVars, handVars, chanVars, dead>>

JoinThreads(s) ==
  /\ svc[s] = "joining" /\ ~running[s]
  /\ svc' = [svc EXCEPT ![s] = "down"]
  /\ UNCHANGED <<listening, halted, accepting, ended, epVars, handVars, chanVars, dead>>

(***************************************************************************)
(* The io threads return for good as soon as nothing is left to do: the    *)
(* worker is gone, and no accept, receive, names or close is pending.      *)
(***************************************************************************)
Work(s) ==
  \/ svc[s] = "up"
  \/ \E p \in Acceptors(s) : accepting[p] # "no"
  \/ \E c \in Clients : Port[c] \in Acceptors(s) /\ shake[c] \in {"header", "body", "found"}
  \/ \E c \in Channels : Io[c] = s /\ user[c] = "closing"
  \/ \E c \in Clients : Io[c] = s /\ user[c] = "open" /\ ~named[c]

IoThreads == running' = [s \in Services |-> running[s] /\ Work(s)']

ThreadStep(c) == \/ Connect(c) \/ Ask(c) \/ TakeFuture(c) \/ GetSocket(c)
                 \/ Close(c) \/ Remove(c) \/ Unlock(c)

Shutdown == \/ \E e \in Endpoints : StopEndpoint(e) \/ StopReturns(e)
            \/ \E s \in Services : StopService(s) \/ Destroy(s) \/ Await(s) \/ JoinThreads(s)
            \/ \E p \in Ports : Halt(p) \/ CloseHandle(p)

Handler(c) == \/ SendNames(c) \/ ReadHeader(c) \/ ReadBody(c) \/ HandOver(c)
              \/ ShortBody(c) \/ Reset(c)

Step == \/ \E e \in Endpoints : StartEndpoint(e)
        \/ \E c \in Channels : ThreadStep(c) \/ Drain(c)
        \/ \E c \in Clients : Handler(c)
        \/ \E p \in Ports : Accept(p) \/ Accepted(p) \/ AcceptFails(p)
        \/ Shutdown

(* All programs have ended.                                                *)
Terminating == (\A s \in Services : svc[s] = "down") /\ UNCHANGED vars

Next == \/ ~dead /\ Step /\ IoThreads
        \/ Terminating

Spec == Init /\ [][Next]_vars

(* Threads of programs and io threads go on while they can, and a program  *)
(* closes its channels and stops what it started.  As each step is taken   *)
(* at most a bounded number of times, it is enough that some step is taken *)
(* as long as one can be.                                                  *)
FairSpec == Spec /\ WF_vars(Next)

(***************************************************************************)
(* Properties.                                                             *)
(***************************************************************************)
TypeOK ==
  /\ svc \in [Services -> {"up", "closing", "waiting", "joining", "down"}]
  /\ running \in [Services -> BOOLEAN]
  /\ ep \in [Endpoints -> {"new", "started", "stopping", "stopped"}]
  /\ done \in [Endpoints -> BOOLEAN]
  /\ listening \in [Ports -> {"none", "open", "closed", "gone"}]
  /\ halted \in [Ports -> BOOLEAN] /\ ended \in [Ports -> BOOLEAN]
  /\ accepting \in [Ports -> {"no", "pending"} \cup Clients]
  /\ backlog \in [Ports -> Seq(Clients)]
  /\ shake \in [Clients -> {"none", "header", "body", "found", "over"}]
  /\ named \in [Clients -> BOOLEAN]
  /\ proms \in [Ports -> [Tags -> Seq([socket : Clients \cup {None}, taken : BOOLEAN])]]
  /\ stale \subseteq Channels /\ mChannels \subseteq Channels
  /\ user \in [Channels -> {"new", "asked", "waiting", "open", "closing", "drained",
                            "leaving", "closed"}]
  /\ slot \in [Hosts -> Nat] /\ socket \in [Hosts -> Clients \cup {None}]
  /\ before \in [Channels -> SUBSET Channels]
  /\ dead \in BOOLEAN

(* No handler and no call ever keeps a promise twice, takes a future       *)
(* twice or uses an acceptor that BtIOService::stop has deleted.           *)
NeverTerminated == ~dead

(* A channel is in the list of its endpoint, which owns it, as long as     *)
(* its thread uses it: close "de allocates ourselves" and no one else.     *)
InUseKept == \A c \in Channels :
  user[c] \notin {"new", "leaving", "closed"} => c \in mChannels

(* While a channel is open or being closed, there are io threads to serve  *)
(* it.                                                                     *)
ServedWhileOpen == \A c \in Channels : user[c] \in {"open", "closing"} => running[Io[c]]

(* The promise for which Endpoint::stop waits is kept only when all        *)
(* channels of the endpoint have been closed up to the unlock.             *)
DoneMeansEmpty == \A e \in Endpoints : done[e] =>
  /\ Stopping(e)
  /\ \A c \in ChannelsOf[e] : user[c] \in {"leaving", "closed"}

(* When an acceptor is deleted, no handler that captured it is left, and   *)
(* no connection is lost in its backlog.                                   *)
NoOrphans == \A p \in Ports : Gone(p) =>
  /\ backlog[p] = << >> /\ accepting[p] = "no"
  /\ \A c \in Clients : Port[c] = p => shake[c] = "over"

(* Mirrored channels, and only they, get the ends of one connection.       *)
Connected == INSTANCE Rendezvous WITH
  Mirrors <- Mirrored,
  ready   <- {c \in Clients : user[c] # "new"},
  joined  <- {<<h, socket[h]>> : h \in {g \in Hosts : socket[g] # None}},
  left    <- {c \in Channels : user[c] \in {"leaving", "closed"}}
ImplementsRendezvous == Connected!PairSpec

(* "wait for all the endpoints that use this IO service to finish": all    *)
(* calls of stop return.                                                   *)
AllDown == <>(\A s \in Services : svc[s] = "down")

(***************************************************************************)
(* The inductive invariant behind the safety properties.                   *)
(***************************************************************************)

(* A connection is at one place: in the backlog, accepted, or with the     *)
(* handlers that read its names.                                           *)
ConnectionInv ==
  /\ \A p \in Ports : \A i \in 1..Len(backlog[p]) :
       /\ Port[backlog[p][i]] = p /\ accepting[p] # backlog[p][i]
       /\ shake[backlog[p][i]] = "none" /\ user[backlog[p][i]] # "new"
       /\ \A j \in 1..Len(backlog[p]) : backlog[p][i] = backlog[p][j] => i = j
  /\ \A p \in Ports : accepting[p] \in Clients =>
       /\ Port[accepting[p]] = p
       /\ shake[accepting[p]] = "none" /\ user[accepting[p]] # "new"
  /\ \A c \in Clients : user[c] = "new" => shake[c] = "none"

(* A socket is filed once it is handed over, under its own names or what   *)
(* is left of them.                                                        *)
Filed(p, t, x) == x.socket # None =>
  /\ Port[x.socket] = p /\ shake[x.socket] = "over"
  /\ t = Tag[x.socket] \/ ("short" \in Faults /\ t = CutTag[x.socket])
FiledInv == \A p \in Ports, t \in Tags :
  \A i \in 1..Len(proms[p][t]) : Filed(p, t, proms[p][t][i])

(* Who looks for an entry finds one, and an added channel has the socket   *)
(* that was filed under its names.                                         *)
HasSocket(h) == /\ socket[h] \in Clients /\ shake[socket[h]] = "over"
                /\ Port[socket[h]] = Port[h] /\ Tag[socket[h]] = Tag[h]
SlotInv ==
  /\ \A h \in Hosts :
       /\ user[h] = "asked" => proms[Port[h]][Tag[h]] # << >>
       /\ user[h] = "waiting" => slot[h] \in 1..Len(proms[Port[h]][Tag[h]])
       /\ IF Added(h) THEN HasSocket(h) ELSE socket[h] = None
  /\ \A c \in Clients : shake[c] = "found" => proms[Port[c]][Tag[c]] # << >>

(* The lists hold the channels in use, each found by its name.             *)
ListInv ==
  /\ mChannels = {c \in Channels : user[c] \notin {"new", "leaving", "closed"}}
  /\ \A c \in Channels : before[c] = {}

(* The stages of the shutdown: channels, endpoints, services, io threads.  *)
StopInv ==
  /\ \A e \in Endpoints : Stopping(e) => \A c \in ChannelsOf[e] : Added(c)
  /\ \A e \in Endpoints : ep[e] = "stopped" => done[e]
  /\ \A e \in Endpoints : svc[Svc[e]] # "up" =>
       /\ \A c \in ChannelsOf[e] : Added(c)
       /\ Stops # "early" => ep[e] = "stopped"
  /\ \A s \in Services : svc[s] = "up" => running[s]

(* And those of an acceptor.                                               *)
AcceptorInv == \A p \in Ports :
  /\ halted[p] => listening[p] # "none"
  /\ ended[p] => halted[p] /\ accepting[p] = "no"
  /\ Gone(p) => ended[p] /\ \E s \in Services : p \in PortsOf[s] /\ svc[s] # "up"

LifeInv == /\ TypeOK /\ ConnectionInv /\ FiledInv /\ SlotInv /\ ListInv
           /\ DoneMeansEmpty /\ StopInv /\ AcceptorInv

(* Without faults and lost lookups there is at most one entry for a tag,   *)
(* and only the host of that tag takes its future.                         *)
OnceInv ==
  /\ stale = {}
  /\ \A p \in Ports, t \in Tags :
       /\ Len(proms[p][t]) <= 1
       /\ proms[p][t] # << >> /\ proms[p][t][1].taken =>
            \E h \in Hosts : Port[h] = p /\ Tag[h] = t /\ user[h] \notin {"new", "asked"}
=============================================================================
