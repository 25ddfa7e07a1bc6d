-------------------------- MODULE Lifecycle_proofs --------------------------
(***************************************************************************)
(* Theorems about Lifecycle, for all endpoints, channels and threads, and  *)
(* for every time at which programs stop their endpoints and services.     *)
(***************************************************************************)
EXTENDS Lifecycle, SequenceTheorems, TLAPS

(***************************************************************************)
(* Channels and their names.                                               *)
(***************************************************************************)

LEMMA Kinds ==
  /\ Hosts \subseteq Channels /\ Clients \subseteq Channels
  /\ \A c \in Channels : c \in Hosts <=> IsHost[c]
  /\ \A c \in Channels : c \in Clients <=> ~IsHost[c]
  /\ None \notin Channels /\ "no" \notin Channels /\ "pending" \notin Channels
<1>1. None \notin Channels /\ "no" \notin Channels /\ "pending" \notin Channels
  BY EndpointsAssumption
<1> QED BY <1>1 DEF Hosts, Clients

LEMMA Places ==
  /\ \A e \in Endpoints : /\ Svc[e] \in Services /\ Endpoint[e].port \in Ports
                          /\ ChannelsOf[e] \subseteq Channels
  /\ \A c \in Channels :
       /\ Channel[c].endpoint \in Endpoints /\ c \in ChannelsOf[Channel[c].endpoint]
       /\ Io[c] = Svc[Channel[c].endpoint] /\ Io[c] \in Services
       /\ Port[c] = Endpoint[Channel[c].endpoint].port /\ Port[c] \in Ports
       /\ IsHost[c] = Endpoint[Channel[c].endpoint].host
  /\ \A e \in Endpoints : \A c \in ChannelsOf[e] : Channel[c].endpoint = e
<1>1. \A e \in Endpoints : Endpoint[e].port \in Ports /\ Endpoint[e].service \in Services
  BY EndpointsAssumption
<1>2. \A e \in Endpoints : Svc[e] \in Services
  BY <1>1 DEF Svc
<1>3. \A c \in Channels : Channel[c].endpoint \in Endpoints
  BY EndpointsAssumption
<1>4. \A c \in Channels : /\ Io[c] = Svc[Channel[c].endpoint]
                          /\ Port[c] = Endpoint[Channel[c].endpoint].port
                          /\ IsHost[c] = Endpoint[Channel[c].endpoint].host
  BY DEF Io, Port, IsHost
<1>5. \A e \in Endpoints : ChannelsOf[e] = {c \in Channels : Channel[c].endpoint = e}
  BY DEF ChannelsOf
<1> QED BY <1>1, <1>2, <1>3, <1>4, <1>5

LEMMA TagsOf ==
  /\ \A c \in Channels : Tag[c] \in Tags
  /\ \A c \in Clients : CutTag[c] \in Tags
BY DEF Tags

(* Two names in the order the one or the other end has them.               *)
LEMMA TagNames ==
  ASSUME NEW c \in Channels
  PROVE  /\ Names[c] = <<Names[c][1], Channel[c].local, Channel[c].remote>>
         /\ c \in Hosts => Tag[c] = <<Names[c][1], Channel[c].local, Channel[c].remote>>
         /\ c \in Clients => Tag[c] = <<Names[c][1], Channel[c].remote, Channel[c].local>>
<1>1. /\ Names[c] = <<Names[c][1], Channel[c].local, Channel[c].remote>>
      /\ Names[c][2] = Channel[c].local /\ Names[c][3] = Channel[c].remote
  BY DEF Names
<1>2. Tag[c] = IF IsHost[c] THEN Names[c] ELSE <<Names[c][1], Names[c][3], Names[c][2]>>
  BY DEF Tag, FiledUnder
<1> QED BY <1>1, <1>2, Kinds

(* Port and tag tell the channels of either kind apart, and a host and a   *)
(* client that share them name each other.                                 *)
LEMMA SameTag ==
  ASSUME NEW c \in Channels, NEW d \in Channels, Port[c] = Port[d], Tag[c] = Tag[d]
  PROVE  /\ (c \in Hosts <=> d \in Hosts) => c = d
         /\ c \in Hosts /\ d \in Clients => Mirror(c, d)
<1>1. ASSUME c \in Hosts <=> d \in Hosts
      PROVE  c = d
  <2>1. IsHost[c] = IsHost[d]
    <3>1. IsHost[c] \in BOOLEAN /\ IsHost[d] \in BOOLEAN
      BY Places, EndpointsAssumption
    <3> QED BY <1>1, <3>1, Kinds
  <2>2. (c \in Hosts /\ d \in Hosts) \/ (c \in Clients /\ d \in Clients)
    BY <1>1, Kinds
  <2>3. Names[c] = Names[d]
    BY <2>2, TagNames
  <2> QED BY <2>1, <2>3, MatchingAssumption
<1>2. ASSUME c \in Hosts, d \in Clients
      PROVE  Mirror(c, d)
  BY <1>2, TagNames DEF Mirror
<1> QED BY <1>1, <1>2

LEMMA MirrorTag ==
  ASSUME NEW h \in Hosts, NEW c \in Clients, Mirror(h, c)
  PROVE  Port[h] = Port[c] /\ Tag[h] = Tag[c]
BY TagNames, Kinds DEF Mirror

(* A port belongs to the service of its hosts.                             *)
LEMMA PortService ==
  ASSUME NEW h \in Hosts, NEW s \in Services
  PROVE  /\ Port[h] \in PortsOf[s] => Io[h] = s
         /\ Port[h] \in PortsOf[Io[h]]
<1>1. h \in Channels /\ IsHost[h]
  BY Kinds
<1>2. PortsOf[s] = {p \in Ports : \E e \in Endpoints :
                      Endpoint[e].host /\ Endpoint[e].port = p /\ Svc[e] = s}
  BY DEF PortsOf
<1>3. Io[h] \in Services
  BY <1>1, Places
<1>4. PortsOf[Io[h]] = {p \in Ports : \E e \in Endpoints :
                      Endpoint[e].host /\ Endpoint[e].port = p /\ Svc[e] = Io[h]}
  BY <1>3 DEF PortsOf
<1> QED BY <1>1, <1>2, <1>4, Places, PortsAssumption

(***************************************************************************)
(* The entries of mSocketPromises.                                         *)
(***************************************************************************)
Entry == [socket : Clients \cup {None}, taken : BOOLEAN]

(* Entries are only added at the end, and the only socket that appears is  *)
(* x, under tag t of port p.                                               *)
Longer(old, new, x) ==
  /\ Len(old) <= Len(new)
  /\ \A i \in 1..Len(new) : \/ new[i].socket = None
                            \/ i \in 1..Len(old) /\ new[i].socket = old[i].socket
                            \/ new[i].socket = x
Files(x, p, t) == \A q \in Ports, u \in Tags :
  Longer(proms[q][u], proms'[q][u], IF q = p /\ u = t THEN x ELSE None)

PromsType == proms \in [Ports -> [Tags -> Seq(Entry)]]

LEMMA FreshEntry ==
  Fresh \in Entry /\ Fresh.socket = None /\ Fresh.taken = FALSE
BY DEF Fresh, Entry

LEMMA LastChanged ==
  ASSUME NEW S, NEW s \in Seq(S), s # << >>, NEW e \in S
  PROVE  /\ Len(s) \in 1..Len(s) /\ s[Len(s)] \in S
         /\ [s EXCEPT ![Len(s)] = e] \in Seq(S)
         /\ Len([s EXCEPT ![Len(s)] = e]) = Len(s)
         /\ \A i \in 1..Len(s) : [s EXCEPT ![Len(s)] = e][i] = IF i = Len(s) THEN e ELSE s[i]
<1>1. Len(s) \in Nat /\ Len(s) # 0
  BY EmptySeq
<1>2. Len(s) \in 1..Len(s)
  BY <1>1
<1> QED BY <1>1, <1>2, ExceptSeq

LEMMA Appended ==
  ASSUME NEW S, NEW s \in Seq(S), NEW e \in S
  PROVE  /\ Append(s, e) \in Seq(S) /\ Append(s, e) # << >>
         /\ Len(s) \in Nat /\ Len(Append(s, e)) = Len(s) + 1
         /\ \A i \in 1..Len(s) : Append(s, e)[i] = s[i]
         /\ Append(s, e)[Len(s) + 1] = e
<1>1. Append(s, e) \in Seq(S) /\ Len(Append(s, e)) = Len(s) + 1 /\ Len(s) \in Nat
  OBVIOUS
<1>2. \A i \in 1..Len(s) : Append(s, e)[i] = s[i]
  OBVIOUS
<1>3. Append(s, e)[Len(s) + 1] = e
  OBVIOUS
<1>4. Append(s, e) # << >>
  BY <1>1, EmptySeq
<1> QED BY <1>1, <1>2, <1>3, <1>4

(* One tag of one port is given other entries.                             *)
LEMMA EntriesChanged ==
  ASSUME PromsType, NEW p \in Ports, NEW t \in Tags, NEW new \in Seq(Entry), NEW x,
         proms' = [proms EXCEPT ![p][t] = new], Longer(proms[p][t], new, x)
  PROVE  /\ PromsType' /\ Files(x, p, t) /\ proms'[p][t] = new
         /\ \A q \in Ports, u \in Tags : q # p \/ u # t => proms'[q][u] = proms[q][u]
<1>1. PromsType' /\ proms'[p][t] = new
  BY DEF PromsType
<1>2. \A q \in Ports, u \in Tags : q # p \/ u # t => proms'[q][u] = proms[q][u]
  BY DEF PromsType
<1>3. \A q \in Ports, u \in Tags : Len(proms[q][u]) \in Nat
  BY DEF PromsType
<1>4. ASSUME NEW q \in Ports, NEW u \in Tags, q # p \/ u # t
      PROVE  Longer(proms[q][u], proms'[q][u], None)
  <2>1. proms'[q][u] = proms[q][u]
    BY <1>2, <1>4
  <2> QED BY <2>1, <1>3 DEF Longer
<1>5. Files(x, p, t)
  BY <1>1, <1>4 DEF Files
<1> QED BY <1>1, <1>2, <1>5

LEMMA EntriesKept ==
  ASSUME PromsType, UNCHANGED proms, NEW x, NEW p, NEW t
  PROVE  PromsType' /\ Files(x, p, t)
<1>1. \A q \in Ports, u \in Tags : Len(proms[q][u]) \in Nat
  BY DEF PromsType
<1>2. PromsType'
  BY DEF PromsType
<1> QED BY <1>1, <1>2 DEF Files, Longer

LEMMA Emplaced ==
  ASSUME PromsType, stale \subseteq Channels,
         NEW x \in Channels, NEW p \in Ports, NEW t \in Tags, FindOrEmplace(x, p, t)
  PROVE  /\ PromsType' /\ stale' \subseteq Channels
         /\ Files(None, p, t) /\ proms'[p][t] # << >>
         /\ \/ UNCHANGED proms
            \/ /\ proms[p][t] = << >> /\ proms'[p][t] = <<Fresh>>
               /\ \A q \in Ports, u \in Tags : q # p \/ u # t => proms'[q][u] = proms[q][u]
<1>1. CASE proms[p][t] # << >>
  BY <1>1, EntriesKept DEF FindOrEmplace
<1>2. CASE proms[p][t] = << >>
  <2>1. proms' = [proms EXCEPT ![p][t] = <<Fresh>>]
    BY <1>2 DEF FindOrEmplace
  <2>2. stale' \subseteq Channels
    BY <1>2, Kinds DEF FindOrEmplace, Looking
  <2>3. /\ <<Fresh>> \in Seq(Entry) /\ Len(<<Fresh>>) = 1 /\ <<Fresh>> # << >>
        /\ <<Fresh>>[1] = Fresh /\ Len(proms[p][t]) = 0
    BY <1>2, FreshEntry
  <2>4. Longer(proms[p][t], <<Fresh>>, None)
    <3>1. \A i \in 1..1 : i = 1
      OBVIOUS
    <3> QED BY <3>1, <2>3, FreshEntry DEF Longer
  <2>5. /\ PromsType' /\ Files(None, p, t) /\ proms'[p][t] = <<Fresh>>
        /\ \A q \in Ports, u \in Tags : q # p \/ u # t => proms'[q][u] = proms[q][u]
    BY <2>1, <2>3, <2>4, EntriesChanged, Zenon
  <2> QED BY <1>2, <2>2, <2>3, <2>5
<1> QED BY <1>1, <1>2

(* The sequence in which a lookup ends.                                    *)
LEMMA FoundEntries ==
  ASSUME PromsType, NEW x, NEW p \in Ports, NEW t \in Tags,
         proms[p][t] # << >>, NEW s \in Found(x, p, t)
  PROVE  /\ s \in Seq(Entry) /\ s # << >> /\ Longer(proms[p][t], s, None)
         /\ x \notin stale => s = proms[p][t]
<1>1. s = proms[p][t] \/ (x \in stale /\ s = Append(proms[p][t], Fresh))
  BY DEF Found
<1>2. proms[p][t] \in Seq(Entry)
  BY DEF PromsType
<1>3. CASE s = proms[p][t]
  <2>1. Len(proms[p][t]) \in Nat
    BY <1>2
  <2>2. Longer(proms[p][t], s, None)
    BY <1>3, <2>1 DEF Longer
  <2> QED BY <1>2, <1>3, <2>2
<1>4. CASE x \in stale /\ s = Append(proms[p][t], Fresh)
  <2>1. /\ Append(proms[p][t], Fresh) \in Seq(Entry) /\ Append(proms[p][t], Fresh) # << >>
        /\ Len(proms[p][t]) \in Nat
        /\ Len(Append(proms[p][t], Fresh)) = Len(proms[p][t]) + 1
        /\ \A i \in 1..Len(proms[p][t]) : Append(proms[p][t], Fresh)[i] = proms[p][t][i]
        /\ Append(proms[p][t], Fresh)[Len(proms[p][t]) + 1] = Fresh
    BY <1>2, FreshEntry, Appended
  <2>2. /\ s \in Seq(Entry) /\ s # << >> /\ Len(proms[p][t]) \in Nat
        /\ Len(s) = Len(proms[p][t]) + 1
        /\ \A i \in 1..Len(proms[p][t]) : s[i] = proms[p][t][i]
        /\ s[Len(proms[p][t]) + 1] = Fresh
    BY <1>4, <2>1
  <2>3. \A n \in Nat : \A i \in 1..(n + 1) : i \in 1..n \/ i = n + 1
    OBVIOUS
  <2>4. \A i \in 1..Len(s) : i \in 1..Len(proms[p][t]) \/ i = Len(proms[p][t]) + 1
    BY <2>2, <2>3
  <2>5. Len(proms[p][t]) <= Len(s)
    BY <2>2
  <2>6. \A i \in 1..Len(s) : \/ s[i].socket = None
                             \/ i \in 1..Len(proms[p][t]) /\ s[i] = proms[p][t][i]
    BY <2>2, <2>4, FreshEntry
  <2> QED BY <1>4, <2>2, <2>5, <2>6 DEF Longer
<1> QED BY <1>1, <1>3, <1>4

(* The last entry is changed: its future is taken, or its promise kept.    *)
LEMMA EntryChanged ==
  ASSUME NEW old \in Seq(Entry), NEW s \in Seq(Entry), s # << >>, Longer(old, s, None),
         NEW e \in Entry, NEW x, e.socket = s[Len(s)].socket \/ e.socket = x
  PROVE  /\ [s EXCEPT ![Len(s)] = e] \in Seq(Entry)
         /\ Len([s EXCEPT ![Len(s)] = e]) = Len(s) /\ Len(s) \in 1..Len(s)
         /\ Longer(old, [s EXCEPT ![Len(s)] = e], x)
         /\ \A i \in 1..Len(s) : [s EXCEPT ![Len(s)] = e][i] = IF i = Len(s) THEN e ELSE s[i]
<1> DEFINE new == [s EXCEPT ![Len(s)] = e]
<1>1. /\ new \in Seq(Entry) /\ Len(new) = Len(s) /\ Len(s) \in 1..Len(s)
      /\ \A i \in 1..Len(s) : new[i] = IF i = Len(s) THEN e ELSE s[i]
  BY LastChanged
<1> HIDE DEF new
<1>2. Longer(old, new, x)
  <2>1. Len(old) <= Len(new)
    BY <1>1 DEF Longer
  <2>2. ASSUME NEW i \in 1..Len(new)
        PROVE  \/ new[i].socket = None
               \/ i \in 1..Len(old) /\ new[i].socket = old[i].socket
               \/ new[i].socket = x
    <3>1. /\ i \in 1..Len(s)
          /\ \/ s[i].socket = None
             \/ i \in 1..Len(old) /\ s[i].socket = old[i].socket
      BY <1>1, <2>2 DEF Longer
    <3>2. new[i].socket = s[i].socket \/ new[i].socket = x
      BY <1>1, <3>1
    <3> QED BY <3>1, <3>2
  <2> QED BY <2>1, <2>2 DEF Longer
<1> QED BY <1>1, <1>2 DEF new

LEMMA FutureTaken ==
  ASSUME PromsType, NEW h \in Hosts, proms[Port[h]][Tag[h]] # << >>, TakeFuture(h)
  PROVE  /\ PromsType' /\ Files(None, Port[h], Tag[h])
         /\ \/ dead' = TRUE /\ UNCHANGED <<proms, slot, user>>
               /\ \E s \in Found(h, Port[h], Tag[h]) : s[Len(s)].taken
            \/ \E s \in Found(h, Port[h], Tag[h]) :
                 /\ s[Len(s)].taken = FALSE
                 /\ slot' = [slot EXCEPT ![h] = Len(s)]
                 /\ Len(s) \in 1..Len(proms'[Port[h]][Tag[h]])
                 /\ user' = [user EXCEPT ![h] = "waiting"] /\ UNCHANGED dead
                 /\ proms' = [proms EXCEPT ![Port[h]][Tag[h]] =
                                [s EXCEPT ![Len(s)] = [@ EXCEPT !.taken = TRUE]]]
<1>1. PICK s \in Found(h, Port[h], Tag[h]) :
        IF s[Len(s)].taken
          THEN dead' = TRUE /\ UNCHANGED <<proms, slot, user>>
          ELSE /\ proms' = [proms EXCEPT ![Port[h]][Tag[h]] =
                              [s EXCEPT ![Len(s)] = [@ EXCEPT !.taken = TRUE]]]
               /\ slot' = [slot EXCEPT ![h] = Len(s)]
               /\ user' = [user EXCEPT ![h] = "waiting"]
               /\ UNCHANGED dead
  BY DEF TakeFuture, Last
<1>2. Port[h] \in Ports /\ Tag[h] \in Tags
  BY Kinds, Places, TagsOf
<1>3. s \in Seq(Entry) /\ s # << >> /\ Longer(proms[Port[h]][Tag[h]], s, None)
  BY <1>2, FoundEntries
<1>4. CASE s[Len(s)].taken
  BY <1>1, <1>4, EntriesKept
<1>5. CASE ~s[Len(s)].taken
  <2>1. Len(s) \in 1..Len(s) /\ s[Len(s)] \in Entry
    BY <1>3, LastChanged
  <2>2. s[Len(s)].taken = FALSE
    BY <1>5, <2>1 DEF Entry
  <2>3. PICK e : e = [s[Len(s)] EXCEPT !.taken = TRUE]
    OBVIOUS
  <2>4. e \in Entry /\ e.socket = s[Len(s)].socket
    BY <2>1, <2>3 DEF Entry
  <2>5. PICK new : new = [s EXCEPT ![Len(s)] = e]
    OBVIOUS
  <2>6. /\ new \in Seq(Entry) /\ Len(new) = Len(s)
        /\ Longer(proms[Port[h]][Tag[h]], new, None)
    <3>1. proms[Port[h]][Tag[h]] \in Seq(Entry)
      BY <1>2 DEF PromsType
    <3> QED BY <1>3, <2>4, <2>5, <3>1, EntryChanged
  <2>7. proms' = [proms EXCEPT ![Port[h]][Tag[h]] = new]
    BY <1>1, <1>5, <2>3, <2>5
  <2>8. /\ PromsType' /\ Files(None, Port[h], Tag[h]) /\ proms'[Port[h]][Tag[h]] = new
        /\ \A q \in Ports, u \in Tags :
             q # Port[h] \/ u # Tag[h] => proms'[q][u] = proms[q][u]
    BY <1>2, <2>6, <2>7, EntriesChanged, Zenon
  <2>9. Len(s) \in 1..Len(proms'[Port[h]][Tag[h]])
    BY <2>1, <2>6, <2>8
  <2> QED BY <1>1, <1>5, <2>2, <2>8, <2>9
<1> QED BY <1>4, <1>5

LEMMA PromiseKept ==
  ASSUME PromsType, NEW c \in Clients, proms[Port[c]][Tag[c]] # << >>, HandOver(c)
  PROVE  /\ PromsType' /\ Files(c, Port[c], Tag[c])
         /\ \E s \in Found(c, Port[c], Tag[c]) :
              \/ /\ dead' = TRUE /\ UNCHANGED proms
                 /\ Gone(Port[c]) \/ s[Len(s)].socket # None
              \/ /\ UNCHANGED dead /\ s[Len(s)].socket = None
                 /\ proms' = [proms EXCEPT ![Port[c]][Tag[c]] =
                                [s EXCEPT ![Len(s)] = [@ EXCEPT !.socket = c]]]
<1>1. PICK s \in Found(c, Port[c], Tag[c]) :
        IF Gone(Port[c]) \/ s[Len(s)].socket # None
          THEN dead' = TRUE /\ UNCHANGED proms
          ELSE /\ proms' = [proms EXCEPT ![Port[c]][Tag[c]] =
                              [s EXCEPT ![Len(s)] = [@ EXCEPT !.socket = c]]]
               /\ UNCHANGED dead
  BY DEF HandOver, Last
<1>2. Port[c] \in Ports /\ Tag[c] \in Tags
  BY Kinds, Places, TagsOf
<1>3. s \in Seq(Entry) /\ s # << >> /\ Longer(proms[Port[c]][Tag[c]], s, None)
  BY <1>2, FoundEntries
<1>4. CASE Gone(Port[c]) \/ s[Len(s)].socket # None
  BY <1>1, <1>4, EntriesKept
<1>5. CASE ~(Gone(Port[c]) \/ s[Len(s)].socket # None)
  <2>1. Len(s) \in 1..Len(s) /\ s[Len(s)] \in Entry
    BY <1>3, LastChanged
  <2>2. PICK e : e = [s[Len(s)] EXCEPT !.socket = c]
    OBVIOUS
  <2>3. e \in Entry /\ e.socket = c
    BY <2>1, <2>2 DEF Entry
  <2>4. PICK new : new = [s EXCEPT ![Len(s)] = e]
    OBVIOUS
  <2>5. new \in Seq(Entry) /\ Longer(proms[Port[c]][Tag[c]], new, c)
    <3>1. proms[Port[c]][Tag[c]] \in Seq(Entry)
      BY <1>2 DEF PromsType
    <3> QED BY <1>3, <2>3, <2>4, <3>1, EntryChanged
  <2>6. proms' = [proms EXCEPT ![Port[c]][Tag[c]] = new]
    BY <1>1, <1>5, <2>2, <2>4
  <2>7. PromsType' /\ Files(c, Port[c], Tag[c])
    BY <1>2, <2>5, <2>6, EntriesChanged, Zenon
  <2> QED BY <1>1, <1>5, <2>7
<1> QED BY <1>4, <1>5

LEMMA PromiseCut ==
  ASSUME PromsType, NEW c \in Clients, ShortBody(c)
  PROVE  PromsType' /\ Files(c, Port[c], CutTag[c])
<1>1. Port[c] \in Ports /\ CutTag[c] \in Tags
  BY Kinds, Places, TagsOf
<1>2. CASE UNCHANGED proms
  BY <1>2, EntriesKept
<1>3. CASE proms' = [proms EXCEPT ![Port[c]][CutTag[c]] =
                       Append(@, [Fresh EXCEPT !.socket = c])]
  <2>1. PICK old : old = proms[Port[c]][CutTag[c]]
    OBVIOUS
  <2>2. PICK e : e = [Fresh EXCEPT !.socket = c]
    OBVIOUS
  <2>3. old \in Seq(Entry)
    BY <1>1, <2>1 DEF PromsType
  <2>4. e \in Entry /\ e.socket = c
    BY <2>2 DEF Fresh, Entry
  <2>5. PICK new : new = Append(old, e)
    OBVIOUS
  <2>6. /\ new \in Seq(Entry) /\ Len(new) = Len(old) + 1 /\ Len(old) \in Nat
        /\ \A i \in 1..Len(old) : new[i] = old[i]
        /\ new[Len(old) + 1] = e
    BY <2>3, <2>4, <2>5, Appended
  <2>7. \A n \in Nat : n <= n + 1 /\ \A i \in 1..(n + 1) : i \in 1..n \/ i = n + 1
    OBVIOUS
  <2>8. Longer(old, new, c)
    BY <2>4, <2>6, <2>7 DEF Longer
  <2>9. proms' = [proms EXCEPT ![Port[c]][CutTag[c]] = new]
    BY <1>3, <2>1, <2>2, <2>5
  <2> QED BY <1>1, <2>1, <2>6, <2>8, <2>9, EntriesChanged, Zenon
<1> QED BY <1>2, <1>3 DEF ShortBody

(***************************************************************************)
(* Types.                                                                  *)
(***************************************************************************)

LEMMA TypeProms == TypeOK => PromsType /\ stale \subseteq Channels
BY DEF TypeOK, PromsType, Entry

LEMMA HeadTail ==
  ASSUME NEW S, NEW s \in Seq(S), s # << >>
  PROVE  /\ Head(s) \in S /\ Tail(s) \in Seq(S)
         /\ Len(s) \in Nat \ {0} /\ Len(Tail(s)) = Len(s) - 1
         /\ Head(s) = s[1] /\ 1 \in 1..Len(s)
         /\ \A i \in 1..Len(Tail(s)) : i + 1 \in 1..Len(s) /\ Tail(s)[i] = s[i + 1]
<1>1. Head(s) = s[1]
  OBVIOUS
<1> QED BY <1>1, HeadTailProperties, EmptySeq

(* The variables the io threads and the acceptors keep, apart from proms.  *)
LEMMA TypeStep ==
  ASSUME LifeInv, Step, IoThreads
  PROVE  TypeOK'
<1> USE Kinds, Places, TagsOf
<1>1. TypeOK
  BY DEF LifeInv
<1>2. running' \in [Services -> BOOLEAN]
  BY <1>1 DEF IoThreads, TypeOK
<1>3. ASSUME NEW e \in Endpoints, StartEndpoint(e)
      PROVE  TypeOK'
  <2>1. Endpoint[e].port \in Ports
    OBVIOUS
  <2>2. PICK q \in Ports : \/ UNCHANGED <<listening, accepting>>
                           \/ /\ listening' = [listening EXCEPT ![q] = "open"]
                              /\ accepting' = [accepting EXCEPT ![q] = "pending"]
    BY <1>3, <2>1 DEF StartEndpoint, GetAcceptor
  <2>3. /\ listening' \in [Ports -> {"none", "open", "closed", "gone"}]
        /\ accepting' \in [Ports -> {"no", "pending"} \cup Clients]
    <3>1. CASE UNCHANGED <<listening, accepting>>
      BY <1>1, <3>1 DEF TypeOK
    <3>2. CASE /\ listening' = [listening EXCEPT ![q] = "open"]
               /\ accepting' = [accepting EXCEPT ![q] = "pending"]
      BY <1>1, <3>2 DEF TypeOK
    <3> QED BY <2>2, <3>1, <3>2
  <2>4. ep' \in [Endpoints -> {"new", "started", "stopping", "stopped"}]
    BY <1>1, <1>3 DEF TypeOK, StartEndpoint
  <2> QED BY <1>1, <1>2, <1>3, <2>3, <2>4 DEF TypeOK, StartEndpoint, handVars, chanVars
<1>4. ASSUME NEW c \in Channels, Connect(c)
      PROVE  TypeOK'
  <2>1. c \in Clients /\ backlog[Port[c]] \in Seq(Clients)
    BY <1>1, <1>4 DEF TypeOK, Connect
  <2>2. Append(backlog[Port[c]], c) \in Seq(Clients)
    BY <2>1
  <2>3. mChannels' \subseteq Channels /\ before' \in [Channels -> SUBSET Channels]
    BY <1>1, <1>4 DEF TypeOK, Connect, AppendChannel
  <2>4. user' \in [Channels -> {"new", "asked", "waiting", "open", "closing", "drained",
                            "leaving", "closed"}]
    BY <1>1, <1>4 DEF TypeOK, Connect
  <2>5. backlog' \in [Ports -> Seq(Clients)]
    BY <1>1, <1>4, <2>2 DEF TypeOK, Connect
  <2> QED BY <1>1, <1>2, <1>4, <2>3, <2>4, <2>5 DEF TypeOK, Connect, ioVars, epVars
<1>5. ASSUME NEW c \in Channels, Ask(c)
      PROVE  TypeOK'
  <2>1. PromsType' /\ stale' \subseteq Channels
    BY <1>1, <1>5, TypeProms, Emplaced DEF Ask
  <2>2. mChannels' \subseteq Channels /\ before' \in [Channels -> SUBSET Channels]
    BY <1>1, <1>5 DEF TypeOK, Ask, AppendChannel
  <2>3. user' \in [Channels -> {"new", "asked", "waiting", "open", "closing", "drained",
                            "leaving", "closed"}]
    BY <1>1, <1>5 DEF TypeOK, Ask
  <2> QED BY <1>1, <1>2, <1>5, <2>1, <2>2, <2>3 DEF TypeOK, Ask, ioVars, epVars, PromsType, Entry
<1>6. ASSUME NEW c \in Channels, TakeFuture(c)
      PROVE  TypeOK'
  <2>1. c \in Hosts /\ proms[Port[c]][Tag[c]] # << >>
    BY <1>6 DEF TakeFuture, LifeInv, SlotInv
  <2>2. PromsType' /\ stale' \subseteq Channels
    BY <1>1, <1>6, <2>1, TypeProms, FutureTaken DEF TakeFuture
  <2>3. \/ dead' = TRUE /\ UNCHANGED <<slot, user>>
        \/ \E i \in Nat : /\ slot' = [slot EXCEPT ![c] = i]
                          /\ user' = [user EXCEPT ![c] = "waiting"] /\ UNCHANGED dead
    <3>1. \A s \in Found(c, Port[c], Tag[c]) : Len(s) \in Nat
      BY <1>1, <2>1, TypeProms, FoundEntries
    <3> QED BY <1>1, <1>6, <2>1, <3>1, TypeProms, FutureTaken
  <2>4. /\ dead' \in BOOLEAN /\ slot' \in [Hosts -> Nat]
        /\ user' \in [Channels -> {"new", "asked", "waiting", "open", "closing", "drained",
                                   "leaving", "closed"}]
    <3>1. CASE dead' = TRUE /\ UNCHANGED <<slot, user>>
      BY <1>1, <3>1 DEF TypeOK
    <3>2. ASSUME NEW i \in Nat, slot' = [slot EXCEPT ![c] = i],
                 user' = [user EXCEPT ![c] = "waiting"], UNCHANGED dead
          PROVE  /\ dead' \in BOOLEAN /\ slot' \in [Hosts -> Nat]
                 /\ user' \in [Channels -> {"new", "asked", "waiting", "open", "closing",
                                            "drained", "leaving", "closed"}]
      BY <1>1, <3>2 DEF TypeOK
    <3> QED BY <2>3, <3>1, <3>2
  <2> QED BY <1>1, <1>2, <1>6, <2>2, <2>4
          DEF TypeOK, TakeFuture, ioVars, epVars, PromsType, Entry
<1>7. ASSUME NEW c \in Channels, GetSocket(c)
      PROVE  TypeOK'
  <2>1. c \in Hosts /\ slot[c] \in 1..Len(proms[Port[c]][Tag[c]])
    BY <1>7 DEF GetSocket, LifeInv, SlotInv
  <2>2. proms[Port[c]][Tag[c]] \in Seq(Entry)
    BY <1>1, <2>1, TypeProms DEF PromsType
  <2>3. proms[Port[c]][Tag[c]][slot[c]] \in Entry
    BY <2>1, <2>2, ElementOfSeq
  <2>4. proms[Port[c]][Tag[c]][slot[c]].socket \in Clients \cup {None}
    BY <2>3 DEF Entry
  <2> QED BY <1>1, <1>2, <1>7, <2>1, <2>4 DEF TypeOK, GetSocket, ioVars, epVars, handVars
<1>8. ASSUME NEW c \in Channels, Close(c) \/ Drain(c) \/ Remove(c) \/ Unlock(c)
      PROVE  TypeOK'
  <2>1. CASE Close(c)
    BY <1>1, <1>2, <2>1 DEF TypeOK, Close, ioVars, epVars, handVars
  <2>2. CASE Drain(c)
    BY <1>1, <1>2, <2>2 DEF TypeOK, Drain, ioVars, epVars, handVars
  <2>3. CASE Remove(c)
    <3>1. IsLast(c) \in BOOLEAN
      BY DEF IsLast
    <3>2. mChannels' \subseteq Channels
      BY <1>1, <2>3 DEF TypeOK, Remove
    <3>3. done' \in [Endpoints -> BOOLEAN] /\ dead' \in BOOLEAN
      BY <1>1, <2>3, <3>1 DEF TypeOK, Remove
    <3>4. user' \in [Channels -> {"new", "asked", "waiting", "open", "closing", "drained",
                            "leaving", "closed"}]
      BY <1>1, <2>3 DEF TypeOK, Remove
    <3> QED BY <1>1, <1>2, <2>3, <3>2, <3>3, <3>4 DEF TypeOK, Remove, ioVars, handVars
  <2>4. CASE Unlock(c)
    BY <1>1, <1>2, <2>4 DEF TypeOK, Unlock, ioVars, epVars, handVars
  <2> QED BY <1>8, <2>1, <2>2, <2>3, <2>4
<1>9. ASSUME NEW c \in Clients, Handler(c)
      PROVE  TypeOK'
  <2>1. shake' \in [Clients -> {"none", "header", "body", "found", "over"}]
    BY <1>1, <1>9 DEF TypeOK, Handler, SendNames, ReadHeader, ReadBody, HandOver, ShortBody, Reset, handVars
  <2>3. CASE ReadBody(c)
    <3>1. PromsType' /\ stale' \subseteq Channels
      BY <1>1, <2>3, TypeProms, Emplaced DEF ReadBody
    <3>2. dead' \in BOOLEAN
      BY <2>3 DEF ReadBody, Gone
    <3> QED BY <1>1, <1>2, <2>1, <2>3, <3>1, <3>2
            DEF TypeOK, ReadBody, ioVars, epVars, chanVars, PromsType, Entry
  <2>4. CASE HandOver(c)
    <3>1. proms[Port[c]][Tag[c]] # << >>
      BY <2>4 DEF HandOver, LifeInv, SlotInv
    <3>2. PromsType' /\ dead' \in BOOLEAN
      BY <1>1, <2>4, <3>1, TypeProms, PromiseKept DEF TypeOK
    <3> QED BY <1>1, <1>2, <2>1, <2>4, <3>2
            DEF TypeOK, HandOver, ioVars, epVars, chanVars, PromsType, Entry
  <2>5. CASE ShortBody(c)
    <3>1. PromsType' /\ dead' \in BOOLEAN
      BY <1>1, <2>5, TypeProms, PromiseCut DEF TypeOK, ShortBody
    <3> QED BY <1>1, <1>2, <2>1, <2>5, <3>1
            DEF TypeOK, ShortBody, ioVars, epVars, chanVars, PromsType, Entry
  <2>6. CASE SendNames(c)
    BY <1>1, <1>2, <2>6 DEF TypeOK, SendNames, ioVars, epVars, handVars
  <2>7. CASE ReadHeader(c)
    BY <1>1, <1>2, <2>1, <2>7 DEF TypeOK, ReadHeader, ioVars, epVars, chanVars
  <2>8. CASE Reset(c)
    BY <1>1, <1>2, <2>8 DEF TypeOK, Reset, ioVars, epVars, chanVars, handVars
  <2> QED BY <1>9, <2>3, <2>4, <2>5, <2>6, <2>7, <2>8 DEF Handler
<1>10. ASSUME NEW p \in Ports, Accept(p)
       PROVE  TypeOK'
  <2>1. Head(backlog[p]) \in Clients /\ Tail(backlog[p]) \in Seq(Clients)
    BY <1>1, <1>10, HeadTail DEF TypeOK, Accept
  <2> QED BY <1>1, <1>2, <1>10, <2>1 DEF TypeOK, Accept, epVars, chanVars
<1>11. ASSUME NEW p \in Ports, Restart(p)
       PROVE  /\ accepting' \in [Ports -> {"no", "pending"} \cup Clients]
              /\ dead' \in BOOLEAN /\ ended' \in [Ports -> BOOLEAN]
  <2>1. halted[p] \in BOOLEAN
    BY <1>1 DEF TypeOK
  <2>2. accepting' \in [Ports -> {"no", "pending"} \cup Clients]
    BY <1>1, <1>11 DEF TypeOK, Restart
  <2>3. ended' \in [Ports -> BOOLEAN]
    BY <1>1, <1>11, <2>1 DEF TypeOK, Restart
  <2>4. dead' \in BOOLEAN
    BY <1>11 DEF Restart, Gone
  <2> QED BY <2>2, <2>3, <2>4
<1>12. ASSUME NEW p \in Ports, Accepted(p) \/ AcceptFails(p)
       PROVE  TypeOK'
  <2>1. CASE Accepted(p)
    <3>1. shake' \in [Clients -> {"none", "header", "body", "found", "over"}]
      BY <1>1, <2>1 DEF TypeOK, Accepted
    <3> QED BY <1>1, <1>2, <1>11, <2>1, <3>1 DEF TypeOK, Accepted, epVars, chanVars
  <2>2. CASE AcceptFails(p)
    BY <1>1, <1>2, <1>11, <2>2 DEF TypeOK, AcceptFails, epVars, chanVars, handVars
  <2> QED BY <1>12, <2>1, <2>2
<1>13. ASSUME NEW e \in Endpoints, StopEndpoint(e) \/ StopReturns(e)
       PROVE  TypeOK'
  <2>1. CASE StopEndpoint(e)
    <3>1. done' \in [Endpoints -> BOOLEAN] /\ dead' \in BOOLEAN
      BY <1>1, <2>1 DEF TypeOK, StopEndpoint
    <3>2. ep' \in [Endpoints -> {"new", "started", "stopping", "stopped"}]
      BY <1>1, <2>1 DEF TypeOK, StopEndpoint
    <3> QED BY <1>1, <1>2, <2>1, <3>1, <3>2 DEF TypeOK, StopEndpoint, ioVars, handVars, chanVars
  <2>2. CASE StopReturns(e)
    BY <1>1, <1>2, <2>2 DEF TypeOK, StopReturns, ioVars, handVars, chanVars
  <2> QED BY <1>13, <2>1, <2>2
<1>14. ASSUME NEW s \in Services, StopService(s) \/ Destroy(s) \/ Await(s) \/ JoinThreads(s)
       PROVE  TypeOK'
  <2>1. CASE StopService(s)
    BY <1>1, <1>2, <2>1 DEF TypeOK, StopService, epVars, handVars, chanVars
  <2>2. CASE Destroy(s)
    <3>1. listening' \in [Ports -> {"none", "open", "closed", "gone"}]
      BY <1>1, <2>2 DEF TypeOK, Destroy
    <3> QED BY <1>1, <1>2, <2>2, <3>1 DEF TypeOK, Destroy, epVars, handVars, chanVars
  <2>3. CASE Await(s)
    BY <1>1, <1>2, <2>3 DEF TypeOK, Await, epVars, handVars, chanVars
  <2>4. CASE JoinThreads(s)
    BY <1>1, <1>2, <2>4 DEF TypeOK, JoinThreads, epVars, handVars, chanVars
  <2> QED BY <1>14, <2>1, <2>2, <2>3, <2>4
<1>15. ASSUME NEW p \in Ports, Halt(p) \/ CloseHandle(p)
       PROVE  TypeOK'
  <2>1. CASE Halt(p)
    BY <1>1, <1>2, <2>1 DEF TypeOK, Halt, epVars, handVars, chanVars
  <2>2. CASE CloseHandle(p)
    BY <1>1, <1>2, <2>2 DEF TypeOK, CloseHandle, epVars, handVars, chanVars
  <2> QED BY <1>15, <2>1, <2>2
<1>16. CASE Shutdown
  BY <1>13, <1>14, <1>15, <1>16 DEF Shutdown
<1> QED BY <1>3, <1>4, <1>5, <1>6, <1>7, <1>8, <1>9, <1>10, <1>12, <1>16 DEF Step, ThreadStep

(***************************************************************************)
(* What a step may do to the threads, the handlers and the flags.          *)
(***************************************************************************)
Ended(c) == user[c] \in {"leaving", "closed"}

(* A thread that has begun to add a channel, has added it, or has removed  *)
(* it, stays beyond that point.                                            *)
LEMMA UserMoves ==
  ASSUME LifeInv, Step, NEW c \in Channels
  PROVE  /\ user[c] # "new" => user'[c] # "new"
         /\ Added(c) => Added(c)'
         /\ Ended(c) => Ended(c)'
         /\ user[c] \notin {"new", "asked"} => user'[c] \notin {"new", "asked"}
<1> USE Kinds, Places, TagsOf
<1>1. user \in [Channels -> {"new", "asked", "waiting", "open", "closing", "drained",
                             "leaving", "closed"}]
  BY DEF LifeInv, TypeOK
<1>2. CASE UNCHANGED user
  BY <1>2 DEF Added, Ended
<1>3. ASSUME NEW d \in Channels, NEW old, NEW new,
             user[d] = old, user' = [user EXCEPT ![d] = new],
             <<old, new>> \in {<<"new", "open">>, <<"new", "asked">>, <<"asked", "waiting">>,
                               <<"waiting", "open">>, <<"open", "closing">>,
                               <<"closing", "drained">>, <<"drained", "leaving">>,
                               <<"leaving", "closed">>}
      PROVE  /\ user[c] # "new" => user'[c] # "new"
             /\ Added(c) => Added(c)'
             /\ Ended(c) => Ended(c)'
             /\ user[c] \notin {"new", "asked"} => user'[c] \notin {"new", "asked"}
  <2>1. CASE c = d
    <3>1. user'[c] = new
      BY <1>1, <1>3, <2>1
    <3> QED BY <1>3, <2>1, <3>1 DEF Added, Ended
  <2>2. CASE c # d
    <3>1. user'[c] = user[c]
      BY <1>1, <1>3, <2>2
    <3> QED BY <3>1 DEF Added, Ended
  <2> QED BY <2>1, <2>2
<1>4. ASSUME NEW d \in Channels, ThreadStep(d) \/ Drain(d)
      PROVE  /\ user[c] # "new" => user'[c] # "new"
             /\ Added(c) => Added(c)'
             /\ Ended(c) => Ended(c)'
             /\ user[c] \notin {"new", "asked"} => user'[c] \notin {"new", "asked"}
  <2>1. CASE Connect(d)
    BY <1>3, <2>1 DEF Connect, AppendChannel
  <2>2. CASE Ask(d)
    BY <1>3, <2>2 DEF Ask, AppendChannel
  <2>3. CASE TakeFuture(d)
    <3>1. user[d] = "asked" /\ (user' = [user EXCEPT ![d] = "waiting"] \/ UNCHANGED user)
      BY <2>3 DEF TakeFuture
    <3> QED BY <1>2, <1>3, <3>1
  <2>4. CASE GetSocket(d)
    BY <1>3, <2>4 DEF GetSocket
  <2>5. CASE Close(d)
    BY <1>3, <2>5 DEF Close
  <2>6. CASE Remove(d)
    BY <1>3, <2>6 DEF Remove
  <2>7. CASE Unlock(d)
    BY <1>3, <2>7 DEF Unlock
  <2>8. CASE Drain(d)
    BY <1>3, <2>8 DEF Drain
  <2> QED BY <1>4, <2>1, <2>2, <2>3, <2>4, <2>5, <2>6, <2>7, <2>8 DEF ThreadStep
<1>5. CASE \E e \in Endpoints : StartEndpoint(e)
  BY <1>2, <1>5 DEF StartEndpoint, chanVars
<1>6. CASE \E d \in Clients : Handler(d)
  BY <1>2, <1>6 DEF Handler, SendNames, ReadHeader, ReadBody, HandOver, ShortBody, Reset, chanVars
<1>7. CASE \E p \in Ports : Accept(p) \/ Accepted(p) \/ AcceptFails(p)
  BY <1>2, <1>7 DEF Accept, Accepted, AcceptFails, chanVars
<1>8. CASE Shutdown
  BY <1>2, <1>8 DEF Shutdown, StopEndpoint, StopReturns, StopService, Destroy, Await,
                    JoinThreads, Halt, CloseHandle, chanVars
<1> QED BY <1>4, <1>5, <1>6, <1>7, <1>8 DEF Step

LEMMA ShakeMoves ==
  ASSUME LifeInv, Step
  PROVE  /\ \A c \in Clients : shake[c] # "none" => shake'[c] # "none"
         /\ \A c \in Clients : shake[c] = "over" => shake'[c] = "over"
         /\ (\A p \in Ports : ~Accepted(p)) =>
              \A c \in Clients : shake[c] = "none" => shake'[c] = "none"
         /\ (\A c \in Clients : ~ReadBody(c)) =>
              \A c \in Clients : shake'[c] = "found" => shake[c] = "found"
<1> USE Kinds, Places
<1>1. /\ shake \in [Clients -> {"none", "header", "body", "found", "over"}]
      /\ \A p \in Ports : accepting[p] \in Clients => shake[accepting[p]] = "none"
  BY DEF LifeInv, TypeOK, ConnectionInv
<1>2. CASE UNCHANGED shake
  BY <1>2
<1>3. ASSUME NEW p \in Ports, Accepted(p)
      PROVE  /\ \A c \in Clients : shake[c] # "none" => shake'[c] # "none"
             /\ \A c \in Clients : shake[c] = "over" => shake'[c] = "over"
             /\ \A c \in Clients : shake'[c] = "found" => shake[c] = "found"
  BY <1>1, <1>3 DEF Accepted
<1>4. ASSUME NEW d \in Clients, Handler(d)
      PROVE  /\ \A c \in Clients : shake[c] # "none" => shake'[c] # "none"
             /\ \A c \in Clients : shake[c] = "over" => shake'[c] = "over"
             /\ \A c \in Clients : shake[c] = "none" => shake'[c] = "none"
             /\ ~ReadBody(d) => \A c \in Clients : shake'[c] = "found" => shake[c] = "found"
  BY <1>1, <1>4 DEF Handler, SendNames, ReadHeader, ReadBody, HandOver, ShortBody, Reset, handVars
<1>5. CASE \E e \in Endpoints : StartEndpoint(e)
  BY <1>2, <1>5 DEF StartEndpoint, handVars
<1>6. CASE \E d \in Channels : ThreadStep(d) \/ Drain(d)
  BY <1>2, <1>6 DEF ThreadStep, Connect, Ask, TakeFuture, GetSocket, Close, Remove, Unlock,
                    Drain, handVars
<1>7. CASE \E p \in Ports : Accept(p) \/ AcceptFails(p)
  BY <1>2, <1>7 DEF Accept, AcceptFails, handVars
<1>8. CASE Shutdown
  BY <1>2, <1>8 DEF Shutdown, StopEndpoint, StopReturns, StopService, Destroy, Await,
                    JoinThreads, Halt, CloseHandle, handVars
<1>9. \/ \E p \in Ports : Accepted(p)
      \/ \E d \in Clients : Handler(d)
      \/ \E e \in Endpoints : StartEndpoint(e)
      \/ \E d \in Channels : ThreadStep(d) \/ Drain(d)
      \/ \E p \in Ports : Accept(p) \/ AcceptFails(p)
      \/ Shutdown
  BY DEF Step
<1>10. ASSUME NEW p \in Ports, Accepted(p)
       PROVE  ~(\A q \in Ports : ~Accepted(q))
  BY <1>10
<1> QED BY <1>2, <1>3, <1>4, <1>5, <1>6, <1>7, <1>8, <1>9

(***************************************************************************)
(* Connections.                                                            *)
(***************************************************************************)

(* Accepts may be started and cancelled, and names read: what is in the    *)
(* backlog is still at no other place.                                     *)
LEMMA ConnectionFrame ==
  ASSUME LifeInv, Step, UNCHANGED backlog,
         \A c \in Clients : shake[c] = "none" => shake'[c] = "none",
         \A p \in Ports : accepting'[p] \in {accepting[p], "no", "pending"}
  PROVE  ConnectionInv'
<1> USE Kinds, Places
<1>1. /\ ConnectionInv
      /\ \A c \in Clients : user[c] # "new" => user'[c] # "new"
      /\ \A p \in Ports : \A i \in 1..Len(backlog[p]) : backlog[p][i] \in Clients
  <2>1. \A p \in Ports : backlog[p] \in Seq(Clients)
    BY DEF LifeInv, TypeOK
  <2> QED BY <2>1, UserMoves, ElementOfSeq DEF LifeInv
<1>2. ASSUME NEW p \in Ports, NEW i \in 1..Len(backlog[p])
      PROVE  /\ Port[backlog[p][i]] = p /\ accepting'[p] # backlog[p][i]
             /\ shake'[backlog[p][i]] = "none" /\ user'[backlog[p][i]] # "new"
             /\ \A j \in 1..Len(backlog[p]) : backlog[p][i] = backlog[p][j] => i = j
  BY <1>1, <1>2 DEF ConnectionInv
<1>3. ASSUME NEW p \in Ports, accepting'[p] \in Clients
      PROVE  /\ Port[accepting'[p]] = p
             /\ shake'[accepting'[p]] = "none" /\ user'[accepting'[p]] # "new"
  <2>1. accepting'[p] = accepting[p]
    BY <1>3
  <2> QED BY <1>1, <1>3, <2>1 DEF ConnectionInv
<1>4. \A c \in Clients : user'[c] = "new" => shake'[c] = "none"
  BY <1>1 DEF ConnectionInv
<1> QED BY <1>2, <1>3, <1>4 DEF ConnectionInv

LEMMA ConnectionConnect ==
  ASSUME LifeInv, Step, NEW c \in Channels, Connect(c)
  PROVE  ConnectionInv'
<1> USE Kinds, Places
<1>1. /\ c \in Clients /\ user[c] = "new" /\ Port[c] \in Ports
      /\ backlog' = [backlog EXCEPT ![Port[c]] = Append(@, c)]
      /\ UNCHANGED <<accepting, shake>> /\ user' = [user EXCEPT ![c] = "open"]
  BY DEF Connect, AppendChannel, ioVars
<1>2. /\ ConnectionInv /\ backlog \in [Ports -> Seq(Clients)]
      /\ user \in [Channels -> {"new", "asked", "waiting", "open", "closing", "drained",
                                "leaving", "closed"}]
  BY DEF LifeInv, TypeOK
<1>3. \A d \in Clients : user'[d] # "new" <=> (user[d] # "new" \/ d = c)
  BY <1>1, <1>2
<1>4. ASSUME NEW p \in Ports, p # Port[c]
      PROVE  \A i \in 1..Len(backlog'[p]) :
               /\ Port[backlog'[p][i]] = p /\ accepting'[p] # backlog'[p][i]
               /\ shake'[backlog'[p][i]] = "none" /\ user'[backlog'[p][i]] # "new"
               /\ \A j \in 1..Len(backlog'[p]) : backlog'[p][i] = backlog'[p][j] => i = j
  <2>1. backlog'[p] = backlog[p] /\ \A i \in 1..Len(backlog[p]) : backlog[p][i] \in Clients
    BY <1>1, <1>2, <1>4, ElementOfSeq
  <2>2. ASSUME NEW i \in 1..Len(backlog[p])
        PROVE  /\ Port[backlog[p][i]] = p /\ accepting[p] # backlog[p][i]
               /\ shake[backlog[p][i]] = "none" /\ user[backlog[p][i]] # "new"
               /\ \A j \in 1..Len(backlog[p]) : backlog[p][i] = backlog[p][j] => i = j
    BY <1>2, <2>2 DEF ConnectionInv
  <2>3. accepting' = accepting /\ shake' = shake
    BY <1>1
  <2>4. \A i \in 1..Len(backlog[p]) : user'[backlog[p][i]] # "new"
    BY <1>3, <2>1, <2>2
  <2> QED BY <2>1, <2>2, <2>3, <2>4, Zenon
<1>5. \A i \in 1..Len(backlog'[Port[c]]) :
        /\ Port[backlog'[Port[c]][i]] = Port[c] /\ accepting'[Port[c]] # backlog'[Port[c]][i]
        /\ shake'[backlog'[Port[c]][i]] = "none" /\ user'[backlog'[Port[c]][i]] # "new"
        /\ \A j \in 1..Len(backlog'[Port[c]]) :
             backlog'[Port[c]][i] = backlog'[Port[c]][j] => i = j
  <2>1. PICK b : b = backlog[Port[c]]
    OBVIOUS
  <2>2. PICK new : new = Append(b, c)
    OBVIOUS
  <2>3. backlog'[Port[c]] = new /\ b \in Seq(Clients)
    BY <1>1, <1>2, <2>1, <2>2
  <2>4. /\ Len(b) \in Nat /\ Len(new) = Len(b) + 1
        /\ \A i \in 1..Len(b) : new[i] = b[i]
        /\ new[Len(b) + 1] = c
    BY <1>1, <2>2, <2>3, Appended
  <2>5. \A n \in Nat : \A i \in 1..(n + 1) : i \in 1..n \/ i = n + 1
    OBVIOUS
  <2>6. \A i \in 1..Len(new) : (i \in 1..Len(b) /\ new[i] = b[i]) \/ (i = Len(b) + 1 /\ new[i] = c)
    BY <2>4, <2>5
  <2>7. \A i \in 1..Len(b) :
          /\ b[i] \in Clients /\ b[i] # c
          /\ Port[b[i]] = Port[c] /\ accepting[Port[c]] # b[i]
          /\ shake[b[i]] = "none" /\ user[b[i]] # "new"
          /\ \A j \in 1..Len(b) : b[i] = b[j] => i = j
    BY <1>1, <1>2, <2>1, <2>3, ElementOfSeq DEF ConnectionInv
  <2>8. accepting[Port[c]] # c /\ shake[c] = "none"
    BY <1>1, <1>2 DEF ConnectionInv
  <2>9. ASSUME NEW i \in 1..Len(new)
        PROVE  /\ Port[new[i]] = Port[c] /\ accepting'[Port[c]] # new[i]
               /\ shake'[new[i]] = "none" /\ user'[new[i]] # "new"
    BY <1>1, <1>3, <2>6, <2>7, <2>8
  <2>10. ASSUME NEW i \in 1..Len(new), NEW j \in 1..Len(new), new[i] = new[j]
         PROVE  i = j
    BY <2>6, <2>7, <2>10
  <2> QED BY <2>3, <2>9, <2>10
<1>6. ASSUME NEW p \in Ports, accepting'[p] \in Clients
      PROVE  /\ Port[accepting'[p]] = p
             /\ shake'[accepting'[p]] = "none" /\ user'[accepting'[p]] # "new"
  BY <1>1, <1>2, <1>3, <1>6 DEF ConnectionInv
<1>7. \A d \in Clients : user'[d] = "new" => shake'[d] = "none"
  BY <1>1, <1>2, <1>3 DEF ConnectionInv
<1> QED BY <1>4, <1>5, <1>6, <1>7 DEF ConnectionInv

LEMMA ConnectionAccept ==
  ASSUME LifeInv, NEW p \in Ports, Accept(p)
  PROVE  ConnectionInv'
<1> USE Kinds, Places
<1>1. /\ ConnectionInv /\ backlog \in [Ports -> Seq(Clients)]
      /\ accepting \in [Ports -> {"no", "pending"} \cup Clients]
  BY DEF LifeInv, TypeOK
<1>2. /\ backlog[p] # << >> /\ UNCHANGED <<shake, user>>
      /\ accepting' = [accepting EXCEPT ![p] = Head(backlog[p])]
      /\ backlog' = [backlog EXCEPT ![p] = Tail(@)]
  BY DEF Accept, chanVars
<1>3. PICK b : b = backlog[p]
  OBVIOUS
<1>4. PICK rest : rest = Tail(b)
  OBVIOUS
<1>5. /\ Head(b) = b[1] /\ b[1] \in Clients /\ 1 \in 1..Len(b)
      /\ \A i \in 1..Len(rest) : i + 1 \in 1..Len(b) /\ rest[i] = b[i + 1]
  BY <1>1, <1>2, <1>3, <1>4, HeadTail
<1>6. backlog'[p] = rest /\ accepting'[p] = b[1]
  BY <1>1, <1>2, <1>3, <1>4, <1>5
<1>7. \A i \in 1..Len(b) : /\ Port[b[i]] = p /\ shake[b[i]] = "none" /\ user[b[i]] # "new"
                           /\ \A j \in 1..Len(b) : b[i] = b[j] => i = j
  BY <1>1, <1>3 DEF ConnectionInv
<1>8. \A q \in Ports : q # p => backlog'[q] = backlog[q] /\ accepting'[q] = accepting[q]
  BY <1>1, <1>2
<1>9. ASSUME NEW i \in 1..Len(rest)
      PROVE  /\ Port[rest[i]] = p /\ b[1] # rest[i]
             /\ shake[rest[i]] = "none" /\ user[rest[i]] # "new"
  <2>1. i \in Nat /\ i + 1 # 1
    BY <1>9
  <2> QED BY <1>5, <1>7, <2>1
<1>10. ASSUME NEW i \in 1..Len(rest), NEW j \in 1..Len(rest), rest[i] = rest[j]
       PROVE  i = j
  <2>1. i + 1 = j + 1
    BY <1>5, <1>7, <1>10
  <2>2. i \in Int /\ j \in Int
    BY <1>10
  <2> QED BY <2>1, <2>2
<1>11. \A q \in Ports : \A i \in 1..Len(backlog'[q]) :
         /\ Port[backlog'[q][i]] = q /\ accepting'[q] # backlog'[q][i]
         /\ shake'[backlog'[q][i]] = "none" /\ user'[backlog'[q][i]] # "new"
         /\ \A j \in 1..Len(backlog'[q]) : backlog'[q][i] = backlog'[q][j] => i = j
  <2>1. ASSUME NEW q \in Ports, q # p, NEW i \in 1..Len(backlog'[q])
        PROVE  /\ Port[backlog'[q][i]] = q /\ accepting'[q] # backlog'[q][i]
               /\ shake'[backlog'[q][i]] = "none" /\ user'[backlog'[q][i]] # "new"
               /\ \A j \in 1..Len(backlog'[q]) : backlog'[q][i] = backlog'[q][j] => i = j
    BY <1>1, <1>2, <1>8, <2>1 DEF ConnectionInv
  <2>2. ASSUME NEW i \in 1..Len(backlog'[p])
        PROVE  /\ Port[backlog'[p][i]] = p /\ accepting'[p] # backlog'[p][i]
               /\ shake'[backlog'[p][i]] = "none" /\ user'[backlog'[p][i]] # "new"
               /\ \A j \in 1..Len(backlog'[p]) : backlog'[p][i] = backlog'[p][j] => i = j
    <3>1. i \in 1..Len(rest)
      BY <1>6, <2>2
    <3>2. /\ Port[rest[i]] = p /\ b[1] # rest[i]
          /\ shake[rest[i]] = "none" /\ user[rest[i]] # "new"
      BY <1>9, <3>1
    <3>3. \A j \in 1..Len(rest) : rest[i] = rest[j] => i = j
      BY <1>10, <3>1
    <3> QED BY <1>2, <1>6, <3>2, <3>3
  <2> QED BY <2>1, <2>2
<1>12. \A q \in Ports : accepting'[q] \in Clients =>
         /\ Port[accepting'[q]] = q
         /\ shake'[accepting'[q]] = "none" /\ user'[accepting'[q]] # "new"
  BY <1>1, <1>2, <1>5, <1>6, <1>7, <1>8 DEF ConnectionInv
<1>13. \A d \in Clients : user'[d] = "new" => shake'[d] = "none"
  BY <1>1, <1>2 DEF ConnectionInv
<1> QED BY <1>11, <1>12, <1>13 DEF ConnectionInv

LEMMA ConnectionAccepted ==
  ASSUME LifeInv, NEW p \in Ports, Accepted(p)
  PROVE  ConnectionInv'
<1> USE Kinds, Places
<1>1. /\ ConnectionInv /\ backlog \in [Ports -> Seq(Clients)]
      /\ accepting \in [Ports -> {"no", "pending"} \cup Clients]
      /\ shake \in [Clients -> {"none", "header", "body", "found", "over"}]
  BY DEF LifeInv, TypeOK
<1>2. /\ accepting[p] \in Clients /\ UNCHANGED <<backlog, user>>
      /\ shake' = [shake EXCEPT ![accepting[p]] = "header"]
      /\ \A q \in Ports : q # p => accepting'[q] = accepting[q]
      /\ accepting'[p] \in {"no", "pending"}
  BY <1>1 DEF Accepted, Restart, chanVars
<1>3. Port[accepting[p]] = p /\ user[accepting[p]] # "new"
  BY <1>1, <1>2 DEF ConnectionInv
<1>4. \A d \in Clients : d # accepting[p] => shake'[d] = shake[d]
  BY <1>1, <1>2
<1>5. \A q \in Ports : \A i \in 1..Len(backlog[q]) :
        backlog[q][i] \in Clients /\ backlog[q][i] # accepting[p]
  <2>1. ASSUME NEW q \in Ports, NEW i \in 1..Len(backlog[q])
        PROVE  backlog[q][i] \in Clients /\ backlog[q][i] # accepting[p]
    BY <1>1, <1>3, <2>1, ElementOfSeq DEF ConnectionInv
  <2> QED BY <2>1
<1>6. ASSUME NEW q \in Ports, NEW i \in 1..Len(backlog[q])
      PROVE  /\ Port[backlog[q][i]] = q /\ accepting'[q] # backlog[q][i]
             /\ shake'[backlog[q][i]] = "none" /\ user'[backlog[q][i]] # "new"
             /\ \A j \in 1..Len(backlog[q]) : backlog[q][i] = backlog[q][j] => i = j
  <2>1. accepting'[q] # backlog[q][i]
    BY <1>1, <1>2, <1>5, <1>6 DEF ConnectionInv
  <2> QED BY <1>1, <1>2, <1>4, <1>5, <1>6, <2>1 DEF ConnectionInv
<1>7. ASSUME NEW q \in Ports, accepting'[q] \in Clients
      PROVE  /\ Port[accepting'[q]] = q
             /\ shake'[accepting'[q]] = "none" /\ user'[accepting'[q]] # "new"
  <2>1. q # p /\ accepting'[q] = accepting[q]
    BY <1>2, <1>7
  <2>2. Port[accepting[q]] = q /\ shake[accepting[q]] = "none" /\ user[accepting[q]] # "new"
    BY <1>1, <1>7, <2>1 DEF ConnectionInv
  <2>3. accepting[q] # accepting[p]
    BY <1>3, <2>1, <2>2
  <2> QED BY <1>2, <1>4, <1>7, <2>1, <2>2, <2>3
<1>8. \A d \in Clients : user'[d] = "new" => shake'[d] = "none"
  BY <1>1, <1>2, <1>3, <1>4 DEF ConnectionInv
<1> QED BY <1>2, <1>6, <1>7, <1>8 DEF ConnectionInv

LEMMA ConnectionStep ==
  ASSUME LifeInv, Step
  PROVE  ConnectionInv'
<1> USE Kinds, Places
<1>1. accepting \in [Ports -> {"no", "pending"} \cup Clients]
  BY DEF LifeInv, TypeOK
<1>2. ASSUME NEW p \in Ports, Accepted(p)
      PROVE  ConnectionInv'
  BY <1>2, ConnectionAccepted
<1>3. ASSUME NEW p \in Ports, Accept(p)
      PROVE  ConnectionInv'
  BY <1>3, ConnectionAccept
<1>4. ASSUME NEW c \in Channels, Connect(c)
      PROVE  ConnectionInv'
  BY <1>4, ConnectionConnect
<1>5. ASSUME \A p \in Ports : ~Accepted(p) /\ ~Accept(p), \A c \in Channels : ~Connect(c)
      PROVE  ConnectionInv'
  <2>1. \A c \in Clients : shake[c] = "none" => shake'[c] = "none"
    BY <1>5, ShakeMoves
  <2>2. ASSUME UNCHANGED accepting
        PROVE  \A p \in Ports : accepting'[p] \in {accepting[p], "no", "pending"}
    BY <2>2
  <2>3. ASSUME NEW q \in Ports,
               \/ accepting' = [accepting EXCEPT ![q] = "pending"]
               \/ accepting' = [accepting EXCEPT ![q] = "no"]
        PROVE  \A p \in Ports : accepting'[p] \in {accepting[p], "no", "pending"}
    BY <1>1, <2>3
  <2>4. CASE \E e \in Endpoints : StartEndpoint(e)
    <3>1. UNCHANGED backlog
      BY <2>4 DEF StartEndpoint, handVars
    <3>2. UNCHANGED accepting \/ \E q \in Ports : accepting' = [accepting EXCEPT ![q] = "pending"]
      BY <2>4 DEF StartEndpoint, GetAcceptor
    <3> QED BY <2>1, <2>2, <2>3, <3>1, <3>2, ConnectionFrame
  <2>5. CASE \E q \in Ports : AcceptFails(q)
    <3>1. UNCHANGED backlog
      BY <2>5 DEF AcceptFails, handVars
    <3>2. \E q \in Ports : \/ accepting' = [accepting EXCEPT ![q] = "pending"]
                           \/ accepting' = [accepting EXCEPT ![q] = "no"]
      BY <2>5 DEF AcceptFails, Restart
    <3> QED BY <2>1, <2>3, <3>1, <3>2, ConnectionFrame
  <2>6. CASE \E c \in Channels : ThreadStep(c) \/ Drain(c)
    <3>1. UNCHANGED <<backlog, accepting>>
      BY <1>5, <2>6 DEF ThreadStep, Ask, TakeFuture, GetSocket, Close, Remove, Unlock, Drain,
                        ioVars, handVars
    <3> QED BY <2>1, <2>2, <3>1, ConnectionFrame
  <2>7. CASE \E c \in Clients : Handler(c)
    <3>1. UNCHANGED <<backlog, accepting>>
      BY <2>7 DEF Handler, SendNames, ReadHeader, ReadBody, HandOver, ShortBody, Reset,
                  ioVars, handVars
    <3> QED BY <2>1, <2>2, <3>1, ConnectionFrame
  <2>8. CASE Shutdown
    <3>1. UNCHANGED <<backlog, accepting>>
      BY <2>8 DEF Shutdown, StopEndpoint, StopReturns, StopService, Destroy, Await,
                  JoinThreads, Halt, CloseHandle, ioVars, handVars
    <3> QED BY <2>1, <2>2, <3>1, ConnectionFrame
  <2> QED BY <1>5, <2>4, <2>5, <2>6, <2>7, <2>8 DEF Step
<1> QED BY <1>2, <1>3, <1>4, <1>5

(***************************************************************************)
(* Sockets in entries, and entries of those who wait.                      *)
(***************************************************************************)

(* Whatever a step files, it files the socket of a client whose names have *)
(* been read, under them or what is left of them.                          *)
LEMMA StepFiles ==
  ASSUME LifeInv, Step
  PROVE  /\ PromsType'
         /\ \E x, p, t : /\ Files(x, p, t)
                         /\ x # None => /\ x \in Clients /\ p = Port[x] /\ shake'[x] = "over"
                                        /\ \/ t = Tag[x]
                                           \/ "short" \in Faults /\ t = CutTag[x]
<1> DEFINE Filing == \E x, p, t :
      /\ Files(x, p, t)
      /\ x # None => /\ x \in Clients /\ p = Port[x] /\ shake'[x] = "over"
                     /\ t = Tag[x] \/ ("short" \in Faults /\ t = CutTag[x])
<1> USE Kinds, Places, TagsOf
<1>1. /\ PromsType /\ stale \subseteq Channels
      /\ shake \in [Clients -> {"none", "header", "body", "found", "over"}]
  BY TypeProms DEF LifeInv, TypeOK
<1>2. CASE UNCHANGED proms
  <2>1. PromsType' /\ Files(None, 0, 0)
    BY <1>1, <1>2, EntriesKept
  <2> QED BY <2>1
<1>3. ASSUME NEW h \in Channels, Ask(h)
      PROVE  PromsType' /\ Filing
  <2>1. PromsType' /\ Files(None, Port[h], Tag[h])
    BY <1>1, <1>3, Emplaced DEF Ask
  <2> QED BY <2>1
<1>4. ASSUME NEW h \in Channels, TakeFuture(h)
      PROVE  PromsType' /\ Filing
  <2>1. h \in Hosts /\ proms[Port[h]][Tag[h]] # << >>
    BY <1>4 DEF TakeFuture, LifeInv, SlotInv
  <2>2. PromsType' /\ Files(None, Port[h], Tag[h])
    BY <1>1, <1>4, <2>1, FutureTaken
  <2> QED BY <2>2
<1>5. ASSUME NEW c \in Clients, ReadBody(c)
      PROVE  PromsType' /\ Filing
  <2>1. PromsType' /\ Files(None, Port[c], Tag[c])
    BY <1>1, <1>5, Emplaced DEF ReadBody
  <2> QED BY <2>1
<1>6. ASSUME NEW c \in Clients, HandOver(c)
      PROVE  PromsType' /\ Filing
  <2>1. proms[Port[c]][Tag[c]] # << >>
    BY <1>6 DEF HandOver, LifeInv, SlotInv
  <2>2. PromsType' /\ Files(c, Port[c], Tag[c])
    BY <1>1, <1>6, <2>1, PromiseKept
  <2>3. shake'[c] = "over"
    BY <1>1, <1>6 DEF HandOver
  <2> QED BY <2>2, <2>3
<1>7. ASSUME NEW c \in Clients, ShortBody(c)
      PROVE  PromsType' /\ Filing
  <2>1. PromsType' /\ Files(c, Port[c], CutTag[c])
    BY <1>1, <1>7, PromiseCut
  <2>2. shake'[c] = "over" /\ "short" \in Faults
    BY <1>1, <1>7 DEF ShortBody
  <2> QED BY <2>1, <2>2
<1>8. CASE \E c \in Channels : \/ Connect(c) \/ GetSocket(c) \/ Close(c) \/ Remove(c)
                               \/ Unlock(c) \/ Drain(c)
  BY <1>2, <1>8 DEF Connect, GetSocket, Close, Remove, Unlock, Drain, handVars
<1>9. CASE \E c \in Clients : SendNames(c) \/ ReadHeader(c) \/ Reset(c)
  BY <1>2, <1>9 DEF SendNames, ReadHeader, Reset, handVars
<1>10. CASE \E p \in Ports : Accept(p) \/ Accepted(p) \/ AcceptFails(p)
  BY <1>2, <1>10 DEF Accept, Accepted, AcceptFails, handVars
<1>11. CASE Shutdown
  BY <1>2, <1>11 DEF Shutdown, StopEndpoint, StopReturns, StopService, Destroy, Await,
                    JoinThreads, Halt, CloseHandle, handVars
<1>12. CASE \E e \in Endpoints : StartEndpoint(e)
  BY <1>2, <1>12 DEF StartEndpoint, handVars
<1> QED BY <1>3, <1>4, <1>5, <1>6, <1>7, <1>8, <1>9, <1>10, <1>11, <1>12
        DEF Step, ThreadStep, Handler

LEMMA FiledStep ==
  ASSUME LifeInv, Step
  PROVE  FiledInv'
<1>1. PromsType' /\ FiledInv
  BY StepFiles DEF LifeInv
<1>2. PICK x, p, t :
        /\ Files(x, p, t)
        /\ x # None => /\ x \in Clients /\ p = Port[x] /\ shake'[x] = "over"
                       /\ t = Tag[x] \/ ("short" \in Faults /\ t = CutTag[x])
  BY StepFiles
<1>3. ASSUME NEW q \in Ports, NEW u \in Tags, NEW i \in 1..Len(proms'[q][u]),
             proms'[q][u][i].socket # None
      PROVE  /\ Port[proms'[q][u][i].socket] = q /\ shake'[proms'[q][u][i].socket] = "over"
             /\ \/ u = Tag[proms'[q][u][i].socket]
                \/ "short" \in Faults /\ u = CutTag[proms'[q][u][i].socket]
  <2>1. \/ i \in 1..Len(proms[q][u]) /\ proms'[q][u][i].socket = proms[q][u][i].socket
        \/ q = p /\ u = t /\ proms'[q][u][i].socket = x
    BY <1>2, <1>3 DEF Files, Longer
  <2>2. CASE i \in 1..Len(proms[q][u]) /\ proms'[q][u][i].socket = proms[q][u][i].socket
    <3>1. /\ Port[proms[q][u][i].socket] = q /\ shake[proms[q][u][i].socket] = "over"
          /\ \/ u = Tag[proms[q][u][i].socket]
             \/ "short" \in Faults /\ u = CutTag[proms[q][u][i].socket]
      BY <1>1, <1>3, <2>2 DEF FiledInv, Filed
    <3>2. proms[q][u][i].socket \in Clients
      <4>1. proms[q][u] \in Seq(Entry)
        BY TypeProms DEF LifeInv, PromsType
      <4>2. proms[q][u][i] \in Entry
        BY <2>2, <4>1, ElementOfSeq
      <4> QED BY <1>3, <2>2, <4>2 DEF Entry
    <3> QED BY <2>2, <3>1, <3>2, ShakeMoves
  <2>3. CASE q = p /\ u = t /\ proms'[q][u][i].socket = x
    BY <1>2, <1>3, <2>3
  <2> QED BY <2>1, <2>2, <2>3
<1> QED BY <1>3 DEF FiledInv, Filed

(* Who of the hosts asks, waits and gets its socket.                       *)
LEMMA HostMoves ==
  ASSUME LifeInv, Step, NEW h \in Hosts
  PROVE  /\ ~Ask(h) => (user'[h] = "asked" => user[h] = "asked")
         /\ ~TakeFuture(h) => (user'[h] = "waiting" => user[h] = "waiting" /\ slot'[h] = slot[h])
         /\ ~GetSocket(h) => (Added(h)' => Added(h)) /\ socket'[h] = socket[h]
<1> USE Kinds, Places, TagsOf
<1> DEFINE Moves == /\ user'[h] = "asked" => user[h] = "asked"
                    /\ user'[h] = "waiting" => user[h] = "waiting" /\ slot'[h] = slot[h]
                    /\ Added(h)' => Added(h)
                    /\ socket'[h] = socket[h]
<1>1. /\ user \in [Channels -> {"new", "asked", "waiting", "open", "closing", "drained",
                                "leaving", "closed"}]
      /\ slot \in [Hosts -> Nat] /\ socket \in [Hosts -> Clients \cup {None}]
      /\ TypeOK
  BY DEF LifeInv, TypeOK
<1>2. CASE UNCHANGED <<user, slot, socket>>
  BY <1>2 DEF Added
<1>3. ASSUME NEW c \in Channels, Ask(c)
      PROVE  /\ ~Ask(h) => (user'[h] = "asked" => user[h] = "asked")
             /\ user'[h] = "waiting" => user[h] = "waiting" /\ slot'[h] = slot[h]
             /\ (Added(h)' => Added(h)) /\ socket'[h] = socket[h]
  <2>1. UNCHANGED <<slot, socket>> /\ user' = [user EXCEPT ![c] = "asked"]
    BY <1>3 DEF Ask
  <2> QED BY <1>1, <1>3, <2>1 DEF Added
<1>4. ASSUME NEW c \in Channels, TakeFuture(c)
      PROVE  /\ user'[h] = "asked" => user[h] = "asked"
             /\ ~TakeFuture(h) => (user'[h] = "waiting" => user[h] = "waiting" /\ slot'[h] = slot[h])
             /\ (Added(h)' => Added(h)) /\ socket'[h] = socket[h]
  <2>1. UNCHANGED socket
    BY <1>4 DEF TakeFuture
  <2>2. \/ UNCHANGED <<user, slot>>
        \/ /\ user' = [user EXCEPT ![c] = "waiting"]
           /\ c # h => slot'[h] = slot[h]
    BY <1>1, <1>4 DEF TakeFuture
  <2> QED BY <1>1, <1>4, <2>1, <2>2 DEF Added
<1>5. ASSUME NEW c \in Channels, GetSocket(c)
      PROVE  /\ user'[h] = "asked" => user[h] = "asked"
             /\ user'[h] = "waiting" => user[h] = "waiting" /\ slot'[h] = slot[h]
             /\ ~GetSocket(h) => (Added(h)' => Added(h)) /\ socket'[h] = socket[h]
  <2>1. /\ UNCHANGED slot /\ user' = [user EXCEPT ![c] = "open"]
        /\ c # h => socket'[h] = socket[h]
    BY <1>1, <1>5 DEF GetSocket
  <2> QED BY <1>1, <1>5, <2>1 DEF Added
<1>6. ASSUME NEW c \in Channels, UNCHANGED <<slot, socket>>,
             \/ c # h /\ \E new : user' = [user EXCEPT ![c] = new]
             \/ Added(c) /\ \E new \in {"closing", "drained", "leaving", "closed"} :
                              user' = [user EXCEPT ![c] = new]
      PROVE  Moves
  BY <1>1, <1>6 DEF Added
<1>7. ASSUME NEW c \in Channels, \/ Connect(c) \/ Close(c) \/ Remove(c) \/ Unlock(c) \/ Drain(c)
      PROVE  Moves
  <2>1. CASE Connect(c)
    <3>1. c # h /\ UNCHANGED <<slot, socket>> /\ user' = [user EXCEPT ![c] = "open"]
      BY <2>1 DEF Connect
    <3> QED BY <1>6, <3>1
  <2>2. CASE Close(c)
    BY <1>6, <2>2 DEF Close, Added
  <2>3. CASE Remove(c)
    BY <1>6, <2>3 DEF Remove, Added
  <2>4. CASE Unlock(c)
    BY <1>6, <2>4 DEF Unlock, Added
  <2>5. CASE Drain(c)
    BY <1>6, <2>5 DEF Drain, Added
  <2> QED BY <1>7, <2>1, <2>2, <2>3, <2>4, <2>5
<1>8. CASE \E e \in Endpoints : StartEndpoint(e)
  BY <1>2, <1>8 DEF StartEndpoint, chanVars
<1>9. CASE \E d \in Clients : Handler(d)
  BY <1>2, <1>9 DEF Handler, SendNames, ReadHeader, ReadBody, HandOver, ShortBody, Reset, chanVars
<1>10. CASE \E p \in Ports : Accept(p) \/ Accepted(p) \/ AcceptFails(p)
  BY <1>2, <1>10 DEF Accept, Accepted, AcceptFails, chanVars
<1>11. CASE Shutdown
  BY <1>2, <1>11 DEF Shutdown, StopEndpoint, StopReturns, StopService, Destroy, Await,
                    JoinThreads, Halt, CloseHandle, chanVars
<1> QED BY <1>2, <1>3, <1>4, <1>5, <1>7, <1>8, <1>9, <1>10, <1>11 DEF Step, ThreadStep

LEMMA SlotStep ==
  ASSUME LifeInv, Step
  PROVE  SlotInv'
<1> USE Kinds, Places, TagsOf
<1>1. /\ SlotInv /\ TypeOK /\ FiledInv /\ PromsType /\ stale \subseteq Channels
      /\ slot \in [Hosts -> Nat] /\ socket \in [Hosts -> Clients \cup {None}]
      /\ shake \in [Clients -> {"none", "header", "body", "found", "over"}]
      /\ user \in [Channels -> {"new", "asked", "waiting", "open", "closing", "drained",
                                "leaving", "closed"}]
  BY TypeProms DEF LifeInv, TypeOK
<1>2. \A p \in Ports, t \in Tags :
        /\ Len(proms[p][t]) <= Len(proms'[p][t])
        /\ Len(proms[p][t]) \in Nat /\ Len(proms'[p][t]) \in Nat
        /\ proms[p][t] # << >> => proms'[p][t] # << >>
  <2>1. PromsType'
    BY StepFiles
  <2>2. ASSUME NEW p \in Ports, NEW t \in Tags
        PROVE  proms[p][t] \in Seq(Entry) /\ proms'[p][t] \in Seq(Entry)
    BY <1>1, <2>1 DEF PromsType
  <2>3. \A p \in Ports, t \in Tags : Len(proms[p][t]) <= Len(proms'[p][t])
    BY StepFiles DEF Files, Longer
  <2>4. ASSUME NEW p \in Ports, NEW t \in Tags, proms[p][t] # << >>
        PROVE  proms'[p][t] # << >>
    <3>1. Len(proms[p][t]) # 0 /\ Len(proms[p][t]) \in Nat
      BY <2>2, <2>4, EmptySeq
    <3>2. Len(proms'[p][t]) # 0
      BY <2>2, <2>3, <3>1
    <3> QED BY <3>2
  <2> QED BY <2>2, <2>3, <2>4
<1>3. ASSUME NEW h \in Hosts, user'[h] = "asked"
      PROVE  proms'[Port[h]][Tag[h]] # << >>
  <2>1. CASE Ask(h)
    BY <1>1, <2>1, Emplaced DEF Ask
  <2>2. CASE ~Ask(h)
    BY <1>1, <1>2, <1>3, <2>2, HostMoves DEF SlotInv
  <2> QED BY <2>1, <2>2
<1>4. ASSUME NEW h \in Hosts, user'[h] = "waiting"
      PROVE  slot'[h] \in 1..Len(proms'[Port[h]][Tag[h]])
  <2>1. CASE TakeFuture(h)
    <3>1. proms[Port[h]][Tag[h]] # << >> /\ user[h] = "asked"
      BY <1>1, <2>1 DEF TakeFuture, SlotInv
    <3>2. \E s \in Found(h, Port[h], Tag[h]) :
            /\ slot' = [slot EXCEPT ![h] = Len(s)]
            /\ Len(s) \in 1..Len(proms'[Port[h]][Tag[h]])
      BY <1>1, <1>4, <2>1, <3>1, FutureTaken
    <3> QED BY <1>1, <3>2
  <2>2. CASE ~TakeFuture(h)
    <3>1. slot'[h] = slot[h] /\ slot[h] \in 1..Len(proms[Port[h]][Tag[h]])
      BY <1>1, <1>4, <2>2, HostMoves DEF SlotInv
    <3> QED BY <1>2, <3>1
  <2> QED BY <2>1, <2>2
<1>5. ASSUME NEW h \in Hosts
      PROVE  IF Added(h)' THEN HasSocket(h)' ELSE socket'[h] = None
  <2>1. CASE GetSocket(h)
    <3>1. PICK x : x = proms[Port[h]][Tag[h]][slot[h]]
      OBVIOUS
    <3>2. /\ user[h] = "waiting" /\ x.socket # None
          /\ socket'[h] = x.socket /\ user'[h] = "open" /\ UNCHANGED shake
      BY <1>1, <2>1, <3>1 DEF GetSocket, handVars
    <3>3. slot[h] \in 1..Len(proms[Port[h]][Tag[h]]) /\ proms[Port[h]][Tag[h]] \in Seq(Entry)
      BY <1>1, <3>2 DEF SlotInv, PromsType
    <3>4. x.socket \in Clients
      <4>1. x \in Entry
        BY <3>1, <3>3, ElementOfSeq
      <4> QED BY <3>2, <4>1 DEF Entry
    <3>5. Filed(Port[h], Tag[h], x)
      BY <1>1, <3>1, <3>3 DEF FiledInv
    <3>6. Port[x.socket] = Port[h] /\ shake[x.socket] = "over" /\ Tag[h] = Tag[x.socket]
      BY <3>2, <3>4, <3>5, CutAssumption DEF Filed
    <3> QED BY <3>2, <3>4, <3>6 DEF Added, HasSocket
  <2>2. CASE ~GetSocket(h)
    <3>1. socket'[h] = socket[h] /\ (Added(h)' <=> Added(h))
      BY <2>2, HostMoves, UserMoves
    <3>2. HasSocket(h) => HasSocket(h)'
      BY <3>1, ShakeMoves DEF HasSocket
    <3> QED BY <1>1, <3>1, <3>2 DEF SlotInv
  <2> QED BY <2>1, <2>2
<1>6. ASSUME NEW c \in Clients, shake'[c] = "found"
      PROVE  proms'[Port[c]][Tag[c]] # << >>
  <2>1. CASE ReadBody(c)
    BY <1>1, <2>1, Emplaced DEF ReadBody
  <2>2. CASE ~ReadBody(c)
    <3>1. shake[c] = "found"
      <4>1. CASE \E d \in Clients : ReadBody(d)
        <5>1. PICK d \in Clients : ReadBody(d)
          BY <4>1
        <5>2. d # c /\ shake' = [shake EXCEPT ![d] = "found"]
          BY <2>2, <5>1 DEF ReadBody
        <5> QED BY <1>1, <1>6, <5>2
      <4>2. CASE ~\E d \in Clients : ReadBody(d)
        BY <1>6, <4>2, ShakeMoves
      <4> QED BY <4>1, <4>2
    <3> QED BY <1>1, <1>2, <3>1 DEF SlotInv
  <2> QED BY <2>1, <2>2
<1> QED BY <1>3, <1>4, <1>5, <1>6 DEF SlotInv

(***************************************************************************)
(* The lists of the endpoints.                                             *)
(***************************************************************************)

LEMMA ErasedSelf ==
  ASSUME LifeInv, NEW c \in Channels, c \in mChannels
  PROVE  Erased(c) = {c}
<1>1. ListInv /\ mChannels \subseteq Channels
  BY DEF LifeInv, TypeOK
<1>2. before[c] \cap mChannels = {}
  BY <1>1 DEF ListInv
<1>3. \A d \in Erased(c) : d = c
  BY <1>1, LocalNamesAssumption DEF Erased
<1>4. c \in Erased(c)
  BY <1>2 DEF Erased
<1> QED BY <1>3, <1>4

InUse(u) == {c \in Channels : u[c] \notin {"new", "leaving", "closed"}}

LEMMA ListStep ==
  ASSUME LifeInv, Step
  PROVE  ListInv'
<1> USE Kinds
<1>1. /\ mChannels = InUse(user) /\ mChannels \subseteq Channels
      /\ \A c \in Channels : before[c] = {}
      /\ before \in [Channels -> SUBSET Channels]
      /\ user \in [Channels -> {"new", "asked", "waiting", "open", "closing", "drained",
                                "leaving", "closed"}]
  BY DEF LifeInv, TypeOK, ListInv, InUse
<1>2. SUFFICES mChannels' = InUse(user') /\ \A c \in Channels : before'[c] = {}
  BY DEF ListInv, InUse
<1>3. CASE UNCHANGED <<mChannels, user, before>>
  BY <1>1, <1>3
<1>4. ASSUME NEW c \in Channels, AppendChannel(c), NEW new \in {"asked", "open"},
             user' = [user EXCEPT ![c] = new]
      PROVE  mChannels' = InUse(user') /\ \A d \in Channels : before'[d] = {}
  <2>1. user[c] = "new" /\ mChannels' = mChannels \cup {c} /\ c \notin mChannels
    BY <1>1, <1>4 DEF AppendChannel, InUse
  <2>2. mChannels' = InUse(user')
    BY <1>1, <1>4, <2>1 DEF InUse
  <2>3. {d \in mChannels \cap ChannelsOf[Channel[c].endpoint] :
           Channel[d].local = Channel[c].local} = {}
    BY <1>1, <2>1, Places, LocalNamesAssumption
  <2>4. before' = [before EXCEPT ![c] = {}]
    BY <1>4, <2>3 DEF AppendChannel
  <2> QED BY <1>1, <2>2, <2>4
<1>5. ASSUME NEW c \in Channels, UNCHANGED <<mChannels, before>>, NEW old, NEW new,
             user[c] = old, user' = [user EXCEPT ![c] = new],
             <<old, new>> \in {<<"asked", "waiting">>, <<"waiting", "open">>,
                               <<"open", "closing">>, <<"closing", "drained">>,
                               <<"leaving", "closed">>}
      PROVE  mChannels' = InUse(user') /\ \A d \in Channels : before'[d] = {}
  <2>1. old \in {"new", "leaving", "closed"} <=> new \in {"new", "leaving", "closed"}
    BY <1>5
  <2>2. \A d \in Channels : user'[d] = IF d = c THEN new ELSE user[d]
    BY <1>1, <1>5
  <2>3. InUse(user') = InUse(user)
    BY <1>5, <2>1, <2>2 DEF InUse
  <2> QED BY <1>1, <1>5, <2>3
<1>6. ASSUME NEW c \in Channels, ThreadStep(c) \/ Drain(c)
      PROVE  mChannels' = InUse(user') /\ \A d \in Channels : before'[d] = {}
  <2>1. CASE Connect(c)
    BY <1>4, <2>1 DEF Connect
  <2>2. CASE Ask(c)
    BY <1>4, <2>2 DEF Ask
  <2>3. CASE TakeFuture(c)
    <3>1. /\ user[c] = "asked" /\ (user' = [user EXCEPT ![c] = "waiting"] \/ UNCHANGED user)
          /\ UNCHANGED <<mChannels, before>>
      BY <2>3 DEF TakeFuture
    <3> QED BY <1>3, <1>5, <3>1
  <2>4. CASE GetSocket(c)
    BY <1>5, <2>4 DEF GetSocket
  <2>5. CASE Close(c)
    BY <1>5, <2>5 DEF Close
  <2>6. CASE Remove(c)
    <3>1. /\ user[c] = "drained" /\ user' = [user EXCEPT ![c] = "leaving"]
          /\ mChannels' = mChannels \ Erased(c) /\ UNCHANGED before
      BY <2>6 DEF Remove
    <3>2. c \in mChannels
      BY <1>1, <3>1 DEF InUse
    <3>3. mChannels' = mChannels \ {c}
      BY <3>1, <3>2, ErasedSelf
    <3> QED BY <1>1, <3>1, <3>3 DEF InUse
  <2>7. CASE Unlock(c)
    BY <1>5, <2>7 DEF Unlock
  <2>8. CASE Drain(c)
    BY <1>5, <2>8 DEF Drain
  <2> QED BY <1>6, <2>1, <2>2, <2>3, <2>4, <2>5, <2>6, <2>7, <2>8 DEF ThreadStep
<1>7. CASE \E e \in Endpoints : StartEndpoint(e)
  BY <1>3, <1>7 DEF StartEndpoint, chanVars
<1>8. CASE \E d \in Clients : Handler(d)
  BY <1>3, <1>8 DEF Handler, SendNames, ReadHeader, ReadBody, HandOver, ShortBody, Reset, chanVars
<1>9. CASE \E p \in Ports : Accept(p) \/ Accepted(p) \/ AcceptFails(p)
  BY <1>3, <1>9 DEF Accept, Accepted, AcceptFails, chanVars
<1>10. CASE Shutdown
  BY <1>3, <1>10 DEF Shutdown, StopEndpoint, StopReturns, StopService, Destroy, Await,
                    JoinThreads, Halt, CloseHandle, chanVars
<1> QED BY <1>6, <1>7, <1>8, <1>9, <1>10 DEF Step

(* The last channel of an endpoint that was stopped keeps its promise.     *)
LEMMA DoneStep ==
  ASSUME LifeInv, Step
  PROVE  DoneMeansEmpty'
<1> USE Kinds, Places
<1>1. /\ DoneMeansEmpty /\ StopInv /\ mChannels = InUse(user)
      /\ ep \in [Endpoints -> {"new", "started", "stopping", "stopped"}]
      /\ done \in [Endpoints -> BOOLEAN]
  BY DEF LifeInv, TypeOK, ListInv, InUse
<1>2. \A c \in Channels : Ended(c) => Ended(c)'
  BY UserMoves
<1>3. ASSUME NEW e \in Endpoints, done'[e] => done[e], Stopping(e) => Stopping(e)', done'[e]
      PROVE  Stopping(e)' /\ \A c \in ChannelsOf[e] : Ended(c)'
  BY <1>1, <1>2, <1>3 DEF DoneMeansEmpty, Ended
<1>4. CASE UNCHANGED <<ep, done>>
  BY <1>3, <1>4 DEF DoneMeansEmpty, Ended, Stopping
<1>5. ASSUME NEW e \in Endpoints, StartEndpoint(e) \/ StopReturns(e)
      PROVE  DoneMeansEmpty'
  <2>1. /\ UNCHANGED done
        /\ \A d \in Endpoints : Stopping(d) => Stopping(d)'
    BY <1>1, <1>5 DEF StartEndpoint, StopReturns, Stopping
  <2> QED BY <1>3, <2>1 DEF DoneMeansEmpty, Ended
<1>6. ASSUME NEW e \in Endpoints, StopEndpoint(e)
      PROVE  DoneMeansEmpty'
  <2>1. /\ ep' = [ep EXCEPT ![e] = "stopping"] /\ UNCHANGED user
        /\ done' = [done EXCEPT ![e] = @ \/ ChannelsOf[e] \cap mChannels = {}]
        /\ \A c \in ChannelsOf[e] : Added(c)
    BY <1>6 DEF StopEndpoint, chanVars
  <2>2. \A d \in Endpoints : Stopping(d) => Stopping(d)'
    BY <1>1, <2>1 DEF Stopping
  <2>3. ASSUME NEW d \in Endpoints, d # e, done'[d]
        PROVE  Stopping(d)' /\ \A c \in ChannelsOf[d] : Ended(c)'
    <3>1. done'[d] = done[d]
      BY <1>1, <2>1, <2>3
    <3> QED BY <1>3, <2>2, <2>3, <3>1
  <2>4. done'[e] => done[e] \/ ChannelsOf[e] \cap mChannels = {}
    BY <1>1, <2>1
  <2>5. ASSUME done'[e]
        PROVE  Stopping(e)' /\ \A c \in ChannelsOf[e] : Ended(c)'
    <3>1. Stopping(e)'
      BY <1>1, <2>1 DEF Stopping
    <3>2. CASE done[e]
      BY <1>1, <1>2, <3>1, <3>2 DEF DoneMeansEmpty, Ended
    <3>3. CASE ChannelsOf[e] \cap mChannels = {}
      <4>1. \A c \in ChannelsOf[e] : Ended(c)
        BY <1>1, <2>1, <3>3 DEF InUse, Added, Ended
      <4> QED BY <1>2, <3>1, <4>1
    <3> QED BY <2>4, <2>5, <3>2, <3>3
  <2> QED BY <2>3, <2>5 DEF DoneMeansEmpty, Ended
<1>7. ASSUME NEW x \in Channels, Remove(x)
      PROVE  DoneMeansEmpty'
  <2> DEFINE f == Channel[x].endpoint
  <2>1. /\ user[x] = "drained" /\ user' = [user EXCEPT ![x] = "leaving"]
        /\ done' = [done EXCEPT ![f] = @ \/ IsLast(x)] /\ UNCHANGED ep
    BY <1>7 DEF Remove
  <2>2. \A d \in Endpoints : Stopping(d) => Stopping(d)'
    BY <2>1 DEF Stopping
  <2>3. ASSUME NEW d \in Endpoints, d # f, done'[d]
        PROVE  Stopping(d)' /\ \A c \in ChannelsOf[d] : Ended(c)'
    <3>1. done'[d] = done[d]
      BY <1>1, <2>1, <2>3
    <3> QED BY <1>3, <2>2, <2>3, <3>1
  <2>4. ASSUME done'[f]
        PROVE  Stopping(f)' /\ \A c \in ChannelsOf[f] : Ended(c)'
    <3>1. CASE done[f]
      BY <1>1, <1>2, <2>2, <3>1 DEF DoneMeansEmpty, Ended
    <3>2. CASE IsLast(x)
      <4>1. x \in mChannels
        BY <1>1, <2>1 DEF InUse
      <4>2. Stopping(f) /\ ChannelsOf[f] \cap (mChannels \ {x}) = {}
        BY <3>2, <4>1, ErasedSelf DEF IsLast
      <4>3. \A c \in ChannelsOf[f] : Added(c)
        BY <1>1, <4>2 DEF StopInv
      <4>4. \A c \in ChannelsOf[f] : c # x => Ended(c)
        BY <1>1, <4>2, <4>3 DEF InUse, Added, Ended
      <4>5. Ended(x)'
        <5>1. user \in [Channels -> {"new", "asked", "waiting", "open", "closing", "drained",
                                     "leaving", "closed"}]
          BY DEF LifeInv, TypeOK
        <5> QED BY <2>1, <5>1 DEF Ended
      <4> QED BY <1>2, <2>2, <4>2, <4>4, <4>5
    <3>3. done'[f] => done[f] \/ IsLast(x)
      BY <1>1, <2>1
    <3> QED BY <2>4, <3>1, <3>2, <3>3
  <2> HIDE DEF f
  <2> QED BY <2>3, <2>4 DEF DoneMeansEmpty, Ended
<1>8. CASE \E c \in Channels : \/ Connect(c) \/ Ask(c) \/ TakeFuture(c) \/ GetSocket(c)
                               \/ Close(c) \/ Unlock(c) \/ Drain(c)
  BY <1>4, <1>8 DEF Connect, Ask, TakeFuture, GetSocket, Close, Unlock, Drain, epVars
<1>9. CASE \E d \in Clients : Handler(d)
  BY <1>4, <1>9 DEF Handler, SendNames, ReadHeader, ReadBody, HandOver, ShortBody, Reset, epVars
<1>10. CASE \E p \in Ports : Accept(p) \/ Accepted(p) \/ AcceptFails(p)
  BY <1>4, <1>10 DEF Accept, Accepted, AcceptFails, epVars
<1>11. CASE \/ \E s \in Services : StopService(s) \/ Destroy(s) \/ Await(s) \/ JoinThreads(s)
            \/ \E p \in Ports : Halt(p) \/ CloseHandle(p)
  BY <1>4, <1>11 DEF StopService, Destroy, Await, JoinThreads, Halt, CloseHandle, epVars
<1> QED BY <1>5, <1>6, <1>7, <1>8, <1>9, <1>10, <1>11 DEF Step, Shutdown, ThreadStep

(***************************************************************************)
(* The shutdown of endpoints, services and acceptors.                      *)
(***************************************************************************)

LEMMA StageMoves ==
  ASSUME LifeInv, Step
  PROVE  /\ \A e \in Endpoints : done[e] => done'[e]
         /\ \A e \in Endpoints : ep[e] = "stopped" => ep'[e] = "stopped"
         /\ \A e \in Endpoints : Stopping(e)' => \/ Stopping(e)
                                                 \/ \A c \in ChannelsOf[e] : Added(c)
         /\ \A e \in Endpoints : ep'[e] = "stopped" => ep[e] = "stopped" \/ done[e]
         /\ \A s \in Services : svc'[s] # svc[s] => svc'[s] # "up"
         /\ \A s \in Services : svc'[s] # svc[s] => svc[s] # "up" \/ StopService(s)
<1> USE Kinds, Places
<1>1. /\ ep \in [Endpoints -> {"new", "started", "stopping", "stopped"}]
      /\ done \in [Endpoints -> BOOLEAN]
      /\ svc \in [Services -> {"up", "closing", "waiting", "joining", "down"}]
  BY DEF LifeInv, TypeOK
<1> DEFINE EpMoves ==
      /\ \A e \in Endpoints : done[e] => done'[e]
      /\ \A e \in Endpoints : ep[e] = "stopped" => ep'[e] = "stopped"
      /\ \A e \in Endpoints : Stopping(e)' => \/ Stopping(e)
                                              \/ \A c \in ChannelsOf[e] : Added(c)
      /\ \A e \in Endpoints : ep'[e] = "stopped" => ep[e] = "stopped" \/ done[e]
<1> DEFINE SvcMoves ==
      /\ \A s \in Services : svc'[s] # svc[s] => svc'[s] # "up"
      /\ \A s \in Services : svc'[s] # svc[s] => svc[s] # "up" \/ StopService(s)
<1>2. UNCHANGED epVars => EpMoves
  BY DEF epVars, Stopping
<1>3. UNCHANGED svc => SvcMoves
  OBVIOUS
<1>4. ASSUME NEW c \in Channels, ThreadStep(c) \/ Drain(c)
      PROVE  EpMoves /\ UNCHANGED svc
  <2>1. CASE Remove(c)
    <3>1. UNCHANGED ep /\ \A e \in Endpoints : done[e] => done'[e]
      BY <1>1, <2>1 DEF Remove
    <3> QED BY <2>1, <3>1 DEF Remove, ioVars, Stopping
  <2>2. CASE Connect(c) \/ Ask(c) \/ TakeFuture(c) \/ GetSocket(c) \/ Close(c) \/ Unlock(c) \/ Drain(c)
    <3>1. UNCHANGED <<epVars, svc>>
      BY <2>2 DEF Connect, Ask, TakeFuture, GetSocket, Close, Unlock, Drain, ioVars
    <3> QED BY <1>2, <3>1
  <2> QED BY <1>4, <2>1, <2>2 DEF ThreadStep
<1>5. ASSUME \E d \in Clients : Handler(d)
      PROVE  EpMoves /\ SvcMoves
  <2>1. UNCHANGED <<epVars, svc>>
    BY <1>5 DEF Handler, SendNames, ReadHeader, ReadBody, HandOver, ShortBody, Reset, ioVars
  <2> QED BY <1>2, <1>3, <2>1
<1>6. ASSUME \E p \in Ports : Accept(p) \/ Accepted(p) \/ AcceptFails(p)
      PROVE  EpMoves /\ SvcMoves
  <2>1. UNCHANGED <<epVars, svc>>
    BY <1>6 DEF Accept, Accepted, AcceptFails
  <2> QED BY <1>2, <1>3, <2>1
<1>7. ASSUME NEW e \in Endpoints, StartEndpoint(e) \/ StopEndpoint(e) \/ StopReturns(e)
      PROVE  EpMoves /\ UNCHANGED svc
  <2>1. CASE StartEndpoint(e)
    BY <1>1, <2>1 DEF StartEndpoint, Stopping
  <2>2. CASE StopEndpoint(e)
    BY <1>1, <2>2 DEF StopEndpoint, Stopping, ioVars
  <2>3. CASE StopReturns(e)
    BY <1>1, <2>3 DEF StopReturns, Stopping, ioVars
  <2> QED BY <1>7, <2>1, <2>2, <2>3
<1>8. ASSUME NEW s \in Services, StopService(s) \/ Destroy(s) \/ Await(s) \/ JoinThreads(s)
      PROVE  UNCHANGED epVars /\ SvcMoves
  <2>1. CASE StopService(s)
    <3>1. svc' = [svc EXCEPT ![s] = "closing"] /\ UNCHANGED epVars
      BY <2>1 DEF StopService
    <3>2. \A r \in Services : r # s => svc'[r] = svc[r]
      BY <1>1, <3>1
    <3>3. svc'[s] # "up"
      BY <1>1, <3>1
    <3> QED BY <2>1, <3>1, <3>2, <3>3
  <2>2. CASE Destroy(s)
    BY <1>1, <2>2 DEF Destroy
  <2>3. CASE Await(s)
    BY <1>1, <2>3 DEF Await
  <2>4. CASE JoinThreads(s)
    BY <1>1, <2>4 DEF JoinThreads
  <2> QED BY <1>8, <2>1, <2>2, <2>3, <2>4
<1>9. ASSUME \E p \in Ports : Halt(p) \/ CloseHandle(p)
      PROVE  EpMoves /\ SvcMoves
  <2>1. UNCHANGED <<epVars, svc>>
    BY <1>9 DEF Halt, CloseHandle
  <2> QED BY <1>2, <1>3, <2>1
<1> HIDE DEF EpMoves, SvcMoves
<1>10. EpMoves /\ SvcMoves
  <2>1. CASE Shutdown
    BY <1>2, <1>3, <1>7, <1>8, <1>9, <2>1 DEF Shutdown
  <2>2. CASE \E e \in Endpoints : StartEndpoint(e)
    BY <1>3, <1>7, <2>2
  <2>3. CASE \E c \in Channels : ThreadStep(c) \/ Drain(c)
    BY <1>3, <1>4, <2>3
  <2> QED BY <1>2, <1>3, <1>5, <1>6, <2>1, <2>2, <2>3 DEF Step
<1> QED BY <1>10 DEF EpMoves, SvcMoves

LEMMA StopStep ==
  ASSUME LifeInv, Step, IoThreads
  PROVE  StopInv'
<1> USE Kinds, Places
<1>1. StopInv /\ TypeOK
  BY DEF LifeInv
<1>2. \A c \in Channels : Added(c) => Added(c)'
  BY UserMoves
<1>3. ASSUME NEW e \in Endpoints, Stopping(e)'
      PROVE  \A c \in ChannelsOf[e] : Added(c)'
  BY <1>1, <1>2, <1>3, StageMoves DEF StopInv
<1>4. ASSUME NEW e \in Endpoints, ep'[e] = "stopped"
      PROVE  done'[e]
  BY <1>1, <1>4, StageMoves DEF StopInv
<1>5. ASSUME NEW e \in Endpoints, svc'[Svc[e]] # "up"
      PROVE  /\ \A c \in ChannelsOf[e] : Added(c)'
             /\ Stops # "early" => ep'[e] = "stopped"
  <2>1. CASE svc[Svc[e]] # "up"
    BY <1>1, <1>2, <2>1, StageMoves DEF StopInv
  <2>2. CASE svc[Svc[e]] = "up"
    <3>1. StopService(Svc[e])
      BY <1>5, <2>2, StageMoves
    <3>2. \/ ep[e] = "stopped"
          \/ Stops = "early" /\ \A c \in ChannelsOf[e] : Added(c)
      BY <3>1 DEF StopService
    <3>3. \A c \in ChannelsOf[e] : Added(c)
      BY <1>1, <3>2 DEF StopInv, Stopping
    <3> QED BY <1>2, <3>2, <3>3, StageMoves
  <2> QED BY <2>1, <2>2
<1>6. ASSUME NEW s \in Services, svc'[s] = "up"
      PROVE  running'[s]
  <2>1. svc[s] = "up"
    BY <1>6, StageMoves
  <2>2. running[s] /\ Work(s)'
    BY <1>1, <1>6, <2>1 DEF StopInv, Work
  <2> QED BY <2>2 DEF IoThreads
<1> QED BY <1>3, <1>4, <1>5, <1>6 DEF StopInv

LEMMA AcceptorStep ==
  ASSUME LifeInv, Step
  PROVE  AcceptorInv'
<1> USE Kinds, Places
<1>1. /\ AcceptorInv /\ PortsOf \in [Services -> SUBSET Ports]
      /\ halted \in [Ports -> BOOLEAN] /\ ended \in [Ports -> BOOLEAN]
      /\ listening \in [Ports -> {"none", "open", "closed", "gone"}]
      /\ accepting \in [Ports -> {"no", "pending"} \cup Clients]
  BY DEF LifeInv, TypeOK, PortsOf
<1>2. \A s \in Services : svc[s] # "up" => svc'[s] # "up"
  BY StageMoves
<1> DEFINE Stage(p) == /\ halted[p] => listening[p] # "none"
                       /\ ended[p] => halted[p] /\ accepting[p] = "no"
                       /\ Gone(p) => ended[p] /\ \E s \in Services : p \in PortsOf[s] /\ svc[s] # "up"
<1>3. ASSUME NEW p \in Ports,
             halted'[p] = halted[p], ended'[p] = ended[p], listening'[p] = listening[p],
             accepting'[p] = accepting[p] \/ ~ended[p]
      PROVE  Stage(p)'
  BY <1>1, <1>2, <1>3 DEF AcceptorInv, Gone
<1>4. CASE UNCHANGED <<listening, halted, accepting, ended>>
  BY <1>3, <1>4 DEF AcceptorInv, Gone
<1>5. ASSUME NEW e \in Endpoints, StartEndpoint(e)
      PROVE  AcceptorInv'
  <2>1. UNCHANGED <<halted, ended>>
    BY <1>5 DEF StartEndpoint
  <2>2. CASE UNCHANGED <<listening, accepting>>
    BY <1>4, <2>1, <2>2
  <2>3. ASSUME NEW q \in Ports, listening[q] = "none",
               listening' = [listening EXCEPT ![q] = "open"],
               accepting' = [accepting EXCEPT ![q] = "pending"]
        PROVE  AcceptorInv'
    <3>1. ~halted[q] /\ ~ended[q]
      BY <1>1, <2>3 DEF AcceptorInv
    <3>2. Stage(q)'
      BY <1>1, <2>1, <2>3, <3>1 DEF Gone
    <3>3. ASSUME NEW p \in Ports, p # q
          PROVE  Stage(p)'
      BY <1>1, <1>3, <2>1, <2>3, <3>3
    <3> QED BY <3>2, <3>3 DEF AcceptorInv
  <2> QED BY <1>5, <2>2, <2>3 DEF StartEndpoint, GetAcceptor
<1>6. ASSUME NEW q \in Ports, Accept(q)
      PROVE  AcceptorInv'
  <2>1. /\ UNCHANGED <<listening, halted, ended>> /\ accepting[q] = "pending"
        /\ \A p \in Ports : p # q => accepting'[p] = accepting[p]
    BY <1>1, <1>6 DEF Accept
  <2>2. ~ended[q]
    BY <1>1, <2>1 DEF AcceptorInv
  <2>3. ASSUME NEW p \in Ports
        PROVE  Stage(p)'
    BY <1>3, <2>1, <2>2
  <2> QED BY <2>3 DEF AcceptorInv
<1>7. ASSUME NEW q \in Ports, Accepted(q) \/ AcceptFails(q)
      PROVE  AcceptorInv'
  <2>1. /\ UNCHANGED <<listening, halted>> /\ accepting[q] # "no"
        /\ accepting' = [accepting EXCEPT ![q] = IF halted[q] THEN "no" ELSE "pending"]
        /\ ended' = [ended EXCEPT ![q] = @ \/ halted[q]]
    BY <1>7 DEF Accepted, AcceptFails, Restart
  <2>2. ~ended[q] /\ ~Gone(q)
    BY <1>1, <2>1 DEF AcceptorInv
  <2>3. Stage(q)'
    <3>1. halted'[q] = halted[q] /\ listening'[q] = listening[q] /\ ~Gone(q)'
      BY <2>1, <2>2 DEF Gone
    <3>2. ended'[q] => halted[q] /\ accepting'[q] = "no"
      BY <1>1, <2>1, <2>2
    <3> QED BY <1>1, <3>1, <3>2 DEF AcceptorInv
  <2>4. ASSUME NEW p \in Ports, p # q
        PROVE  Stage(p)'
    BY <1>1, <1>3, <2>1, <2>4
  <2> QED BY <2>3, <2>4 DEF AcceptorInv
<1>8. ASSUME NEW q \in Ports, Halt(q)
      PROVE  AcceptorInv'
  <2>1. /\ UNCHANGED <<listening, accepting, ended>> /\ listening[q] # "none"
        /\ halted' = [halted EXCEPT ![q] = TRUE]
    BY <1>8 DEF Halt, Acceptors
  <2>2. Stage(q)'
    BY <1>1, <1>2, <2>1 DEF AcceptorInv, Gone
  <2>3. ASSUME NEW p \in Ports, p # q
        PROVE  Stage(p)'
    <3>1. halted'[p] = halted[p]
      BY <1>1, <2>1, <2>3
    <3> QED BY <1>3, <2>1, <3>1
  <2> QED BY <2>2, <2>3 DEF AcceptorInv
<1>9. ASSUME NEW q \in Ports, CloseHandle(q)
      PROVE  AcceptorInv'
  <2>1. /\ UNCHANGED <<halted, accepting, ended>>
        /\ listening' = [listening EXCEPT ![q] = "closed"]
    BY <1>9 DEF CloseHandle
  <2>2. Stage(q)'
    BY <1>1, <2>1 DEF AcceptorInv, Gone
  <2>3. ASSUME NEW p \in Ports, p # q
        PROVE  Stage(p)'
    BY <1>1, <1>3, <2>1, <2>3
  <2> QED BY <2>2, <2>3 DEF AcceptorInv
<1>10. ASSUME NEW s \in Services, Destroy(s)
       PROVE  AcceptorInv'
  <2>1. /\ UNCHANGED <<halted, accepting, ended>> /\ svc' = [svc EXCEPT ![s] = "waiting"]
        /\ listening' = [p \in Ports |-> IF p \in Acceptors(s) THEN "gone" ELSE listening[p]]
        /\ \A p \in Acceptors(s) : ended[p]
    BY <1>10 DEF Destroy
  <2>2. ASSUME NEW p \in Ports, p \notin Acceptors(s)
        PROVE  Stage(p)'
    BY <1>3, <2>1, <2>2
  <2>3. svc'[s] # "up"
    BY <2>1 DEF LifeInv, TypeOK
  <2>4. ASSUME NEW p \in Ports, p \in Acceptors(s)
        PROVE  Stage(p)'
    <3>1. ended[p] /\ p \in PortsOf[s] /\ listening'[p] = "gone"
      BY <2>1, <2>4 DEF Acceptors
    <3> QED BY <1>1, <2>1, <2>3, <3>1 DEF AcceptorInv, Gone
  <2> QED BY <2>2, <2>4 DEF AcceptorInv
<1>11. CASE \E s \in Services : StopService(s) \/ Await(s) \/ JoinThreads(s)
  BY <1>4, <1>11 DEF StopService, Await, JoinThreads
<1>12. CASE \E e \in Endpoints : StopEndpoint(e) \/ StopReturns(e)
  BY <1>4, <1>12 DEF StopEndpoint, StopReturns, ioVars
<1>13. CASE \E c \in Channels : ThreadStep(c) \/ Drain(c)
  BY <1>4, <1>13 DEF ThreadStep, Connect, Ask, TakeFuture, GetSocket, Close, Remove, Unlock,
                     Drain, ioVars
<1>14. CASE \E d \in Clients : Handler(d)
  BY <1>4, <1>14 DEF Handler, SendNames, ReadHeader, ReadBody, HandOver, ShortBody, Reset, ioVars
<1> QED BY <1>5, <1>6, <1>7, <1>8, <1>9, <1>10, <1>11, <1>12, <1>13, <1>14 DEF Step, Shutdown

(***************************************************************************)
(* The invariant.                                                          *)
(***************************************************************************)

LEMMA LifeInit == Init => LifeInv
<1> SUFFICES ASSUME Init
             PROVE  LifeInv
  OBVIOUS
<1> USE Kinds, Places, TagsOf DEF Init
<1>1. TypeOK
  <2>1. backlog \in [Ports -> Seq(Clients)]
    BY EmptySeq
  <2>2. \A S : << >> \in Seq(S)
    BY EmptySeq
  <2>3. proms \in [Ports -> [Tags -> Seq([socket : Clients \cup {None}, taken : BOOLEAN])]]
    BY <2>2
  <2>4. before \in [Channels -> SUBSET Channels] /\ slot \in [Hosts -> Nat]
    OBVIOUS
  <2> QED BY <2>1, <2>3, <2>4 DEF TypeOK
<1>2. ConnectionInv
  BY DEF ConnectionInv
<1>3. FiledInv
  BY DEF FiledInv
<1>4. SlotInv
  BY DEF SlotInv, Added
<1>5. ListInv
  BY DEF ListInv
<1>6. DoneMeansEmpty /\ StopInv
  BY DEF DoneMeansEmpty, StopInv, Stopping
<1>7. AcceptorInv
  BY DEF AcceptorInv, Gone
<1> QED BY <1>1, <1>2, <1>3, <1>4, <1>5, <1>6, <1>7 DEF LifeInv

LEMMA LifeStep == LifeInv /\ [Next]_vars => LifeInv'
<1>1. ASSUME LifeInv, Step, IoThreads
      PROVE  LifeInv'
  BY <1>1, TypeStep, ConnectionStep, FiledStep, SlotStep, ListStep, DoneStep, StopStep,
     AcceptorStep DEF LifeInv
<1>2. ASSUME LifeInv, UNCHANGED vars
      PROVE  LifeInv'
  <2> USE <1>2 DEF vars, ioVars, epVars, handVars, chanVars, LifeInv
  <2>1. TypeOK'
    BY DEF TypeOK
  <2>2. ConnectionInv'
    BY DEF ConnectionInv
  <2>3. FiledInv' /\ SlotInv'
    BY DEF FiledInv, Filed, SlotInv, HasSocket, Added
  <2>4. ListInv' /\ DoneMeansEmpty' /\ StopInv'
    BY DEF ListInv, DoneMeansEmpty, StopInv, Stopping, Added
  <2>5. AcceptorInv'
    BY DEF AcceptorInv, Gone
  <2> QED BY <2>1, <2>2, <2>3, <2>4, <2>5
<1> QED BY <1>1, <1>2 DEF Next, Terminating

LEMMA SpecLife == Spec => []LifeInv
BY LifeInit, LifeStep, PTL DEF Spec

(* The variables of endpoints, channels, acceptors and io threads keep to  *)
(* their types, whatever the names of channels and the faults are.         *)
THEOREM TypeCorrect == Spec => []TypeOK
<1>1. LifeInv => TypeOK
  BY DEF LifeInv
<1> QED BY <1>1, SpecLife, PTL

(* removeChannel never destroys a channel that is still used, so that      *)
(* close deletes no channel but its own, for all programs whose local      *)
(* names differ within an endpoint.                                        *)
THEOREM ChannelsKept == Spec => []InUseKept
<1>1. LifeInv => InUseKept
  BY DEF LifeInv, ListInv, InUseKept
<1> QED BY <1>1, SpecLife, PTL

(* mDoneProm is kept only when the channels of a stopped endpoint are all  *)
(* closed, whichever of stop and the last removeChannel comes first.       *)
THEOREM DoneWhenEmpty == Spec => []DoneMeansEmpty
<1>1. LifeInv => DoneMeansEmpty
  BY DEF LifeInv
<1> QED BY <1>1, SpecLife, PTL

(* The counterpart of each client of a gone acceptor was added, and the    *)
(* socket it was given is that client's.                                   *)
LEMMA GoneServed ==
  ASSUME LifeInv, NEW p \in Ports, Gone(p), NEW c \in Clients, Port[c] = p
  PROVE  shake[c] = "over"
<1> USE Kinds, Places, TagsOf
<1>1. PICK s \in Services : p \in PortsOf[s] /\ svc[s] # "up"
  BY DEF LifeInv, AcceptorInv
<1>2. PICK h \in Hosts : Mirror(h, c)
  BY MatchingAssumption
<1>3. Port[h] = p /\ Tag[h] = Tag[c]
  BY <1>2, MirrorTag
<1>4. Io[h] = s /\ Svc[Channel[h].endpoint] = s
  BY <1>1, <1>3, PortService
<1>5. Added(h)
  BY <1>1, <1>4 DEF LifeInv, StopInv
<1>6. /\ socket[h] \in Clients /\ shake[socket[h]] = "over"
      /\ Port[socket[h]] = Port[h] /\ Tag[socket[h]] = Tag[h]
  BY <1>5 DEF LifeInv, SlotInv, HasSocket
<1>7. socket[h] = c
  BY <1>3, <1>6, SameTag
<1> QED BY <1>6, <1>7

LEMMA LifeNoOrphans == LifeInv => NoOrphans
<1> SUFFICES ASSUME LifeInv, NEW p \in Ports, Gone(p)
             PROVE  /\ backlog[p] = << >> /\ accepting[p] = "no"
                    /\ \A c \in Clients : Port[c] = p => shake[c] = "over"
  BY DEF NoOrphans
<1>1. \A c \in Clients : Port[c] = p => shake[c] = "over"
  BY GoneServed
<1>2. accepting[p] = "no"
  BY DEF LifeInv, AcceptorInv
<1>3. backlog[p] = << >>
  <2>1. SUFFICES ASSUME backlog[p] # << >>
                 PROVE  FALSE
    OBVIOUS
  <2>2. backlog[p] \in Seq(Clients)
    BY DEF LifeInv, TypeOK
  <2>3. 1 \in 1..Len(backlog[p]) /\ backlog[p][1] \in Clients
    BY <2>1, <2>2, HeadTail
  <2>4. Port[backlog[p][1]] = p /\ shake[backlog[p][1]] = "none"
    BY <2>3 DEF LifeInv, ConnectionInv
  <2> QED BY <1>1, <2>3, <2>4
<1> QED BY <1>1, <1>2, <1>3

(* BtIOService::stop deletes an acceptor only when no handler of it is     *)
(* left, no connection waits in its backlog, and the names of all its      *)
(* clients have been read: although it waits for none of the handlers that *)
(* read names, each has a host channel that was added before stop.         *)
THEOREM AcceptorsUnused == Spec => []NoOrphans
BY LifeNoOrphans, SpecLife, PTL

(* The io threads of a service do not return while a channel is open or    *)
(* being closed, if programs stop their endpoints before the service.      *)
THEOREM ChannelsServed == ASSUME Stops # "early" PROVE Spec => []ServedWhileOpen
<1>1. LifeInv => ServedWhileOpen
  <2>1. ASSUME LifeInv, NEW c \in Channels, user[c] \in {"open", "closing"}
        PROVE  running[Io[c]]
    <3> DEFINE e == Channel[c].endpoint
    <3>1. e \in Endpoints /\ c \in ChannelsOf[e] /\ Io[c] = Svc[e] /\ Svc[e] \in Services
      BY Places
    <3>2. ~done[e]
      BY <2>1, <3>1 DEF LifeInv, DoneMeansEmpty
    <3>3. svc[Svc[e]] = "up"
      BY <2>1, <3>1, <3>2 DEF LifeInv, StopInv
    <3> QED BY <2>1, <3>1, <3>3 DEF LifeInv, StopInv
  <2> QED BY <2>1 DEF ServedWhileOpen
<1> QED BY <1>1, SpecLife, PTL

(***************************************************************************)
(* Without faults, and while no lookup meets a growing mSocketPromises.    *)
(***************************************************************************)

(* The entries of a tag: at most one, whose future its own host took.      *)
Once(p, t) ==
  /\ Len(proms[p][t]) <= 1
  /\ proms[p][t] # << >> /\ proms[p][t][1].taken =>
       \E h \in Hosts : Port[h] = p /\ Tag[h] = t /\ user[h] \notin {"new", "asked"}

LEMMA OnceInvDef == OnceInv <=> stale = {} /\ \A p \in Ports, t \in Tags : Once(p, t)
BY DEF OnceInv, Once

LEMMA OnceInit == Init => OnceInv
BY DEF Init, OnceInv

LEMMA SingleEntry ==
  ASSUME LifeInv, OnceInv, NEW p \in Ports, NEW t \in Tags, proms[p][t] # << >>, NEW x,
         NEW s \in Found(x, p, t)
  PROVE  s = proms[p][t] /\ Len(s) = 1 /\ s \in Seq(Entry) /\ s[1] \in Entry
<1>1. PromsType
  BY TypeProms DEF LifeInv
<1>2. s \in Seq(Entry) /\ s = proms[p][t]
  BY <1>1, FoundEntries DEF OnceInv
<1>3. Len(s) \in 1..Len(s) /\ s[Len(s)] \in Entry
  BY <1>2, LastChanged
<1>4. Len(s) <= 1
  BY <1>2 DEF OnceInv
<1>5. Len(s) = 1
  <2>1. \A n \in Nat : n \in 1..n /\ n <= 1 => n = 1
    OBVIOUS
  <2>2. Len(s) \in Nat
    BY <1>2
  <2> QED BY <1>3, <1>4, <2>1, <2>2
<1> QED BY <1>2, <1>3, <1>5

(* One entry changed, the others and the threads go on.                    *)
LEMMA OnceFrame ==
  ASSUME LifeInv, OnceInv, Step, NEW p \in Ports, NEW t \in Tags, proms'[p][t] = proms[p][t]
  PROVE  Once(p, t)'
<1>1. Once(p, t)
  BY OnceInvDef
<1>2. \A h \in Hosts : user[h] \notin {"new", "asked"} => user'[h] \notin {"new", "asked"}
  BY UserMoves, Kinds
<1> QED BY <1>1, <1>2 DEF Once

LEMMA OnceEntry ==
  ASSUME LifeInv, OnceInv, Step, NEW p \in Ports, NEW t \in Tags, NEW s \in Seq(Entry),
         Len(s) = 1, NEW e \in Entry, proms' = [proms EXCEPT ![p][t] = [s EXCEPT ![Len(s)] = e]],
         UNCHANGED stale \/ stale' = {},
         e.taken => \E h \in Hosts : /\ Port[h] = p /\ Tag[h] = t
                                     /\ user'[h] \notin {"new", "asked"}
  PROVE  OnceInv'
<1>1. PromsType
  BY TypeProms DEF LifeInv
<1>2. s # << >>
  OBVIOUS
<1>3. PICK new : new = [s EXCEPT ![Len(s)] = e]
  OBVIOUS
<1>4. new \in Seq(Entry) /\ Len(new) = 1 /\ new[1] = e
  BY <1>2, <1>3, LastChanged
<1>5. proms'[p][t] = new /\ \A q \in Ports, u \in Tags : q # p \/ u # t => proms'[q][u] = proms[q][u]
  BY <1>1, <1>3 DEF PromsType
<1>6. Once(p, t)'
  BY <1>4, <1>5 DEF Once
<1>7. \A q \in Ports, u \in Tags : Once(q, u)'
  BY <1>5, <1>6, OnceFrame
<1>8. stale' = {}
  BY DEF OnceInv
<1> QED BY <1>7, <1>8 DEF OnceInv, Once

LEMMA OnceEmplaced ==
  ASSUME Growth = {}, LifeInv, OnceInv, Step,
         NEW x \in Channels, NEW p \in Ports, NEW t \in Tags, FindOrEmplace(x, p, t)
  PROVE  OnceInv'
<1>1. PromsType /\ stale \subseteq Channels
  BY TypeProms DEF LifeInv
<1>2. stale' = {}
  BY DEF OnceInv, FindOrEmplace
<1>3. ASSUME NEW q \in Ports, NEW u \in Tags
      PROVE  Once(q, u)'
  <2>1. \/ proms'[q][u] = proms[q][u]
        \/ proms'[q][u] = <<Fresh>>
    BY <1>1, Emplaced
  <2>2. CASE proms'[q][u] = <<Fresh>>
    BY <2>2, FreshEntry DEF Once
  <2> QED BY <2>1, <2>2, OnceFrame
<1> QED BY <1>2, <1>3 DEF OnceInv, Once

LEMMA OnceStep ==
  ASSUME Growth = {}, Faults = {}, LifeInv, OnceInv, Step
  PROVE  OnceInv'
<1> USE Kinds, Places, TagsOf
<1>1. /\ PromsType /\ stale \subseteq Channels /\ stale = {}
      /\ user \in [Channels -> {"new", "asked", "waiting", "open", "closing", "drained",
                                "leaving", "closed"}]
  BY TypeProms DEF LifeInv, TypeOK, OnceInv
<1>2. CASE UNCHANGED <<proms, stale>>
  <2>1. \A p \in Ports, t \in Tags : Once(p, t)'
    BY <1>2, OnceFrame
  <2> QED BY <1>1, <1>2, <2>1 DEF OnceInv, Once
<1>3. ASSUME NEW h \in Channels, Ask(h)
      PROVE  OnceInv'
  BY <1>3, OnceEmplaced DEF Ask
<1>4. ASSUME NEW c \in Clients, ReadBody(c)
      PROVE  OnceInv'
  BY <1>4, OnceEmplaced DEF ReadBody
<1>5. ASSUME NEW h \in Channels, TakeFuture(h)
      PROVE  OnceInv'
  <2>1. h \in Hosts /\ proms[Port[h]][Tag[h]] # << >> /\ stale' = {}
    BY <1>1, <1>5 DEF TakeFuture, LifeInv, SlotInv
  <2>2. CASE UNCHANGED proms
    BY <1>1, <1>2, <2>1, <2>2
  <2>3. CASE \E s \in Found(h, Port[h], Tag[h]) :
               /\ user' = [user EXCEPT ![h] = "waiting"]
               /\ proms' = [proms EXCEPT ![Port[h]][Tag[h]] =
                              [s EXCEPT ![Len(s)] = [@ EXCEPT !.taken = TRUE]]]
    <3>1. PICK s \in Found(h, Port[h], Tag[h]) :
               /\ user' = [user EXCEPT ![h] = "waiting"]
               /\ proms' = [proms EXCEPT ![Port[h]][Tag[h]] =
                              [s EXCEPT ![Len(s)] = [@ EXCEPT !.taken = TRUE]]]
      BY <2>3
    <3>2. Len(s) = 1 /\ s \in Seq(Entry) /\ s[1] \in Entry
      BY <2>1, SingleEntry
    <3>3. PICK e : e = [s[Len(s)] EXCEPT !.taken = TRUE]
      OBVIOUS
    <3>4. e \in Entry
      BY <3>2, <3>3 DEF Entry
    <3>5. user'[h] = "waiting"
      BY <1>1, <3>1
    <3>6. proms' = [proms EXCEPT ![Port[h]][Tag[h]] = [s EXCEPT ![Len(s)] = e]]
      BY <3>1, <3>3
    <3> QED BY <2>1, <3>2, <3>4, <3>5, <3>6, OnceEntry
  <2>4. \/ UNCHANGED proms
        \/ \E s \in Found(h, Port[h], Tag[h]) :
             /\ user' = [user EXCEPT ![h] = "waiting"]
             /\ proms' = [proms EXCEPT ![Port[h]][Tag[h]] =
                            [s EXCEPT ![Len(s)] = [@ EXCEPT !.taken = TRUE]]]
    BY <1>1, <1>5, <2>1, FutureTaken, Zenon
  <2> QED BY <2>2, <2>3, <2>4
<1>6. ASSUME NEW c \in Clients, HandOver(c)
      PROVE  OnceInv'
  <2>1. proms[Port[c]][Tag[c]] # << >> /\ stale' = {}
    BY <1>1, <1>6 DEF HandOver, LifeInv, SlotInv
  <2>2. CASE UNCHANGED proms
    BY <1>1, <1>2, <2>1, <2>2
  <2>3. CASE \E s \in Found(c, Port[c], Tag[c]) :
               proms' = [proms EXCEPT ![Port[c]][Tag[c]] =
                              [s EXCEPT ![Len(s)] = [@ EXCEPT !.socket = c]]]
    <3>1. PICK s \in Found(c, Port[c], Tag[c]) :
               proms' = [proms EXCEPT ![Port[c]][Tag[c]] =
                              [s EXCEPT ![Len(s)] = [@ EXCEPT !.socket = c]]]
      BY <2>3
    <3>2. s = proms[Port[c]][Tag[c]] /\ Len(s) = 1 /\ s \in Seq(Entry) /\ s[1] \in Entry
      BY <2>1, SingleEntry
    <3>3. PICK e : e = [s[Len(s)] EXCEPT !.socket = c]
      OBVIOUS
    <3>4. e \in Entry /\ e.taken = s[1].taken
      BY <3>2, <3>3 DEF Entry
    <3>5. UNCHANGED user
      BY <1>6 DEF HandOver, chanVars
    <3>6. proms' = [proms EXCEPT ![Port[c]][Tag[c]] = [s EXCEPT ![Len(s)] = e]]
      BY <3>1, <3>3
    <3>7. s[1].taken => \E h \in Hosts : /\ Port[h] = Port[c] /\ Tag[h] = Tag[c]
                                         /\ user[h] \notin {"new", "asked"}
      BY <2>1, <3>2 DEF OnceInv
    <3>8. e.taken => \E h \in Hosts : /\ Port[h] = Port[c] /\ Tag[h] = Tag[c]
                                      /\ user'[h] \notin {"new", "asked"}
      BY <3>4, <3>5, <3>7
    <3>9. Port[c] \in Ports /\ Tag[c] \in Tags
      OBVIOUS
    <3> HIDE Kinds, Places, TagsOf
    <3> QED BY <2>1, <3>2, <3>4, <3>6, <3>8, <3>9, OnceEntry
  <2> QED BY <1>1, <1>6, <2>1, <2>2, <2>3, PromiseKept
<1>7. CASE \E c \in Channels : \/ Connect(c) \/ GetSocket(c) \/ Close(c) \/ Remove(c)
                               \/ Unlock(c) \/ Drain(c)
  BY <1>2, <1>7 DEF Connect, GetSocket, Close, Remove, Unlock, Drain, handVars
<1>8. CASE \E c \in Clients : SendNames(c) \/ ReadHeader(c) \/ ShortBody(c) \/ Reset(c)
  BY <1>2, <1>8 DEF SendNames, ReadHeader, ShortBody, Reset, handVars
<1>9. CASE \E p \in Ports : Accept(p) \/ Accepted(p) \/ AcceptFails(p)
  BY <1>2, <1>9 DEF Accept, Accepted, AcceptFails, handVars
<1>10. CASE Shutdown
  BY <1>2, <1>10 DEF Shutdown, StopEndpoint, StopReturns, StopService, Destroy, Await,
                    JoinThreads, Halt, CloseHandle, handVars
<1>11. CASE \E e \in Endpoints : StartEndpoint(e)
  BY <1>2, <1>11 DEF StartEndpoint, handVars
<1> QED BY <1>3, <1>4, <1>5, <1>6, <1>7, <1>8, <1>9, <1>10, <1>11 DEF Step, ThreadStep, Handler

(* No step does what std::promise, std::future or a deleted acceptor       *)
(* punish.                                                                 *)
LEMMA AliveStep ==
  ASSUME Growth = {}, Faults = {}, LifeInv, OnceInv, ~dead, Step
  PROVE  ~dead'
<1> USE Kinds, Places, TagsOf
<1>1. PromsType /\ stale = {} /\ FiledInv /\ SlotInv
  BY TypeProms DEF LifeInv, OnceInv
<1>2. ASSUME NEW h \in Channels, TakeFuture(h), dead'
      PROVE  FALSE
  <2>1. h \in Hosts /\ proms[Port[h]][Tag[h]] # << >> /\ user[h] = "asked"
    BY <1>1, <1>2 DEF TakeFuture, SlotInv
  <2>2. PICK s \in Found(h, Port[h], Tag[h]) : s[Len(s)].taken
    BY <1>1, <1>2, <2>1, FutureTaken
  <2>3. s = proms[Port[h]][Tag[h]] /\ Len(s) = 1
    BY <2>1, SingleEntry
  <2>4. PICK g \in Hosts : Port[g] = Port[h] /\ Tag[g] = Tag[h] /\ user[g] \notin {"new", "asked"}
    BY <2>1, <2>2, <2>3 DEF OnceInv
  <2>5. g = h
    BY <2>1, <2>4, SameTag
  <2> QED BY <2>1, <2>4, <2>5
<1>3. ASSUME NEW c \in Clients, HandOver(c), dead'
      PROVE  FALSE
  <2>1. proms[Port[c]][Tag[c]] # << >> /\ shake[c] = "found"
    BY <1>1, <1>3 DEF HandOver, SlotInv
  <2>2. PICK s \in Found(c, Port[c], Tag[c]) : Gone(Port[c]) \/ s[Len(s)].socket # None
    BY <1>1, <1>3, <2>1, PromiseKept
  <2>3. ~Gone(Port[c])
    BY <2>1, GoneServed
  <2>4. s = proms[Port[c]][Tag[c]] /\ Len(s) = 1 /\ s[1] \in Entry
    BY <2>1, SingleEntry
  <2>5. PICK d : d = s[1].socket
    OBVIOUS
  <2>6. d \in Clients
    BY <2>2, <2>3, <2>4, <2>5 DEF Entry
  <2>7. Filed(Port[c], Tag[c], s[1])
    BY <1>1, <2>4 DEF FiledInv
  <2>8. Port[d] = Port[c] /\ shake[d] = "over" /\ Tag[d] = Tag[c]
    BY <2>5, <2>6, <2>7 DEF Filed
  <2>9. d = c
    BY <2>6, <2>8, SameTag
  <2> QED BY <2>1, <2>8, <2>9
<1>4. ASSUME NEW c \in Clients, ReadBody(c), dead'
      PROVE  FALSE
  BY <1>4, GoneServed DEF ReadBody
<1>5. ASSUME NEW p \in Ports, Accepted(p) \/ AcceptFails(p), dead'
      PROVE  FALSE
  <2>1. accepting[p] # "no"
    BY <1>5 DEF Accepted, AcceptFails
  <2>2. ~Gone(p) /\ ~ended[p]
    BY <2>1 DEF LifeInv, AcceptorInv
  <2> QED BY <1>5, <2>2 DEF Accepted, AcceptFails, Restart
<1>6. ASSUME NEW c \in Channels, Remove(c), dead'
      PROVE  FALSE
  <2>1. user[c] = "drained" /\ done[Channel[c].endpoint]
    BY <1>6 DEF Remove
  <2> QED BY <2>1 DEF LifeInv, DoneMeansEmpty
<1>7. ASSUME NEW e \in Endpoints, StopEndpoint(e), dead'
      PROVE  FALSE
  <2>1. ep[e] = "started" /\ done[e]
    BY <1>7 DEF StopEndpoint
  <2> QED BY <2>1 DEF LifeInv, DoneMeansEmpty, Stopping
<1>8. CASE \E c \in Channels : \/ Connect(c) \/ Ask(c) \/ GetSocket(c) \/ Close(c)
                               \/ Unlock(c) \/ Drain(c)
  BY <1>8 DEF Connect, Ask, GetSocket, Close, Unlock, Drain
<1>9. CASE \E c \in Clients : SendNames(c) \/ ReadHeader(c) \/ ShortBody(c) \/ Reset(c)
  BY <1>9 DEF SendNames, ReadHeader, ShortBody, Reset
<1>10. CASE \/ \E e \in Endpoints : StartEndpoint(e) \/ StopReturns(e)
            \/ \E p \in Ports : Accept(p) \/ Halt(p) \/ CloseHandle(p)
            \/ \E s \in Services : StopService(s) \/ Destroy(s) \/ Await(s) \/ JoinThreads(s)
  BY <1>10 DEF StartEndpoint, StopReturns, Accept, Halt, CloseHandle, StopService, Destroy,
               Await, JoinThreads
<1> QED BY <1>2, <1>3, <1>4, <1>5, <1>6, <1>7, <1>8, <1>9, <1>10
        DEF Step, Shutdown, ThreadStep, Handler

(* Without faults, and while no lookup meets a growing mSocketPromises, no *)
(* handler or call keeps a promise twice, takes a future twice or uses a   *)
(* deleted acceptor, however threads add and close channels and whenever   *)
(* programs call stop.                                                     *)
THEOREM NeverPunished == ASSUME Growth = {}, Faults = {} PROVE Spec => []NeverTerminated
<1>1. Init => LifeInv /\ OnceInv /\ ~dead
  BY LifeInit, OnceInit DEF Init
<1>2. LifeInv /\ OnceInv /\ ~dead /\ [Next]_vars => (LifeInv /\ OnceInv /\ ~dead)'
  <2>1. ASSUME LifeInv, OnceInv, ~dead, Step, IoThreads
        PROVE  (LifeInv /\ OnceInv /\ ~dead)'
    <3>1. LifeInv'
      BY <2>1, TypeStep, ConnectionStep, FiledStep, SlotStep, ListStep, DoneStep, StopStep,
         AcceptorStep DEF LifeInv
    <3> QED BY <2>1, <3>1, OnceStep, AliveStep
  <2>2. ASSUME LifeInv, OnceInv, ~dead, UNCHANGED vars
        PROVE  (LifeInv /\ OnceInv /\ ~dead)'
    <3>1. LifeInv'
      BY <2>2, LifeStep
    <3> QED BY <2>2, <3>1 DEF OnceInv, vars, chanVars, handVars
  <2> QED BY <2>1, <2>2 DEF Next, Terminating
<1>3. LifeInv /\ OnceInv /\ ~dead => NeverTerminated
  BY DEF NeverTerminated
<1> QED BY <1>1, <1>2, <1>3, PTL DEF Spec

(***************************************************************************)
(* Rendezvous.                                                             *)
(***************************************************************************)
Ready  == {c \in Clients : user[c] # "new"}
Joined == {<<h, socket[h]>> : h \in {g \in Hosts : socket[g] # None}}
Left   == {c \in Channels : user[c] \in {"leaving", "closed"}}

LEMMA PairInitially == Init => Connected!PairInit
<1> SUFFICES ASSUME Init
             PROVE  Ready = {} /\ Joined = {} /\ Left = {}
  BY DEF Connected!PairInit, Ready, Joined, Left
<1>1. \A c \in Channels : user[c] = "new"
  BY DEF Init
<1>2. \A h \in Hosts : socket[h] = None
  BY DEF Init
<1>3. {g \in Hosts : socket[g] # None} = {}
  BY <1>2
<1> QED BY <1>1, <1>3, Kinds DEF Ready, Joined, Left

(* A channel is closed by Remove, after it was added.                      *)
LEMMA PairLeave ==
  ASSUME LifeInv, NEW c \in Channels, Remove(c)
  PROVE  Connected!Leave(c)
<1> USE Kinds
<1>1. /\ user[c] = "drained" /\ user' = [user EXCEPT ![c] = "leaving"] /\ UNCHANGED socket
      /\ user \in [Channels -> {"new", "asked", "waiting", "open", "closing", "drained",
                                "leaving", "closed"}]
  BY DEF Remove, LifeInv, TypeOK
<1>2. c \notin Left /\ Left' = Left \cup {c} /\ Ready' = Ready /\ Joined' = Joined
  BY <1>1 DEF Left, Ready, Joined
<1>3. c \in Ready \/ \E pair \in Joined : pair[1] = c
  <2>1. CASE c \in Clients
    BY <1>1, <2>1 DEF Ready
  <2>2. CASE c \in Hosts
    <3>1. socket[c] \in Clients
      BY <1>1, <2>2 DEF LifeInv, SlotInv, Added, HasSocket
    <3>2. <<c, socket[c]>> \in Joined
      BY <2>2, <3>1 DEF Joined
    <3> QED BY <3>2
  <2> QED BY <2>1, <2>2
<1> QED BY <1>2, <1>3 DEF Connected!Leave, Left, Ready, Joined

(* A host gets the socket of the client it mirrors, and no other host has  *)
(* it.                                                                     *)
LEMMA PairJoin ==
  ASSUME LifeInv, Step, NEW h \in Channels, GetSocket(h)
  PROVE  h \in Hosts /\ \E c \in Clients : Connected!Join(h, c)
<1> USE Kinds, Places
<1>1. /\ h \in Hosts /\ user[h] = "waiting" /\ user' = [user EXCEPT ![h] = "open"]
      /\ \E c : socket' = [socket EXCEPT ![h] = c]
      /\ user \in [Channels -> {"new", "asked", "waiting", "open", "closing", "drained",
                                "leaving", "closed"}]
      /\ socket \in [Hosts -> Clients \cup {None}]
  BY DEF GetSocket, LifeInv, TypeOK
<1>2. Added(h)' /\ SlotInv'
  BY <1>1, SlotStep DEF Added
<1>3. PICK c \in Clients : c = socket'[h]
  BY <1>1, <1>2 DEF SlotInv, HasSocket
<1>4. Port[c] = Port[h] /\ Tag[c] = Tag[h] /\ shake'[c] = "over"
  BY <1>1, <1>2, <1>3 DEF SlotInv, HasSocket
<1>5. Mirror(h, c)
  BY <1>1, <1>4, SameTag
<1>6. UNCHANGED shake
  BY DEF GetSocket, handVars
<1>7. c \in Ready
  BY <1>4, <1>6 DEF LifeInv, ConnectionInv, Ready
<1>8. socket[h] = None
  BY <1>1 DEF LifeInv, SlotInv, Added
<1>9. \A g \in Hosts : socket[g] # c
  <2>1. SUFFICES ASSUME NEW g \in Hosts, socket[g] = c
                 PROVE  FALSE
    OBVIOUS
  <2>2. Port[g] = Port[c] /\ Tag[g] = Tag[c]
    BY <2>1 DEF LifeInv, SlotInv, HasSocket
  <2>3. g = h
    BY <1>1, <1>4, <2>2, SameTag
  <2> QED BY <1>8, <2>1, <2>3
<1>10. \A pair \in Joined : pair[1] # h /\ pair[2] # c
  BY <1>8, <1>9 DEF Joined
<1>11. socket' = [socket EXCEPT ![h] = c]
  BY <1>1, <1>3
<1>12. Joined' = Joined \cup {<<h, c>>}
  BY <1>1, <1>8, <1>11 DEF Joined
<1>13. Ready' = Ready /\ Left' = Left
  BY <1>1 DEF Ready, Left
<1>14. <<h, c>> \in Mirrored
  BY <1>1, <1>5 DEF Mirrored
<1>15. Connected!Join(h, c)
  BY <1>7, <1>10, <1>12, <1>13, <1>14 DEF Connected!Join, Ready, Joined, Left
<1> QED BY <1>1, <1>15

LEMMA PairDial ==
  ASSUME LifeInv, NEW c \in Channels, Connect(c)
  PROVE  c \in Clients /\ Connected!Dial(c)
<1> USE Kinds
<1>1. /\ c \in Clients /\ user[c] = "new" /\ user' = [user EXCEPT ![c] = "open"]
      /\ UNCHANGED socket
      /\ user \in [Channels -> {"new", "asked", "waiting", "open", "closing", "drained",
                                "leaving", "closed"}]
  BY DEF Connect, AppendChannel, LifeInv, TypeOK
<1>2. c \notin Ready /\ Ready' = Ready \cup {c} /\ Left' = Left
  BY <1>1 DEF Ready, Left
<1>3. Joined' = Joined
  BY <1>1 DEF Joined
<1> QED BY <1>1, <1>2, <1>3 DEF Connected!Dial, Ready, Joined, Left

(* The other steps are not seen.                                           *)
LEMMA PairStutter ==
  ASSUME UNCHANGED socket,
         \A c \in Channels : /\ user'[c] = "new" <=> user[c] = "new"
                             /\ Ended(c)' <=> Ended(c)
  PROVE  UNCHANGED Connected!pairVars
<1>1. Ready' = Ready /\ Left' = Left /\ Joined' = Joined
  BY Kinds DEF Ready, Left, Joined, Ended
<1> QED BY <1>1 DEF Connected!pairVars, Ready, Joined, Left

LEMMA PairAsk ==
  ASSUME LifeInv, NEW c \in Channels,
         UNCHANGED socket, NEW old, NEW new, user[c] = old, user' = [user EXCEPT ![c] = new],
         <<old, new>> \in {<<"asked", "waiting">>, <<"open", "closing">>,
                           <<"closing", "drained">>, <<"leaving", "closed">>}
  PROVE  UNCHANGED Connected!pairVars
<1>1. user \in [Channels -> {"new", "asked", "waiting", "open", "closing", "drained",
                             "leaving", "closed"}]
  BY DEF LifeInv, TypeOK
<1>2. \A d \in Channels : user'[d] = IF d = c THEN new ELSE user[d]
  BY <1>1
<1>3. (old = "new" <=> new = "new")
      /\ (old \in {"leaving", "closed"} <=> new \in {"leaving", "closed"})
  OBVIOUS
<1>4. \A d \in Channels : /\ user'[d] = "new" <=> user[d] = "new"
                          /\ Ended(d)' <=> Ended(d)
  BY <1>2, <1>3 DEF Ended
<1> QED BY <1>4, PairStutter

LEMMA PairStep ==
  ASSUME LifeInv, Step
  PROVE  Connected!PairNext \/ UNCHANGED Connected!pairVars
<1> USE Kinds
<1>1. CASE UNCHANGED <<user, socket>>
  BY <1>1, PairStutter DEF Ended
<1>2. ASSUME NEW c \in Channels, Ask(c)
      PROVE  UNCHANGED Connected!pairVars
  <2>1. /\ c \in Hosts /\ user[c] = "new" /\ user' = [user EXCEPT ![c] = "asked"]
        /\ UNCHANGED socket
        /\ user \in [Channels -> {"new", "asked", "waiting", "open", "closing", "drained",
                                  "leaving", "closed"}]
    BY <1>2 DEF Ask, AppendChannel, LifeInv, TypeOK
  <2>2. Ready' = Ready /\ Left' = Left
    BY <2>1 DEF Ready, Left
  <2>3. Joined' = Joined
    BY <2>1 DEF Joined
  <2> QED BY <2>2, <2>3 DEF Connected!pairVars, Ready, Joined, Left
<1>3. ASSUME NEW c \in Channels, ThreadStep(c) \/ Drain(c)
      PROVE  Connected!PairNext \/ UNCHANGED Connected!pairVars
  <2>1. CASE Connect(c)
    BY <2>1, PairDial DEF Connected!PairNext
  <2>2. CASE GetSocket(c)
    BY <2>2, PairJoin DEF Connected!PairNext
  <2>3. CASE Remove(c)
    <3>1. Connected!Leave(c) /\ c \in Hosts \cup Clients
      BY <2>3, PairLeave
    <3> QED BY <3>1 DEF Connected!PairNext
  <2>4. CASE TakeFuture(c)
    <3>1. /\ user[c] = "asked" /\ (user' = [user EXCEPT ![c] = "waiting"] \/ UNCHANGED user)
          /\ UNCHANGED socket
      BY <2>4 DEF TakeFuture
    <3> QED BY <1>1, <3>1, PairAsk
  <2>5. CASE Close(c)
    BY <2>5, PairAsk DEF Close
  <2>6. CASE Drain(c)
    BY <2>6, PairAsk DEF Drain
  <2>7. CASE Unlock(c)
    BY <2>7, PairAsk DEF Unlock
  <2> QED BY <1>2, <1>3, <2>1, <2>2, <2>3, <2>4, <2>5, <2>6, <2>7 DEF ThreadStep
<1>4. CASE \E e \in Endpoints : StartEndpoint(e)
  BY <1>1, <1>4 DEF StartEndpoint, chanVars
<1>5. CASE \E d \in Clients : Handler(d)
  BY <1>1, <1>5 DEF Handler, SendNames, ReadHeader, ReadBody, HandOver, ShortBody, Reset, chanVars
<1>6. CASE \E p \in Ports : Accept(p) \/ Accepted(p) \/ AcceptFails(p)
  BY <1>1, <1>6 DEF Accept, Accepted, AcceptFails, chanVars
<1>7. CASE Shutdown
  BY <1>1, <1>7 DEF Shutdown, StopEndpoint, StopReturns, StopService, Destroy, Await,
                    JoinThreads, Halt, CloseHandle, chanVars
<1> QED BY <1>3, <1>4, <1>5, <1>6, <1>7 DEF Step

(* The acceptor gives a host channel the connection of the client whose    *)
(* names mirror its own, and each connection to one host only: whatever    *)
(* the order of the threads, the handshakes and the calls of stop, and     *)
(* with the faults of a first message, Lifecycle implements Rendezvous.    *)
THEOREM PairsConnected == Spec => ImplementsRendezvous
<1>1. Init => Connected!PairInit
  BY PairInitially
<1>2. LifeInv /\ [Next]_vars => [Connected!PairNext]_(Connected!pairVars)
  <2>1. ASSUME LifeInv, Step
        PROVE  Connected!PairNext \/ UNCHANGED Connected!pairVars
    BY <2>1, PairStep
  <2>2. ASSUME UNCHANGED vars
        PROVE  UNCHANGED Connected!pairVars
    BY <2>2 DEF vars, chanVars, Connected!pairVars
  <2> QED BY <2>1, <2>2 DEF Next, Terminating
<1> QED BY <1>1, <1>2, SpecLife, PTL DEF Spec, ImplementsRendezvous, Connected!PairSpec
=============================================================================
