----------------------------- MODULE Rendezvous -----------------------------
(***************************************************************************)
(* What cryptoTools/Network promises to who adds channels: a host and a    *)
(* client channel whose names mirror each other get the two ends of one    *)
(* connection, each channel only once.                                     *)
(***************************************************************************)
CONSTANTS
  Hosts,     (* channels of hosting endpoints                              *)
  Clients,   (* channels of connecting endpoints                           *)
  Mirrors    (* pairs of a host and a client that name each other          *)

VARIABLES
  ready,     (* clients that connected                                     *)
  joined,    (* pairs that share a connection                              *)
  left       (* channels that were closed                                  *)

pairVars == <<ready, joined, left>>

PairInit == ready = {} /\ joined = {} /\ left = {}

Dial(c) == c \notin ready /\ ready' = ready \cup {c} /\ UNCHANGED <<joined, left>>

Join(h, c) ==
  /\ <<h, c>> \in Mirrors /\ c \in ready
  /\ \A pair \in joined : pair[1] # h /\ pair[2] # c
  /\ joined' = joined \cup {<<h, c>>} /\ UNCHANGED <<ready, left>>

Leave(x) ==
  /\ x \notin left
  /\ x \in ready \/ \E pair \in joined : pair[1] = x
  /\ left' = left \cup {x} /\ UNCHANGED <<ready, joined>>

PairNext == \/ \E c \in Clients : Dial(c)
            \/ \E h \in Hosts, c \in Clients : Join(h, c)
            \/ \E x \in Hosts \cup Clients : Leave(x)

PairSpec == PairInit /\ [][PairNext]_pairVars
=============================================================================
