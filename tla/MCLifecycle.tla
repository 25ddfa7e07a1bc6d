---------------------------- MODULE MCLifecycle -----------------------------
(* Programs of the repository, scaled down, for Lifecycle.                 *)
EXTENDS Lifecycle, TLC

End(s, p, h, n)      == [service |-> s, port |-> p, host |-> h, name |-> n]
Chl(e, l, r, th, i)  == [endpoint |-> e, local |-> l, remote |-> r, thread |-> th, place |-> i]

NoFaults == {}
NoGrowth == {}

(* BtNetwork_CrossConnect_Test: two channels with crossed names, which     *)
(* the two threads add in orders of their own.                             *)
CrossServices == {"sA", "sB"}
CrossPorts    == {1}
CrossEndpoint == "eA" :> End("sA", 1, TRUE, "endpoint") @@ "eB" :> End("sB", 1, FALSE, "endpoint")
CrossChannel  ==
     "hr" :> Chl("eA", "recv", "send", "A", 1) @@ "hs" :> Chl("eA", "send", "recv", "A", 2)
  @@ "cs" :> Chl("eB", "send", "recv", "B", 1) @@ "cr" :> Chl("eB", "recv", "send", "B", 2)

(* BtNetwork_ConnectMany_Test: every channel is added by its own thread.   *)
ManyChannel == [c \in DOMAIN CrossChannel |-> [CrossChannel[c] EXCEPT !.thread = c]]

(* Two hosting endpoints on one port, as in BtNetwork_ManyEndpoints_Test,  *)
(* with the same names of channels.                                        *)
SharedEndpoint ==
     "e1" :> End("sA", 1, TRUE, "one")  @@ "e2" :> End("sA", 1, TRUE, "two")
  @@ "f1" :> End("sB", 1, FALSE, "one") @@ "f2" :> End("sB", 1, FALSE, "two")
SharedChannel  ==
     "h1" :> Chl("e1", "recv", "send", "h1", 1) @@ "h2" :> Chl("e2", "recv", "send", "h2", 1)
  @@ "c1" :> Chl("f1", "send", "recv", "c1", 1) @@ "c2" :> Chl("f2", "send", "recv", "c2", 1)
=============================================================================
