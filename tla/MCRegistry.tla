----------------------------- MODULE MCRegistry -----------------------------
(***************************************************************************)
(* An instance of Registry for TLC.  n1 and n2 run on one machine with     *)
(* -transport tcp (ports 8080 and 8081, peers at 9080 and 9081), n3 runs   *)
(* on another over HTTP (port 8080): n1 and n3 both are "localhost:8080"   *)
(* to themselves.                                                          *)
(***************************************************************************)
EXTENDS Registry

CONSTANTS n1, n2, n3, secret, other, lengthy

MCMode == n1 :> "tcp" @@ n2 :> "tcp" @@ n3 :> "http"

MCLocalAddress ==
    "http" :> (n1 :> "localhost:8080" @@ n2 :> "localhost:8081" @@ n3 :> "localhost:8080")
    @@ "tcp" :> (n1 :> "localhost:9080" @@ n2 :> "localhost:9081" @@ n3 :> "localhost:9080")

At(t, p) == [transport |-> t, peer |-> p]

\* The names of the machines mean the same on both.
OnNetwork ==
    "A:8080" :> At("http", n1) @@ "A:9080" :> At("tcp", n1)
    @@ "A:8081" :> At("http", n2)
OnA == "localhost:8080" :> At("http", n1) @@ "localhost:9080" :> At("tcp", n1)
    @@ "localhost:8081" :> At("http", n2) @@ "localhost:9081" :> At("tcp", n2)
    @@ OnNetwork
OnB == "localhost:8080" :> At("http", n3) @@ "localhost:9080" :> At("none", n3)
    @@ "localhost:8081" :> At("none", n3) @@ "localhost:9081" :> At("none", n3)
    @@ OnNetwork
MCReaches == n1 :> OnA @@ n2 :> OnA @@ n3 :> OnB
MCAddress == DOMAIN OnA

\* n1 is started alone; n2 lists it under two names, and one of them twice; n3
\* lists the HTTP ports of both.
MCPeersFlag ==
    n1 :> <<>> @@ n2 :> <<"localhost:9080", "A:9080", "localhost:9080">>
    @@ n3 :> <<"A:8080", "A:8081">>

\* The password of n1 is too long to be hashed; n2 does not admit n3.
MCNetworkPassword == n1 :> lengthy @@ n2 :> secret @@ n3 :> other
MCCompared == OpenNetwork :> OpenNetwork @@ secret :> secret
           @@ other :> other @@ lengthy :> "72 bytes"
=============================================================================
