-------------------------- MODULE MCXdsClusterJoin --------------------------
(***************************************************************************)
(* A small instance of XdsClusterJoin for TLC: two clusters and two EDS    *)
(* resources; two addresses have the port of a DNS cluster's endpoint, and *)
(* one is IPv6, as it is in the dump, where formatSocketAddress() puts no  *)
(* brackets around its host (it then has too many colons for               *)
(* net.SplitHostPort), and as gRPC writes it.                              *)
(***************************************************************************)
EXTENDS XdsClusterJoin, TLC

SomeAddresses == {"", "10.0.0.1:80", "[::1]:80", "::1:80", "10.0.0.2:443", "db:443"}
SomePortValues == [a \in SomeAddresses |-> CASE a = "" -> 0 [] a \in {"10.0.0.2:443", "db:443"} -> 443
                                             [] OTHER -> 80]
SomePorts == [SomePortValues EXCEPT !["::1:80"] = 0]
SomeSubchannels == 1..3
SomeEndpoints == {{"::1:80"}, {"10.0.0.2:443", ""}, {"10.0.0.1:80", "10.0.0.2:443"}}
SomeInline == {{}, {"db:443"}}

SomeNames == "lb.v3.RoundRobin" :> "ROUND_ROBIN" @@ "lb.v3.LeastRequest" :> "LEAST_REQUEST"
               @@ "type.googleapis.com/" :> ""
=============================================================================
