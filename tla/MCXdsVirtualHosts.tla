------------------------- MODULE MCXdsVirtualHosts --------------------------
(***************************************************************************)
(* A small instance of XdsVirtualHosts for TLC: two targets, whose         *)
(* resources, prefixed or raw, are the names in the dump.                  *)
(***************************************************************************)
EXTENDS XdsVirtualHosts

SomeResources == {"users:443", "billing:443"}
SomeNames == SomeResources \cup {"sidecar/http2/users:443", "sidecar/http2/billing:443"}
SomeSidecar == [r \in SomeResources |->
  IF r = "users:443" THEN "sidecar/http2/users:443" ELSE "sidecar/http2/billing:443"]
SomeFields == {"users:443", "default"}
=============================================================================
