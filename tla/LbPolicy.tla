------------------------------ MODULE LbPolicy ------------------------------
(***************************************************************************)
(* The name a cluster page gives to a cluster's load-balancing policy:     *)
(* formatLbPolicy() and describeLbPolicy() of xds-cluster-page.go.         *)
(*                                                                         *)
(* A policy is the sequence of what wraps what, outermost first: Subset is *)
(* a subset wrapper, Garbled one that does not unmarshal, anything else    *)
(* the type URL of a policy.  Where the sequence ends there is no config.  *)
(***************************************************************************)
EXTENDS Naturals, Sequences

CONSTANTS
  ShortName,      \* lbPolicyShortName() of the type URLs there are; may be ""
  Subset, Garbled,
  LegacyNames,    \* of the lb_policy enum
  MaxWrappers     \* a bound on nesting, for model checking

\* Neither the subset wrapper nor one that does not unmarshal is any other policy.
ASSUME PolicyAssumption ==
  /\ {Subset, Garbled} \cap DOMAIN ShortName = {} /\ Subset # Garbled
  /\ MaxWrappers \in Nat

ShallowDepth == 4   \* mutant: one level less
MaxDepth == 5

NoName == ""
NameOrSubset(name) == IF name = NoName THEN "SUBSET" ELSE name

Names == {NoName, "SUBSET"} \cup {ShortName[u] : u \in DOMAIN ShortName}

\* describeLbPolicy() at depth d, where the config number d + 1 stands; inner is
\* what the call for the next depth returns.
NameAt(cfg, d, inner) ==
  IF d >= Len(cfg) THEN NoName
  ELSE CASE cfg[d + 1] = Garbled -> "SUBSET"
         [] cfg[d + 1] = Subset -> NameOrSubset(inner)
         [] OTHER -> ShortName[cfg[d + 1]]

\* What the call for each depth returns, from what the call for the next does.
NamesAtDepths(cfg, name) ==
  /\ name[MaxDepth + 1] = NoName
  /\ \A d \in 0 .. MaxDepth : name[d] = NameAt(cfg, d, name[d + 1])

\* (A recursive function, as the CHOOSE that it stands for.)
DescribeLbPolicy(cfg) ==
  (CHOOSE name \in [0 .. MaxDepth + 1 -> Names] : NamesAtDepths(cfg, name))[0]

\* formatLbPolicy() looks at the first policy only.
FormatLbPolicy(policies, legacy) ==
  LET name == IF policies = <<>> THEN NoName ELSE DescribeLbPolicy(policies[1])
  IN  IF name = NoName THEN legacy ELSE name

-----------------------------------------------------------------------------
Wrapped(n, inner) == [i \in 1 .. n |-> Subset] \o inner
Named == {u \in DOMAIN ShortName : ShortName[u] # NoName}
Innermost == {<<>>, <<Garbled>>} \cup {<<u>> : u \in DOMAIN ShortName}

\* What "unwrapping the subset wrapper to show the real policy" gives: the innermost
\* policy is shown through any five wrappers; where there is none with a name
\* at that depth, the wrapper is; and the legacy field, whose default would
\* mislead, only if there is neither.
FormatsRealPolicy ==
  \A n \in 0 .. MaxWrappers, legacy \in LegacyNames :
    /\ \A inner \in Innermost :
         FormatLbPolicy(<<Wrapped(n, inner)>>, legacy) =
           CASE inner \in {<<u>> : u \in Named} /\ n <= 5 -> ShortName[inner[1]]
             [] n = 0 /\ inner \notin {<<u>> : u \in Named \cup {Garbled}} -> legacy
             [] OTHER -> "SUBSET"
    /\ FormatLbPolicy(<<>>, legacy) = legacy
=============================================================================
