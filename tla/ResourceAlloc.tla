---------------------------- MODULE ResourceAlloc ----------------------------
(***************************************************************************)
(* What Pools (resource.rs) promises its users, as its header comment puts *)
(* it: a user can block until an arbitrary combination of numbers of       *)
(* tokens becomes available, without underutilization or deadlock.         *)
(* Tokens are only counted here, and a request is served in one step or    *)
(* not at all.                                                             *)
(***************************************************************************)
EXTENDS Naturals

CONSTANTS
  Clients,   \* users of the pools
  Keys,      \* kinds of token
  Want,      \* Want[c][k]: how many tokens of kind k client c asks for
  Initial    \* Initial[k]: tokens of kind k there are at first

VARIABLES
  free,      \* free[k]: tokens of kind k that nobody holds
  asking,    \* clients whose request is pending
  holding,   \* clients whose request was served
  retired    \* kinds whose tokens were taken away for good

vars == <<free, asking, holding, retired>>

Init ==
  /\ free = Initial
  /\ asking = {}
  /\ holding = {}
  /\ retired = {}

Servable(c) == \A k \in Keys : Want[c][k] <= free[k]

Ask(c) ==
  /\ c \notin asking \cup holding
  /\ asking' = asking \cup {c}
  /\ UNCHANGED <<free, holding, retired>>

Serve(c) ==
  /\ c \in asking
  /\ Servable(c)
  /\ free' = [k \in Keys |-> free[k] - Want[c][k]]
  /\ asking' = asking \ {c}
  /\ holding' = holding \cup {c}
  /\ UNCHANGED retired

GiveUp(c) ==
  /\ c \in asking
  /\ asking' = asking \ {c}
  /\ UNCHANGED <<free, holding, retired>>

\* Whoever uses a kind that was retired may lose any of its tokens.
GiveBack(c) ==
  /\ c \in holding
  /\ \E K \in SUBSET Keys :
       /\ (\A k \in retired : Want[c][k] = 0) => K = Keys
       /\ free' = [k \in Keys |-> IF k \in K THEN free[k] + Want[c][k] ELSE free[k]]
  /\ holding' = holding \ {c}
  /\ UNCHANGED <<asking, retired>>

\* A token of kind k is added.
Supply(k) ==
  /\ free' = [free EXCEPT ![k] = @ + 1]
  /\ UNCHANGED <<asking, holding, retired>>

\* The free tokens of kind k are taken away for good.
Retire(k) ==
  /\ free' = [free EXCEPT ![k] = 0]
  /\ retired' = retired \cup {k}
  /\ UNCHANGED <<asking, holding>>

Next ==
  \/ \E c \in Clients : Ask(c) \/ Serve(c) \/ GiveUp(c) \/ GiveBack(c)
  \/ \E k \in Keys : Supply(k) \/ Retire(k)

Spec == Init /\ [][Next]_vars

\* No underutilization: while some pending request can be served, some request
\* eventually is, as long as nothing is retired.
FairSpec == Spec /\ WF_vars(retired = {} /\ \E c \in Clients : Serve(c))
=============================================================================
