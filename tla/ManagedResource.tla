-------------------------- MODULE ManagedResource --------------------------
(***************************************************************************)
(* What the operator promises for one custom resource, whatever provider   *)
(* serves it: the things it makes outside the custom resource (a database, *)
(* a bucket, a credential secret) exist only under a custom resource that  *)
(* it holds with its finalizer, and the custom resource is let go only     *)
(* when all of them are gone.                                              *)
(***************************************************************************)
CONSTANT Things    \* what the provider makes for the custom resource

VARIABLES
  claim,   \* "none", "asked", "held" (with the finalizer) or "released" (deleting)
  made     \* the things that exist

vars == <<claim, made>>

Init == claim = "none" /\ made = {}

Ask == claim = "none" /\ claim' = "asked" /\ UNCHANGED made
Withdraw == claim = "asked" /\ claim' = "none" /\ UNCHANGED made
Hold == claim = "asked" /\ claim' = "held" /\ UNCHANGED made
Release == claim = "held" /\ claim' = "released" /\ UNCHANGED made

\* A creation that was under way when the deletion was requested still lands.
Make(t) ==
  /\ claim \in {"held", "released"}
  /\ made' = made \cup {t}
  /\ UNCHANGED claim

Lose(t) == made' = made \ {t} /\ UNCHANGED claim

Forget ==
  /\ claim = "released"
  /\ made = {}
  /\ claim' = "none"
  /\ UNCHANGED made

Next ==
  \/ Ask \/ Withdraw \/ Hold \/ Release \/ Forget
  \/ \E t \in Things : Make(t) \/ Lose(t)

Spec == Init /\ [][Next]_vars
============================================================================
