------------------------------ MODULE Replica -------------------------------
(***************************************************************************)
(* What the tree of caches promises about the data its const getters read, *)
(* without durations, refresh times, levels or the order of requests.      *)
(*                                                                         *)
(* Each root cache keeps a replica of its part of the bridge's resources.  *)
(* It changes by snapshots only: one request replaces the whole of it or   *)
(* one of its parts by what the bridge had at one moment of that request,  *)
(* and what was gone then goes.  No part is brought before the whole.  The *)
(* replica of an object that is constructed may begin with what another    *)
(* one knows.                                                              *)
(***************************************************************************)
EXTENDS Integers

CONSTANTS Replicas,   \* the roots
          Resources,  \* paths of the bridge's resource tree
          Permanent,  \* resources that always exist
          Whole,      \* Whole[r]: the resources replica r is about
          Parts       \* Parts[r]: what one request may bring of them

VARIABLES now,     \* the clock
          exists,  \* the resources that exist at the bridge
          filled,  \* the replicas that have been brought, or seeded
          view     \* view[r][q]: when the bridge served what r has of q, or Nothing

replicaVars == <<now, exists, filled, view>>

Nothing == 0

Init ==
  /\ now = 1
  /\ exists = Resources
  /\ filled = {}
  /\ view = [r \in Replicas |-> [q \in Resources |-> Nothing]]

\* Time passes, and resources come and go at the bridge.
Wait ==
  /\ now' >= now
  /\ Permanent \subseteq exists' /\ exists' \subseteq Resources
  /\ UNCHANGED <<filled, view>>

Snapshot(old, part, served) ==
  [q \in Resources |-> IF q \notin part THEN old[q]
                       ELSE IF q \in exists THEN served ELSE Nothing]

Bring(r) ==
  /\ now' >= now
  /\ \E part \in Parts[r], served \in now .. now' :
       /\ r \in filled \/ part = Whole[r]
       /\ view' = [view EXCEPT ![r] = Snapshot(view[r], part, served)]
  /\ filled' = filled \cup {r}
  /\ UNCHANGED exists

Seed(r, s) ==
  /\ s \in filled \ {r}
  /\ \A q \in Whole[r] : view[s][q] # Nothing
  /\ view' = [view EXCEPT ![r] = [q \in Resources |-> IF q \in Whole[r] THEN view[s][q]
                                                     ELSE view[r][q]]]
  /\ filled' = filled \cup {r}
  /\ UNCHANGED <<now, exists>>

Next == Wait \/ \E r \in Replicas : Bring(r) \/ \E s \in Replicas : Seed(r, s)

Spec == Init /\ [][Next]_replicaVars
=============================================================================
