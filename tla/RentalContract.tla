--------------------------- MODULE RentalContract ---------------------------
(***************************************************************************)
(* What a pool promises its clients, without packs, queue or indices: a    *)
(* handle is granted a resource that nobody has, handles share it, and it  *)
(* can be granted again only after its last handle dropped it and its      *)
(* destructor gave it back.                                                *)
(***************************************************************************)
CONSTANTS
  Handles,  \* the clients' LockedResource variables
  Rentable, \* everything that can be rented
  None      \* no resource

VARIABLES
  holds,    \* Handle -> what it has locked
  returning \* rented resources whose last handle is gone

contractVars == <<holds, returning>>

Free(r) == r \notin returning /\ \A h \in Handles : holds[h] # r

Init == holds = [h \in Handles |-> None] /\ returning = {}

Grant(h, r) ==
  /\ holds[h] = None /\ Free(r)
  /\ holds' = [holds EXCEPT ![h] = r]
  /\ UNCHANGED returning

Share(h, g) ==
  /\ holds[h] # None /\ holds[g] = None
  /\ holds' = [holds EXCEPT ![g] = holds[h]]
  /\ UNCHANGED returning

Drop(h) ==
  /\ holds[h] # None
  /\ holds' = [holds EXCEPT ![h] = None]
  /\ returning' = IF \E g \in Handles \ {h} : holds[g] = holds[h]
                  THEN returning
                  ELSE returning \cup {holds[h]}

GiveBack(r) ==
  /\ r \in returning
  /\ returning' = returning \ {r}
  /\ UNCHANGED holds

Next ==
  \/ \E h \in Handles, r \in Rentable : Grant(h, r)
  \/ \E h, g \in Handles : Share(h, g)
  \/ \E h \in Handles : Drop(h)
  \/ \E r \in Rentable : GiveBack(r)

Spec == Init /\ [][Next]_contractVars
=============================================================================
