----------------------------- MODULE ObjectMap -----------------------------
(* What a storage backend promises its callers about the contents of the   *)
(* store: a key holds nothing or one whole object, and changes in one step *)
(* from what it held to what one call in flight was about to store (or to  *)
(* nothing, for a deletion).  A call takes effect at most once, and one    *)
(* that fails, or whose process ends, may have taken effect or not.        *)
CONSTANTS Key, Proc, Object, Nothing

VARIABLES
  objects,  \* what each key holds
  offers    \* what each call in flight may still store, and under which key

Offer == [key : Key, object : Object \cup {Nothing}] \cup [key : Key, from : Key]

Init ==
  /\ objects \in [Key -> Object \cup {Nothing}]
  /\ offers = [p \in Proc |-> {}]

\* A call knows what it will store: an object, or what another key holds by
\* then.
Ask(p) ==
  /\ offers[p] = {} /\ \E o \in offers'[p] : o \in Offer /\ offers'[p] = {o}
  /\ offers' = [offers EXCEPT ![p] = offers'[p]]
  /\ UNCHANGED objects

Publish(p) ==
  \E o \in offers[p] :
    /\ LET object == IF "from" \in DOMAIN o THEN objects[o.from] ELSE o.object
       IN /\ "from" \in DOMAIN o => object # Nothing
          /\ objects' = [objects EXCEPT ![o.key] = object]
    /\ offers' = [offers EXCEPT ![p] = {}]

\* Calls end without an effect; a crash ends all of them.
Withdraw(P) ==
  /\ offers' = [p \in Proc |-> IF p \in P THEN {} ELSE offers[p]]
  /\ UNCHANGED objects

Next ==
  \/ \E p \in Proc : Publish(p) \/ Ask(p)
  \/ \E P \in SUBSET Proc : Withdraw(P)

Spec == Init /\ [][Next]_<<objects, offers>>
=============================================================================
