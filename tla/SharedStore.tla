----------------------------- MODULE SharedStore -----------------------------
(***************************************************************************)
(* What RedisOperations promises its callers: each write is one atomic     *)
(* update of its key, and get_trades / get_orders_and_delete take in one   *)
(* step all that the key holds, hand it to one caller and to nobody else.  *)
(* A taken batch may be dropped, and a key may vanish when its time is up; *)
(* an operation that has already read the key then works on what it held.  *)
(***************************************************************************)
CONSTANTS Clients, Keys, Args

VARIABLES
  data,    \* data[k]: what key k holds
  ended,   \* ended[k]: what k held when it expired, until it is written again
  hand,    \* hand[c]: taken by client c, not returned to its caller yet
  taken    \* taken[k]: what callers have been given

vars == <<data, ended, hand, taken>>

Init ==
  /\ data = [k \in Keys |-> {}]
  /\ ended = [k \in Keys |-> {}]
  /\ hand = [c \in Clients |-> {}]
  /\ taken = [k \in Keys |-> {}]

Merged(old, new) ==
  {i \in old : \A n \in new : n.field # i.field} \cup new

\* What an operation on k may find.
Found(k) == {data[k], ended[k]}

Becomes(k, content) ==
  /\ data' = [data EXCEPT ![k] = content]
  /\ ended' = [ended EXCEPT ![k] = {}]

Update(k, a) ==
  /\ \E found \in Found(k) :
       \/ Becomes(k, Merged(found, a))
       \/ Becomes(k, found \cup a)
       \/ Becomes(k, a)
  /\ UNCHANGED <<hand, taken>>

Take(c, k) ==
  /\ \E found \in Found(k) : hand' = [hand EXCEPT ![c] = found]
  /\ Becomes(k, {})
  /\ UNCHANGED taken

Return(c, k) ==
  /\ taken' = [taken EXCEPT ![k] = @ \cup hand[c]]
  /\ hand' = [hand EXCEPT ![c] = {}]
  /\ UNCHANGED <<data, ended>>

Drop(c) ==
  /\ hand' = [hand EXCEPT ![c] = {}]
  /\ UNCHANGED <<data, ended, taken>>

\* delete_* methods, and a take whose reply is lost.
Clear(k) == Becomes(k, {}) /\ UNCHANGED <<hand, taken>>

Expire(k) ==
  /\ data' = [data EXCEPT ![k] = {}]
  /\ ended' = [ended EXCEPT ![k] = data[k]]
  /\ UNCHANGED <<hand, taken>>

Next ==
  \/ \E k \in Keys : Clear(k) \/ Expire(k) \/ \E a \in Args : Update(k, a)
  \/ \E c \in Clients : Drop(c) \/ \E k \in Keys : Take(c, k) \/ Return(c, k)

Spec == Init /\ [][Next]_vars

=============================================================================
