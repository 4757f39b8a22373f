----------------------------- MODULE KeyValueMap -----------------------------
(***************************************************************************)
(* What hashtable.h promises to _tracemalloc.c: a table is a map from keys *)
(* to data, whatever number of buckets it has, and the copy of a table is  *)
(* the map it was copied from.  Nothing here hashes; memory may run out,   *)
(* and then the map is as it was.                                          *)
(***************************************************************************)
CONSTANTS Keys, Data,
          NoData,        \* what a lookup returns for a key that is absent
          NoMap,         \* there is no copy
          Done, Failed,  \* the outcomes of the other calls
          MayFail        \* may memory run out?

VARIABLES content,  \* the map
          copied,   \* the last copy made of it
          result    \* what the last call returned

vars == <<content, copied, result>>

Init ==
  /\ content = [k \in {} |-> NoData]
  /\ copied = NoMap
  /\ result = Done

\* set(), of a key that is absent.
Put(k, d) ==
  /\ k \notin DOMAIN content
  /\ content' = [j \in DOMAIN content \cup {k} |->
                   IF j = k THEN d ELSE content[j]]
  /\ result' = Done
  /\ UNCHANGED copied

ValueOf(k) == IF k \in DOMAIN content THEN content[k] ELSE NoData

\* get().
Lookup(k) ==
  /\ result' = ValueOf(k)
  /\ UNCHANGED <<content, copied>>

\* pop(), or delete().
Remove(k) ==
  /\ result' = ValueOf(k)
  /\ content' = [j \in DOMAIN content \ {k} |-> content[j]]
  /\ UNCHANGED copied

\* clear().
Empty ==
  /\ content' = [k \in {} |-> NoData]
  /\ result' = Done
  /\ UNCHANGED copied

Duplicate ==
  /\ copied' = content
  /\ result' = Done
  /\ UNCHANGED content

\* set() or copy() without memory.
Fail ==
  /\ MayFail
  /\ result' = Failed
  /\ copied' \in {copied, NoMap}
  /\ UNCHANGED content

Next ==
  \/ \E k \in Keys, d \in Data : Put(k, d)
  \/ \E k \in Keys : Lookup(k) \/ Remove(k)
  \/ Empty \/ Duplicate \/ Fail

Spec == Init /\ [][Next]_vars

=============================================================================
