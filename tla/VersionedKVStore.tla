-------------------------- MODULE VersionedKVStore --------------------------
(***************************************************************************)
(* nistore/versionedKVStore.cc: key -> list of (timestamp, value), newest  *)
(* first.  A store is a function from the keys present in the C++          *)
(* unordered_map to a sequence whose first element is list::front().       *)
(*                                                                         *)
(* A key stays in the map when remove() pops its last version, so a key    *)
(* can map to the empty sequence.  front() of an empty std::list reads the *)
(* list header: in libstdc++ the timestamp field of that pseudo-node is    *)
(* the list's size field (0) and the string is unrelated memory.  That     *)
(* undefined read is modelled as the version [ts |-> GarbageTs, val |->    *)
(* Garbage].                                                               *)
(***************************************************************************)
EXTENDS Integers, SequencesExt

CONSTANTS
  Garbage,   \* the string read from an empty list's header (model value)
  NoValue    \* the value field of a failed lookup (model value)

GarbageTs == 0

Version(ts, val) == [ts |-> ts, val |-> val]

NotFound == [found |-> FALSE, ts |-> 0, val |-> NoValue]
Found(v) == [found |-> TRUE, ts |-> v.ts, val |-> v.val]

\* list::front(), undefined on an empty list
Front1(l) == IF l = <<>> THEN Version(GarbageTs, Garbage) ELSE Head(l)

\* get(key, value): the most recent version, or false if the key is absent.
get(s, key) ==
  IF key \notin DOMAIN s THEN NotFound ELSE Found(Front1(s[key]))

\* get(key, timestamp, value): the first version not newer than timestamp.
getAt(s, key, timestamp) ==
  IF key \notin DOMAIN s THEN NotFound
  ELSE LET i == SelectInSeq(s[key], LAMBDA v : timestamp >= v.ts)
       IN IF i = 0 THEN NotFound ELSE Found(s[key][i])

\* put(key, value, timestamp): a new key gets a one-element list; a version
\* newer than the front is pushed in front; otherwise it is inserted before
\* the first older version, and dropped when there is none.
put(s, key, value, timestamp) ==
  LET v == Version(timestamp, value)
  IN IF key \notin DOMAIN s THEN (key :> <<v>>) @@ s
     ELSE IF timestamp > Front1(s[key]).ts THEN [s EXCEPT ![key] = <<v>> \o @]
     ELSE LET i == SelectInSeq(s[key], LAMBDA w : timestamp > w.ts)
          IN IF i = 0 THEN s ELSE [s EXCEPT ![key] = InsertAt(@, i, v)]

\* remove(key, value) succeeds when the key is present; popping an empty
\* list is undefined, so callers treat it as a failure.
removable(s, key) == key \in DOMAIN s /\ s[key] # <<>>

remove(s, key) == [s EXCEPT ![key] = Tail(@)]

=============================================================================
