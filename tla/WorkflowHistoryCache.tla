-------------------------- MODULE WorkflowHistoryCache --------------------------
(***************************************************************************)
(* WorkflowHistoryCache: the committed histories a worker keeps so that the *)
(* sidecar need only send what is new, and the token of the newest dispatch *)
(* received for each instance.  Every operation is atomic: it holds the lock, *)
(* or is one call of the concurrent map of tokens.                          *)
(*                                                                         *)
(* Time is the order in which the entries were last used: those a sweep     *)
(* finds expired are the first of that order.  An event takes one byte.     *)
(***************************************************************************)
EXTENDS Naturals, FiniteSets, SequencesExt, Functions

CONSTANTS
  Instances,     \* workflow instance ids
  MaxInstances,  \* the cap on entries
  MaxBytes,      \* the byte budget, 0 for none
  MaxEvents      \* bound: the length of a history, where the cache is checked by itself

ASSUME CacheAssumption ==
  MaxInstances \in Nat \ {0} /\ MaxBytes \in Nat /\ MaxEvents \in Nat

VARIABLES
  entries,       \* instance -> [events, bytes]
  totalBytes,
  lastAccess,    \* the instances that have an entry, least recently used first
  latestTokens   \* instance -> completion token of its newest dispatch

cacheVars == <<entries, totalBytes, lastAccess, latestTokens>>

NoEntries == [i \in {} |-> 0]

CacheInit ==
  /\ entries = NoEntries /\ totalBytes = 0 /\ lastAccess = <<>>
  /\ latestTokens = NoEntries

\* Map.put
Put(f, key, value) == [k \in DOMAIN f \union {key} |-> IF k = key THEN value ELSE f[k]]
Without(f, keys) == Restrict(f, DOMAIN f \ keys)

Touched(instance) == Append(RemoveFirst(lastAccess, instance), instance)

\* A mistake the runs must notice: the entry that is replaced is counted on.
BytesNeverGivenBack(instances) == 0

\* The bytes of these instances' entries.
BytesOf(instances) ==
  FoldFunctionOnSet(LAMBDA e, sum : e.bytes + sum, 0, entries, instances \intersect DOMAIN entries)

\* get: a hit is used just now.
Get(instance) ==
  /\ lastAccess' = IF instance \in DOMAIN entries THEN Touched(instance) ELSE lastAccess
  /\ UNCHANGED <<entries, totalBytes, latestTokens>>

\* A mistake the runs must notice: only the number of entries is looked at.
CountFits(count, bytes) == count <= MaxInstances

Fits(count, bytes) ==
  /\ count <= MaxInstances
  /\ MaxBytes > 0 => bytes <= MaxBytes

\* put, with evictToFit: the least recently used go until the rest fits or only the new
\* entry is left, which stays however large it is.
PutHistory(instance, events) ==
  LET order == Touched(instance)
      bytes == IF MaxBytes > 0 THEN Len(events) ELSE 0
      total == totalBytes - BytesOf({instance}) + bytes
      oldest(n) == {order[k] : k \in 1 .. n}
      enough(n) == \/ n = Len(order) - 1
                   \/ Fits(Len(order) - n, total - BytesOf(oldest(n)))
      evicted == CHOOSE n \in 0 .. Len(order) - 1 :
                   enough(n) /\ \A m \in 0 .. n - 1 : ~enough(m)
  IN /\ entries' = Without(Put(entries, instance, [events |-> events, bytes |-> bytes]),
                           oldest(evicted))
     /\ totalBytes' = total - BytesOf(oldest(evicted))
     /\ lastAccess' = SubSeq(order, evicted + 1, Len(order))
     /\ UNCHANGED latestTokens

\* These entries go; the others' order of use is what remains.
Drop(instances, remaining) ==
  /\ entries' = Without(entries, instances)
  /\ totalBytes' = totalBytes - BytesOf(instances)
  /\ lastAccess' = remaining
  /\ UNCHANGED latestTokens

RemoveHistory(instance) == Drop({instance}, RemoveFirst(lastAccess, instance))

\* Some entries, the least recently used ones, have not been used for longer than the TTL.
SweepExpired ==
  \E n \in 1 .. Len(lastAccess) :
    Drop({lastAccess[k] : k \in 1 .. n}, SubSeq(lastAccess, n + 1, Len(lastAccess)))

NoteDispatch(instance, token) ==
  /\ latestTokens' = Put(latestTokens, instance, token)
  /\ UNCHANGED <<entries, totalBytes, lastAccess>>

\* A mistake the runs must notice: any dispatch may write.
AnyDispatch(instance, token) == TRUE

\* An instance without a marker accepts any token.
IsLatestDispatch(instance, token) ==
  instance \in DOMAIN latestTokens => latestTokens[instance] = token

ForgetDispatch(instance) ==
  /\ latestTokens' = Without(latestTokens, {instance})
  /\ UNCHANGED <<entries, totalBytes, lastAccess>>

\* reset: the markers stay.
Reset ==
  /\ entries' = NoEntries /\ totalBytes' = 0 /\ lastAccess' = <<>>
  /\ UNCHANGED latestTokens

\* Any calls, in any order, on histories of up to MaxEvents events.
CacheNext ==
  \/ \E i \in Instances :
       \/ Get(i) \/ RemoveHistory(i) \/ ForgetDispatch(i)
       \/ \E n \in 0 .. MaxEvents : PutHistory(i, [k \in 1 .. n |-> k])
       \/ \E token \in {1, 2} : NoteDispatch(i, token)
  \/ SweepExpired \/ Reset

CacheSpec == CacheInit /\ [][CacheNext]_cacheVars

-----------------------------------------------------------------------------
\* The order of use names the instances with an entry, once each, and the running total is
\* what the entries take: put subtracts what it replaces, eviction and sweep what they drop.
CacheConsistent ==
  /\ ToSet(lastAccess) = DOMAIN entries /\ Len(lastAccess) = Cardinality(DOMAIN entries)
  /\ totalBytes = BytesOf(Instances)

\* The cache stays within its bounds, or holds one entry that is too large by itself.
CacheWithinBounds ==
  /\ Cardinality(DOMAIN entries) <= MaxInstances
  /\ MaxBytes > 0 /\ Cardinality(DOMAIN entries) > 1 => totalBytes <= MaxBytes
=============================================================================
