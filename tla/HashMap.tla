------------------------------ MODULE HashMap ------------------------------
(***************************************************************************)
(* The hash map under the VB mappings and the ION table,                   *)
(* modules/sys/src/hashmap.c: an array of chains of entries, doubled when  *)
(* it is more than three quarters full, and not at all when there is no    *)
(* memory for it.                                                          *)
(*                                                                         *)
(* A chain is the set of its entries: their order decides nothing as long  *)
(* as a key occurs once (KeysUnique).  An index is a hash modulo the       *)
(* number of chains, as the code's mask computes it for powers of two      *)
(* (MaskIsModulo).  The map does not lock itself: its callers do, so that  *)
(* every operation is one step.  Its users compare keys as the numbers     *)
(* they are, and no value is a null pointer.                               *)
(***************************************************************************)
EXTENDS Naturals, FiniteSets

CONSTANTS
  Keys, Values, Null,
  Hash,              \* hashKey, after the secondary hashing
  InitialCapacity    \* hashmapCreate's first argument

ASSUME HashMapAssumption ==
  /\ Hash \in [Keys -> Nat]
  /\ InitialCapacity \in Nat
  /\ Null \notin Values

VARIABLES
  bucketCount,  \* number of chains, 0 when there is no map
  buckets,      \* the chains
  size,         \* number of entries, as counted
  ret           \* what the last call returned

vars == <<bucketCount, buckets, size, ret>>

Entry == [key : Keys, hash : Nat, value : Values]

TypeOK ==
  /\ bucketCount \in Nat
  /\ buckets \in [0 .. bucketCount - 1 -> SUBSET Entry]
  /\ size \in Nat
  /\ ret \in Values \cup {Null}

Init ==
  /\ bucketCount = 0
  /\ buckets = [i \in {} |-> {}]
  /\ size = 0
  /\ ret = Null

live == bucketCount # 0

CalculateIndex(n, hash) == hash % n

\* The chain a key belongs to, and the entries with that key in it.
Index(k) == CalculateIndex(bucketCount, Hash[k])
Found(k) == {e \in buckets[Index(k)] : e.key = k}

\* Nothing odd divides n but 1.
IsPowerOfTwo(n) ==
  n # 0 /\ \A d, q \in 1 .. n : n = d * q => d = 1 \/ d % 2 = 0

-----------------------------------------------------------------------------
\* hashmapCreate: the least power of two that is more than capacity / 0.75.
Create ==
  LET minimum == (InitialCapacity * 4) \div 3 IN
  /\ ~live
  /\ bucketCount' \in {n \in 1 .. 2 * minimum + 1 :
                         IsPowerOfTwo(n) /\ n > minimum /\ n \div 2 <= minimum}
  /\ buckets' = [i \in 0 .. bucketCount' - 1 |-> {}]
  /\ size' = 0
  /\ UNCHANGED ret

\* hashmapFree frees the entries that are left.
Free ==
  /\ live
  /\ bucketCount' = 0
  /\ buckets' = [i \in {} |-> {}]
  /\ size' = 0
  /\ UNCHANGED ret

\* The entries of the chains b.
Chained(b) == UNION {b[i] : i \in DOMAIN b}

\* Mutant: the new index is computed with the old number of chains.
RehashOldIndex(b, n) ==
  [i \in 0 .. n - 1 |->
     {e \in Chained(b) : CalculateIndex(bucketCount, e.hash) = i}]

\* Mutant: only the first entry of a chain is moved.
RehashFirstOnly(b, n) ==
  [i \in 0 .. n - 1 |->
     {e \in {CHOOSE f \in b[j] : TRUE : j \in {j \in DOMAIN b : b[j] # {}}} :
        CalculateIndex(n, e.hash) = i}]

\* The same entries in n chains.
Rehash(b, n) ==
  [i \in 0 .. n - 1 |->
     {e \in Chained(b) : CalculateIndex(n, e.hash) = i}]

\* Mutant: the number of chains grows by half.
ExpandByHalf(b) ==
  \/ /\ size' > (bucketCount * 3) \div 4
     /\ bucketCount' = bucketCount + (bucketCount + 1) \div 2
     /\ buckets' = Rehash(b, bucketCount')
  \/ buckets' = b /\ UNCHANGED bucketCount

\* expandIfNecessary, for the chains b and the size it is called with.
\* Without memory for the new chains the old ones stay.
ExpandIfNecessary(b) ==
  \/ /\ size' > (bucketCount * 3) \div 4
     /\ bucketCount' = 2 * bucketCount
     /\ buckets' = Rehash(b, bucketCount')
  \/ buckets' = b /\ UNCHANGED bucketCount

\* Mutant: the chain is not searched for the key.
PutWithoutSearch(k, v) ==
  /\ live
  /\ size' = size + 1
  /\ ExpandIfNecessary([buckets EXCEPT ![Index(k)] =
                          @ \cup {[key |-> k, hash |-> Hash[k], value |-> v]}])
  /\ ret' = Null

\* hashmapPut of a key that is not in the map.
PutNew(k, v) ==
  /\ live /\ Found(k) = {}
  /\ size' = size + 1
  /\ ExpandIfNecessary([buckets EXCEPT ![Index(k)] =
                          @ \cup {[key |-> k, hash |-> Hash[k], value |-> v]}])
  /\ ret' = Null

\* createEntry finds no memory: errno is set, and Null is returned all the same.
PutFails(k) ==
  /\ live /\ Found(k) = {}
  /\ ret' = Null
  /\ UNCHANGED <<bucketCount, buckets, size>>

\* Mutant: an entry that is replaced is counted again.
PutReplaceCounts(k, v) ==
  /\ live
  /\ \E e \in Found(k) :
       /\ buckets' = [buckets EXCEPT ![Index(k)] =
                        (@ \ {e}) \cup {[e EXCEPT !.value = v]}]
       /\ ret' = e.value
  /\ size' = size + 1
  /\ UNCHANGED bucketCount

PutReplace(k, v) ==
  /\ live
  /\ \E e \in Found(k) :
       /\ buckets' = [buckets EXCEPT ![Index(k)] =
                        (@ \ {e}) \cup {[e EXCEPT !.value = v]}]
       /\ ret' = e.value
  /\ UNCHANGED <<bucketCount, size>>

Get(k) ==
  /\ live
  /\ \/ \E e \in Found(k) : ret' = e.value
     \/ Found(k) = {} /\ ret' = Null
  /\ UNCHANGED <<bucketCount, buckets, size>>

\* Mutant: a removal counts down although nothing was found.
RemoveCounts(k) ==
  /\ live
  /\ \/ \E e \in Found(k) :
          /\ buckets' = [buckets EXCEPT ![Index(k)] = @ \ {e}]
          /\ ret' = e.value
     \/ Found(k) = {} /\ ret' = Null /\ UNCHANGED buckets
  /\ size' = size - 1
  /\ UNCHANGED bucketCount

Remove(k) ==
  /\ live
  /\ \/ \E e \in Found(k) :
          /\ buckets' = [buckets EXCEPT ![Index(k)] = @ \ {e}]
          /\ ret' = e.value
          /\ size' = size - 1
     \/ Found(k) = {} /\ ret' = Null /\ UNCHANGED <<buckets, size>>
  /\ UNCHANGED bucketCount

-----------------------------------------------------------------------------
Next ==
  \/ Create \/ Free
  \/ \E k \in Keys :
       \/ Get(k) \/ Remove(k) \/ PutFails(k)
       \/ \E v \in Values : PutNew(k, v) \/ PutReplace(k, v)

Spec == Init /\ [][Next]_vars

-----------------------------------------------------------------------------
Entries == Chained(buckets)

\* Every entry is in the chain in which its key is looked for, whatever the
\* number of chains was when it was put (hashmap.c:89-122).
EntriesPlaced ==
  \A i \in 0 .. bucketCount - 1 : \A e \in buckets[i] :
    e.hash = Hash[e.key] /\ CalculateIndex(bucketCount, e.hash) = i

\* A key has one entry: a put finds the one that is there, so that a removal
\* leaves none behind (hashmap.c:193-223, 286-305).
KeysUnique == \A e, f \in Entries : e.key = f.key => e = f

\* The size that callers free the map by is the number of its entries, after
\* any puts that replace or fail, and any removals of what is not there
\* (hashmap.c:79-82).
SizeIsCount == size = Cardinality(Entries)

\* The number of chains stays a power of two; otherwise the code's mask would
\* not be the remainder, and some chains were never used (hashmap.c:84-87).
MaskIsModulo == live => IsPowerOfTwo(bucketCount)

\* The map the chains stand for.
MapOf(E) ==
  [k \in {e.key : e \in E} |-> (CHOOSE e \in E : e.key = k).value]
contents == MapOf(Entries)

\* hashmap.c implements a map: nothing is lost when the chains are doubled,
\* and every call returns what the map says.
Map == INSTANCE MapSpec WITH map <- contents
ImplementsMap == Map!Spec
=============================================================================
