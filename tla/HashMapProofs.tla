--------------------------- MODULE HashMapProofs ---------------------------
(***************************************************************************)
(* Proofs about the hash map, for any keys, values, hashes and capacity.   *)
(*                                                                         *)
(* The argument: every entry lies in the chain its hash says, so searching *)
(* that one chain searches the whole map.  Each operation then adds one    *)
(* entry to the set of all entries or takes one from it, which is what the *)
(* abstract map and the count do; doubling moves entries and changes the   *)
(* set not at all.                                                         *)
(***************************************************************************)
EXTENDS HashMap, FiniteSetTheorems, TLAPS

IndInv ==
  /\ TypeOK
  /\ EntriesPlaced
  /\ KeysUnique
  /\ IsFiniteSet(Entries)
  /\ SizeIsCount

\* KeysUnique and EntriesPlaced for any entries and any chains.
Unique(E) == \A e, f \in E : e.key = f.key => e = f

Placed(b, n) ==
  /\ b \in [0 .. n - 1 -> SUBSET Entry]
  /\ \A i \in 0 .. n - 1 : \A e \in b[i] :
       e.hash = Hash[e.key] /\ CalculateIndex(n, e.hash) = i

-----------------------------------------------------------------------------
\* An index is in range.
LEMMA IndexInRange ==
  ASSUME NEW h \in Nat, NEW n \in Nat, n # 0
  PROVE  CalculateIndex(n, h) \in 0 .. n - 1
  BY SMT DEF CalculateIndex

\* The invariant in terms of Placed and Unique.
LEMMA InvForms ==
  /\ IndInv <=> /\ bucketCount \in Nat /\ ret \in Values \cup {Null}
                /\ Placed(buckets, bucketCount)
                /\ Unique(Entries)
                /\ IsFiniteSet(Entries)
                /\ size = Cardinality(Entries)
  /\ IndInv' <=> /\ bucketCount' \in Nat /\ ret' \in Values \cup {Null}
                 /\ Placed(buckets', bucketCount')
                 /\ Unique(Entries')
                 /\ IsFiniteSet(Entries')
                 /\ size' = Cardinality(Entries')
  BY FS_CardinalityType
  DEF IndInv, TypeOK, EntriesPlaced, KeysUnique, SizeIsCount, Placed, Unique

\* The same entries in other chains are placed, and the same.
LEMMA RehashKeeps ==
  ASSUME NEW n \in Nat, NEW m \in Nat, m # 0, NEW b, Placed(b, n)
  PROVE  /\ Placed(Rehash(b, m), m)
         /\ Chained(Rehash(b, m)) = Chained(b)
  <1> DEFINE r == Rehash(b, m)
  <1>1. /\ Chained(b) \in SUBSET Entry
        /\ \A e \in Chained(b) : e.hash = Hash[e.key]
    BY DEF Placed, Chained
  <1>2. /\ DOMAIN r = 0 .. m - 1
        /\ \A i \in 0 .. m - 1 :
             r[i] = {e \in Chained(b) : CalculateIndex(m, e.hash) = i}
    BY DEF Rehash
  <1>3. r = [i \in 0 .. m - 1 |->
               {e \in Chained(b) : CalculateIndex(m, e.hash) = i}]
    BY DEF Rehash
  <1>4. Placed(r, m)
    BY <1>1, <1>2, <1>3 DEF Placed
  <1>5. \A e \in Chained(b) : CalculateIndex(m, e.hash) \in 0 .. m - 1
    BY <1>1, IndexInRange DEF Entry
  <1>6. Chained(r) = Chained(b)
    BY <1>2, <1>5 DEF Chained
  <1>7. QED
    BY <1>4, <1>6

\* An entry added to its chain.
Added(b, i, d) == [b EXCEPT ![i] = @ \cup {d}]

\* It is placed there, and joins the entries of all chains.
LEMMA AddKeeps ==
  ASSUME NEW n \in Nat, n # 0, NEW b, Placed(b, n), NEW d \in Entry,
         d.hash = Hash[d.key], NEW i, i = CalculateIndex(n, d.hash)
  PROVE  /\ Placed(Added(b, i, d), n)
         /\ Chained(Added(b, i, d)) = Chained(b) \cup {d}
  <1> DEFINE c == Added(b, i, d)
  <1>1. i \in 0 .. n - 1
    BY IndexInRange DEF Entry
  <1>2. /\ DOMAIN b = 0 .. n - 1 /\ DOMAIN c = 0 .. n - 1
        /\ c[i] = b[i] \cup {d}
        /\ \A j \in 0 .. n - 1 : j # i => c[j] = b[j]
        /\ c \in [0 .. n - 1 -> SUBSET Entry]
    BY <1>1 DEF Placed, Added
  <1>3. Placed(c, n)
    BY <1>2 DEF Placed
  <1>4. Chained(c) = Chained(b) \cup {d}
    BY <1>1, <1>2 DEF Chained
  <1>5. QED
    BY <1>3, <1>4

\* An entry taken from its chain.
Dropped(b, i, d) == [b EXCEPT ![i] = @ \ {d}]

\* It leaves the entries of all chains: no other chain has it.
LEMMA DropKeeps ==
  ASSUME NEW n \in Nat, n # 0, NEW b, Placed(b, n), NEW i \in 0 .. n - 1,
         NEW d \in b[i]
  PROVE  /\ Placed(Dropped(b, i, d), n)
         /\ Chained(Dropped(b, i, d)) = Chained(b) \ {d}
         /\ d \in Chained(b)
  <1> DEFINE c == Dropped(b, i, d)
  <1>2. /\ DOMAIN b = 0 .. n - 1 /\ DOMAIN c = 0 .. n - 1
        /\ c[i] = b[i] \ {d}
        /\ \A j \in 0 .. n - 1 : j # i => c[j] = b[j]
        /\ c \in [0 .. n - 1 -> SUBSET Entry]
    BY DEF Placed, Dropped
  <1>3. Placed(c, n)
    BY <1>2 DEF Placed
  <1>4. \A j \in 0 .. n - 1 : j # i => d \notin b[j]
    BY DEF Placed
  <1>5. Chained(c) = Chained(b) \ {d}
    BY <1>2, <1>4 DEF Chained
  <1>6. QED
    BY <1>2, <1>3, <1>5 DEF Chained

\* Searching one chain searches the map.
LEMMA FoundInAll ==
  ASSUME IndInv, live, NEW k \in Keys
  PROVE  /\ Index(k) \in 0 .. bucketCount - 1
         /\ Found(k) = {e \in Entries : e.key = k}
  <1>1. bucketCount \in Nat /\ bucketCount # 0 /\ Hash[k] \in Nat
    BY HashMapAssumption DEF IndInv, TypeOK, live
  <1>2. Index(k) \in 0 .. bucketCount - 1
    BY <1>1, IndexInRange DEF Index
  <1>3. DOMAIN buckets = 0 .. bucketCount - 1
    BY DEF IndInv, TypeOK
  <1>4. \A i \in 0 .. bucketCount - 1 : \A e \in buckets[i] :
          e.key = k => i = Index(k)
    BY DEF IndInv, EntriesPlaced, Index
  <1>5. QED
    BY <1>2, <1>3, <1>4 DEF Found, Entries, Chained

-----------------------------------------------------------------------------
\* The map that entries with distinct keys stand for, with one more or fewer.
LEMMA MapOfOne ==
  ASSUME NEW E, Unique(E), NEW d \in E
  PROVE  d.key \in DOMAIN MapOf(E) /\ MapOf(E)[d.key] = d.value
  BY DEF MapOf, Unique

\* With one more, a new key maps to its value.
LEMMA MapOfMore ==
  ASSUME NEW E, Unique(E), NEW d, \A e \in E : e.key # d.key
  PROVE  /\ Unique(E \cup {d})
         /\ MapOf(E \cup {d}) =
              [x \in DOMAIN MapOf(E) \cup {d.key} |->
                 IF x = d.key THEN d.value ELSE MapOf(E)[x]]
  <1> DEFINE F == E \cup {d}
             m == [x \in DOMAIN MapOf(E) \cup {d.key} |->
                     IF x = d.key THEN d.value ELSE MapOf(E)[x]]
  <1>1. Unique(F)
    BY DEF Unique
  <1>2. DOMAIN MapOf(F) = DOMAIN m /\ DOMAIN m = DOMAIN MapOf(E) \cup {d.key}
    BY DEF MapOf
  <1>3. ASSUME NEW x \in DOMAIN m PROVE MapOf(F)[x] = m[x]
    <2>1. PICK e \in F : e.key = x
      BY <1>2 DEF MapOf
    <2>2. MapOf(F)[x] = e.value
      BY <1>1, <2>1, MapOfOne
    <2>3. CASE e = d
      BY <2>1, <2>2, <2>3
    <2>4. CASE e # d
      BY <2>1, <2>2, <2>4, MapOfOne
    <2>5. QED
      BY <2>3, <2>4
  <1>4. MapOf(F) = m
    <2>1. MapOf(F) = [x \in DOMAIN MapOf(F) |-> MapOf(F)[x]]
      BY DEF MapOf
    <2>2. QED
      BY <1>2, <1>3, <2>1
  <1>5. QED
    BY <1>1, <1>4

\* With one fewer, its key maps to nothing.
LEMMA MapOfFewer ==
  ASSUME NEW E, Unique(E), NEW d \in E
  PROVE  /\ Unique(E \ {d})
         /\ MapOf(E \ {d}) =
              [x \in DOMAIN MapOf(E) \ {d.key} |-> MapOf(E)[x]]
  <1> DEFINE F == E \ {d}
             m == [x \in DOMAIN MapOf(E) \ {d.key} |-> MapOf(E)[x]]
  <1>1. Unique(F)
    BY DEF Unique
  <1>2. DOMAIN MapOf(F) = DOMAIN m
    BY DEF MapOf, Unique
  <1>3. ASSUME NEW x \in DOMAIN m PROVE MapOf(F)[x] = m[x]
    <2>1. PICK e \in F : e.key = x
      BY <1>2, <1>3 DEF MapOf
    <2>2. QED
      BY <1>1, <1>3, <2>1, MapOfOne
  <1>4. MapOf(F) = m
    <2>1. MapOf(F) = [x \in DOMAIN MapOf(F) |-> MapOf(F)[x]]
      BY DEF MapOf
    <2>2. QED
      BY <1>2, <1>3, <2>1
  <1>5. QED
    BY <1>1, <1>4

-----------------------------------------------------------------------------
USE DEF vars, Map!vars

\* There is no map at first.
LEMMA InitRight == Init => IndInv /\ Map!Init
  <1> SUFFICES ASSUME Init PROVE IndInv /\ Map!Init
    OBVIOUS
  <1>1. 0 .. bucketCount - 1 = {} /\ DOMAIN buckets = {}
    BY DEF Init
  <1>2. Entries = {}
    BY <1>1 DEF Entries, Chained
  <1>3. Placed(buckets, bucketCount)
    BY <1>1 DEF Init, Placed
  <1>4. IndInv
    BY <1>2, <1>3, FS_EmptySet, InvForms DEF Init, Unique
  <1>5. Map!Init
    BY <1>2 DEF Init, Map!Init, live, contents, MapOf
  <1>6. QED
    BY <1>4, <1>5

\* A created map is empty, with all chains in place.
LEMMA CreateRight == IndInv /\ Create => IndInv' /\ Map!Create
  <1> SUFFICES ASSUME IndInv, Create PROVE IndInv' /\ Map!Create
    OBVIOUS
  <1>1. bucketCount' \in Nat /\ bucketCount' # 0
    BY HashMapAssumption DEF Create
  <1>2. DOMAIN buckets' = 0 .. bucketCount' - 1
        /\ \A i \in DOMAIN buckets' : buckets'[i] = {}
    BY DEF Create
  <1>3. Entries' = {}
    BY <1>2 DEF Entries, Chained
  <1>4. Placed(buckets', bucketCount')
    BY DEF Create, Placed
  <1>5. IndInv'
    BY <1>1, <1>3, <1>4, FS_EmptySet, InvForms DEF Create, Unique
  <1>6. Entries = {}
    <2>1. bucketCount = 0 /\ DOMAIN buckets = 0 .. bucketCount - 1
      BY DEF Create, live, IndInv, TypeOK
    <2>2. QED
      BY <2>1 DEF Entries, Chained
  <1>7. Map!Create
    BY <1>1, <1>3, <1>6 DEF Create, Map!Create, live, contents, MapOf
  <1>8. QED
    BY <1>5, <1>7

\* A freed map holds nothing.
LEMMA FreeRight == IndInv /\ Free => IndInv' /\ Map!Free
  <1> SUFFICES ASSUME IndInv, Free PROVE IndInv' /\ Map!Free
    OBVIOUS
  <1>1. 0 .. bucketCount' - 1 = {} /\ DOMAIN buckets' = {}
    BY DEF Free
  <1>2. Entries' = {}
    BY <1>1 DEF Entries, Chained
  <1>3. Placed(buckets', bucketCount')
    BY <1>1 DEF Free, Placed
  <1>4. IndInv'
    BY <1>2, <1>3, FS_EmptySet, InvForms DEF Free, Unique
  <1>5. Map!Free
    BY <1>2 DEF Free, Map!Free, live, contents, MapOf
  <1>6. QED
    BY <1>4, <1>5

\* What a call returns for a key that is there, and for one that is not.
LEMMA BeforeIs ==
  ASSUME IndInv, live, NEW k \in Keys
  PROVE  /\ Found(k) = {} => Map!Before(k) = Null /\ k \notin DOMAIN contents
         /\ \A e \in Found(k) : /\ Map!Before(k) = e.value
                                /\ e \in Entries /\ e.key = k
                                /\ k \in DOMAIN contents
  <1>1. Found(k) = {e \in Entries : e.key = k}
    BY FoundInAll
  <1>2. DOMAIN contents = {e.key : e \in Entries}
    BY DEF contents, MapOf
  <1>3. \A e \in Entries : contents[e.key] = e.value
    BY MapOfOne, InvForms DEF contents
  <1>4. QED
    BY <1>1, <1>2, <1>3 DEF Map!Before

\* hashmapGet changes nothing and returns what the map says.
LEMMA GetRight ==
  ASSUME IndInv, NEW k \in Keys, Get(k)
  PROVE  IndInv' /\ Map!Get(k)
  <1>1. live /\ UNCHANGED <<bucketCount, buckets, size>>
    BY DEF Get
  <1>2. UNCHANGED <<Entries, contents, live>>
    BY <1>1 DEF Entries, contents, live
  <1>3. ret' = Map!Before(k)
    BY <1>1, BeforeIs DEF Get
  <1>4. ret' \in Values \cup {Null}
    BY FoundInAll, <1>1 DEF Get, Found, IndInv, TypeOK, Entry
  <1>5. IndInv'
    BY <1>1, <1>2, <1>4, InvForms
  <1>6. QED
    BY <1>1, <1>2, <1>3, <1>5 DEF Map!Get

\* A put without memory changes nothing.
LEMMA PutFailsRight ==
  ASSUME IndInv, NEW k \in Keys, PutFails(k)
  PROVE  IndInv' /\ Map!PutFails(k)
  <1>1. live /\ UNCHANGED <<bucketCount, buckets, size>> /\ ret' = Null
    BY DEF PutFails
  <1>2. UNCHANGED <<Entries, contents, live>>
    BY <1>1 DEF Entries, contents, live
  <1>3. k \notin DOMAIN contents
    BY <1>1, BeforeIs DEF PutFails
  <1>4. IndInv'
    BY <1>1, <1>2, InvForms
  <1>5. QED
    BY <1>1, <1>2, <1>3, <1>4 DEF Map!PutFails

\* A put of a new key adds its entry, whether or not the chains are doubled.
LEMMA PutNewRight ==
  ASSUME IndInv, NEW k \in Keys, NEW v \in Values, PutNew(k, v)
  PROVE  IndInv' /\ Map!Put(k, v)
  <1> DEFINE d == [key |-> k, hash |-> Hash[k], value |-> v]
             c == Added(buckets, Index(k), d)
  <1>1. /\ bucketCount \in Nat /\ bucketCount # 0
        /\ Placed(buckets, bucketCount) /\ Unique(Entries)
        /\ IsFiniteSet(Entries) /\ size = Cardinality(Entries)
    BY InvForms DEF PutNew, live
  <1>2. d \in Entry /\ d.hash = Hash[d.key]
        /\ Index(k) = CalculateIndex(bucketCount, d.hash)
    BY HashMapAssumption DEF Entry, Index
  <1>0. d.key = k /\ d.value = v /\ ExpandIfNecessary(c)
    BY DEF PutNew, Added
  <1> HIDE DEF d
  <1>3. Placed(c, bucketCount) /\ Chained(c) = Entries \cup {d}
    BY <1>1, <1>2, AddKeeps DEF Entries
  <1>4. /\ Placed(buckets', bucketCount') /\ Entries' = Entries \cup {d}
        /\ bucketCount' \in Nat /\ bucketCount' # 0
    <2>1. CASE buckets' = c /\ UNCHANGED bucketCount
      BY <1>1, <1>3, <2>1 DEF Entries
    <2>2. CASE bucketCount' = 2 * bucketCount
               /\ buckets' = Rehash(c, bucketCount')
      <3>1. bucketCount' \in Nat /\ bucketCount' # 0
        BY <1>1, <2>2
      <3>2. QED
        BY <1>1, <1>3, <2>2, <3>1, RehashKeeps DEF Entries
    <2>3. QED
      BY <1>0, <2>1, <2>2 DEF ExpandIfNecessary
  <1>5. \A e \in Entries : e.key # d.key
    BY <1>0, FoundInAll DEF PutNew
  <1>6. /\ Unique(Entries')
        /\ contents' = [x \in DOMAIN contents \cup {k} |->
                          IF x = k THEN v ELSE contents[x]]
    BY <1>0, <1>1, <1>4, <1>5, MapOfMore DEF contents
  <1>7. IsFiniteSet(Entries') /\ size' = Cardinality(Entries')
    BY <1>1, <1>4, <1>5, FS_AddElement DEF PutNew
  <1>8. ret' = Null /\ Map!Before(k) = Null
    BY BeforeIs DEF PutNew
  <1>9. IndInv'
    BY <1>4, <1>6, <1>7, <1>8, InvForms
  <1>10. live /\ live'
    BY <1>1, <1>4 DEF live
  <1>11. QED
    BY <1>6, <1>8, <1>9, <1>10 DEF Map!Put

\* A put of a known key exchanges one entry for another of the same key.
LEMMA PutReplaceRight ==
  ASSUME IndInv, NEW k \in Keys, NEW v \in Values, PutReplace(k, v)
  PROVE  IndInv' /\ Map!Put(k, v)
  <1>1. /\ bucketCount \in Nat /\ bucketCount # 0 /\ live
        /\ Placed(buckets, bucketCount) /\ Unique(Entries)
        /\ IsFiniteSet(Entries) /\ size = Cardinality(Entries)
    BY InvForms DEF PutReplace, live
  <1>2. PICK e \in Found(k) :
          /\ buckets' = [buckets EXCEPT ![Index(k)] =
                           (@ \ {e}) \cup {[e EXCEPT !.value = v]}]
          /\ ret' = e.value
    BY DEF PutReplace
  <1> DEFINE b == Dropped(buckets, Index(k), e)
             d == [e EXCEPT !.value = v]
             rest == Entries \ {e}
  <1>3. /\ Index(k) \in 0 .. bucketCount - 1
        /\ e \in buckets[Index(k)] /\ e \in Entries /\ e.key = k
        /\ e \in Entry
    BY <1>1, <1>2, FoundInAll DEF Found, IndInv, TypeOK
  <1>4. Placed(b, bucketCount) /\ Chained(b) = rest
    BY <1>1, <1>3, DropKeeps DEF Entries
  <1>5. /\ d \in Entry /\ d.key = k /\ d.value = v /\ d.hash = Hash[d.key]
        /\ Index(k) = CalculateIndex(bucketCount, d.hash)
    BY <1>1, <1>3 DEF Entry, Index, Placed
  <1>6. /\ buckets' = Added(b, Index(k), d)
        /\ bucketCount' = bucketCount /\ size' = size
    BY <1>1, <1>2, <1>3 DEF Placed, Added, Dropped, PutReplace
  <1>7. /\ Unique(rest)
        /\ MapOf(rest) = [x \in DOMAIN contents \ {k} |-> contents[x]]
        /\ k \in DOMAIN contents
        /\ \A f \in rest : f.key # k
    BY <1>1, <1>3, MapOfFewer, MapOfOne DEF contents, Unique
  <1>8. /\ IsFiniteSet(rest)
        /\ Cardinality(rest) = Cardinality(Entries) - 1
        /\ Cardinality(Entries) \in Nat
    BY <1>1, <1>3, FS_RemoveElement, FS_CardinalityType
  <1> HIDE DEF b, d, rest
  <1>9. Placed(buckets', bucketCount') /\ Entries' = rest \cup {d}
    <2>1. /\ Placed(Added(b, Index(k), d), bucketCount)
          /\ Chained(Added(b, Index(k), d)) = rest \cup {d}
      BY <1>1, <1>4, <1>5, AddKeeps
    <2>2. QED
      BY <1>6, <2>1 DEF Entries
  <1>10. /\ Unique(Entries')
         /\ contents' = [x \in DOMAIN contents \cup {k} |->
                          IF x = k THEN v ELSE contents[x]]
    <2>0. Unique(rest) /\ \A f \in rest : f.key # d.key
      BY <1>5, <1>7
    <2>1. /\ Unique(rest \cup {d})
          /\ MapOf(rest \cup {d}) =
               [x \in DOMAIN MapOf(rest) \cup {d.key} |->
                  IF x = d.key THEN d.value ELSE MapOf(rest)[x]]
      BY ONLY <2>0, MapOfMore
    <2>2. DOMAIN MapOf(rest) \cup {k} = DOMAIN contents \cup {k}
      BY <1>7
    <2>3. \A x \in DOMAIN contents \ {k} : MapOf(rest)[x] = contents[x]
      BY <1>7
    <2>4. QED
      BY <1>5, <1>9, <2>1, <2>2, <2>3 DEF contents
  <1>11. IsFiniteSet(Entries') /\ size' = Cardinality(Entries')
    <2>1. d \notin rest
      BY <1>5, <1>7
    <2>2. /\ IsFiniteSet(rest \cup {d})
          /\ Cardinality(rest \cup {d}) = Cardinality(rest) + 1
      BY <1>8, <2>1, FS_AddElement
    <2>3. QED
      BY <1>1, <1>6, <1>8, <1>9, <2>2
  <1>12. ret' = e.value /\ Map!Before(k) = e.value /\ e.value \in Values
    BY <1>1, <1>2, <1>3, BeforeIs DEF Entry
  <1>13. IndInv'
    BY <1>1, <1>6, <1>9, <1>10, <1>11, <1>12, InvForms
  <1>14. live'
    BY <1>1, <1>6 DEF live
  <1>15. QED
    BY <1>1, <1>10, <1>12, <1>13, <1>14 DEF Map!Put

\* hashmapRemove takes away the one entry of the key.
LEMMA RemoveRight ==
  ASSUME IndInv, NEW k \in Keys, Remove(k)
  PROVE  IndInv' /\ Map!Remove(k)
  <1>1. /\ bucketCount \in Nat /\ bucketCount # 0 /\ live
        /\ Placed(buckets, bucketCount) /\ Unique(Entries)
        /\ IsFiniteSet(Entries) /\ size = Cardinality(Entries)
        /\ bucketCount' = bucketCount /\ live'
    BY InvForms DEF Remove, live
  <1>2. CASE Found(k) = {} /\ ret' = Null /\ UNCHANGED <<buckets, size>>
    <2>1. UNCHANGED <<Entries, contents>>
      BY <1>2 DEF Entries, contents
    <2>2. IndInv'
      BY <1>1, <1>2, <2>1, InvForms
    <2>3. Map!Before(k) = Null /\ k \notin DOMAIN contents
      BY <1>1, <1>2, BeforeIs
    <2>4. contents' = [x \in DOMAIN contents \ {k} |-> contents[x]]
      BY <2>1, <2>3 DEF contents, MapOf
    <2>5. QED
      BY <1>1, <1>2, <2>2, <2>3, <2>4 DEF Map!Remove
  <1>3. CASE \E e \in Found(k) :
               /\ buckets' = [buckets EXCEPT ![Index(k)] = @ \ {e}]
               /\ ret' = e.value
               /\ size' = size - 1
    <2>1. PICK e \in Found(k) :
               /\ buckets' = [buckets EXCEPT ![Index(k)] = @ \ {e}]
               /\ ret' = e.value
               /\ size' = size - 1
      BY <1>3
    <2>2. /\ Index(k) \in 0 .. bucketCount - 1
          /\ e \in buckets[Index(k)] /\ e \in Entries /\ e.key = k
          /\ e \in Entry
      BY <1>1, FoundInAll DEF Found, IndInv, TypeOK
    <2>3. /\ Placed(buckets', bucketCount')
          /\ Entries' = Entries \ {e}
      <3>1. buckets' = Dropped(buckets, Index(k), e)
        BY <2>1 DEF Dropped
      <3>2. QED
        BY <1>1, <2>2, <3>1, DropKeeps DEF Entries
    <2>4. /\ Unique(Entries')
          /\ contents' = [x \in DOMAIN contents \ {k} |-> contents[x]]
      BY <1>1, <2>2, <2>3, MapOfFewer DEF contents
    <2>5. IsFiniteSet(Entries') /\ size' = Cardinality(Entries')
      BY <1>1, <2>1, <2>2, <2>3, FS_RemoveElement
    <2>6. ret' = Map!Before(k) /\ ret' \in Values
      BY <1>1, <2>1, <2>2, BeforeIs DEF Entry
    <2>7. IndInv'
      BY <1>1, <2>3, <2>4, <2>5, <2>6, InvForms
    <2>8. QED
      BY <1>1, <2>4, <2>6, <2>7 DEF Map!Remove
  <1>4. QED
    BY <1>2, <1>3 DEF Remove

\* Nothing changes when no variable does.
LEMMA StutterRight == IndInv /\ UNCHANGED vars => IndInv' /\ UNCHANGED Map!vars
  <1> SUFFICES ASSUME IndInv, UNCHANGED vars
               PROVE  IndInv' /\ UNCHANGED Map!vars
    OBVIOUS
  <1>1. UNCHANGED <<Entries, contents, live, ret>>
    BY DEF Entries, contents, live
  <1>2. QED
    BY <1>1, InvForms

\* Every step keeps the invariant and is a step of the map, or none.
LEMMA StepRight == IndInv /\ [Next]_vars => IndInv' /\ [Map!Next]_(Map!vars)
  <1> SUFFICES ASSUME IndInv, [Next]_vars
               PROVE  IndInv' /\ [Map!Next]_(Map!vars)
    OBVIOUS
  <1>1. CASE Create
    BY <1>1, CreateRight DEF Map!Next
  <1>2. CASE Free
    BY <1>2, FreeRight DEF Map!Next
  <1>3. ASSUME NEW k \in Keys, Get(k) PROVE IndInv' /\ Map!Next
    BY <1>3, GetRight DEF Map!Next
  <1>4. ASSUME NEW k \in Keys, Remove(k) PROVE IndInv' /\ Map!Next
    BY <1>4, RemoveRight DEF Map!Next
  <1>5. ASSUME NEW k \in Keys, PutFails(k) PROVE IndInv' /\ Map!Next
    BY <1>5, PutFailsRight DEF Map!Next
  <1>6. ASSUME NEW k \in Keys, NEW v \in Values, PutNew(k, v)
        PROVE  IndInv' /\ Map!Next
    BY <1>6, PutNewRight DEF Map!Next
  <1>7. ASSUME NEW k \in Keys, NEW v \in Values, PutReplace(k, v)
        PROVE  IndInv' /\ Map!Next
    BY <1>7, PutReplaceRight DEF Map!Next
  <1>8. CASE UNCHANGED vars
    BY <1>8, StutterRight
  <1>9. QED
    BY <1>1, <1>2, <1>3, <1>4, <1>5, <1>6, <1>7, <1>8 DEF Next

-----------------------------------------------------------------------------
\* Every variable of the map keeps its type.
THEOREM TypeCorrect == Spec => []TypeOK
  <1>1. IndInv => TypeOK
    BY DEF IndInv
  <1>2. QED
    BY InitRight, StepRight, <1>1, PTL DEF Spec

\* An entry lies in the chain in which its key is looked for, whatever
\* expansions were made or failed (hashmap.c:89-122).
THEOREM SearchRight == Spec => []EntriesPlaced
  <1>1. IndInv => EntriesPlaced
    BY DEF IndInv
  <1>2. QED
    BY InitRight, StepRight, <1>1, PTL DEF Spec

\* No key has two entries: a put of a key the map holds replaces, so that one
\* removal is enough (hashmap.c:193-223).
THEOREM KeysOnce == Spec => []KeysUnique
  <1>1. IndInv => KeysUnique
    BY DEF IndInv
  <1>2. QED
    BY InitRight, StepRight, <1>1, PTL DEF Spec

\* hashmapSize is the number of entries, which is what VB and ION free their
\* maps by (hashmap.c:79-82).
THEOREM SizeRight == Spec => []SizeIsCount
  <1>1. IndInv => SizeIsCount
    BY DEF IndInv
  <1>2. QED
    BY InitRight, StepRight, <1>1, PTL DEF Spec

\* Doubling leaves a power of two a power of two: an odd divisor of 2 * n
\* divides n.
LEMMA DoublePower ==
  ASSUME NEW n \in Nat, IsPowerOfTwo(n)
  PROVE  IsPowerOfTwo(2 * n)
  <1>1. 2 * n # 0
    BY SMT DEF IsPowerOfTwo
  <1>2. ASSUME NEW d \in 1 .. 2 * n, NEW q \in 1 .. 2 * n, 2 * n = d * q, d % 2 # 0
        PROVE  d = 1
    <2>1. PICK a \in Nat : d = 2 * a + 1
      <3>1. d = 2 * (d \div 2) + 1 /\ d \div 2 \in Nat
        BY <1>2, SMT
      <3>2. QED
        BY <3>1
    <2> DEFINE r == n - a * q
    <2>2. a * q \in Nat /\ q = 2 * r
      <3>1. a * q \in Nat
        BY <2>1, SMT
      <3>2. d * q = 2 * (a * q) + q
        BY <2>1, SMT
      <3>3. QED
        BY <3>1, <3>2, <1>2, SMT
    <2>3. r \in Nat \ {0}
      BY <2>2, <1>2, SMT
    <2> HIDE DEF r
    <2>4. d * q = 2 * (d * r)
      BY <2>2, <2>3, <1>2, SMT
    <2>5. n = d * r
      BY <2>3, <2>4, <1>2, SMT
    <2>6. d \in 1 .. n /\ r \in 1 .. n
      <3>1. d * r >= d /\ d * r >= r
        BY <2>3, <1>2, SMT
      <3>2. QED
        BY <3>1, <2>3, <2>5, <1>2, SMT
    <2>7. QED
      BY <2>5, <2>6, <1>2 DEF IsPowerOfTwo
  <1>3. QED
    BY <1>1, <1>2 DEF IsPowerOfTwo

\* The number of chains is a power of two, for every capacity, so that the
\* code's mask is the remainder (hashmap.c:31-41, 84-96).
THEOREM MaskRight == Spec => []MaskIsModulo
  <1>1. Init => MaskIsModulo
    BY DEF Init, MaskIsModulo, live
  <1>2. ASSUME IndInv, MaskIsModulo, [Next]_vars
        PROVE  MaskIsModulo'
    <2>1. bucketCount \in Nat
      BY <1>2 DEF IndInv, TypeOK
    <2>2. CASE UNCHANGED bucketCount
      BY <1>2, <2>2 DEF MaskIsModulo, live
    <2>3. CASE Create
      BY <2>3 DEF Create, MaskIsModulo
    <2>4. CASE Free
      BY <2>4 DEF Free, MaskIsModulo, live
    <2>5. CASE live /\ bucketCount' = 2 * bucketCount
      BY <2>1, <2>5, <1>2, DoublePower DEF MaskIsModulo
    <2>6. QED
      BY <1>2, <2>2, <2>3, <2>4, <2>5
      DEF Next, vars, Get, Remove, PutFails, PutNew, PutReplace, ExpandIfNecessary
  <1>3. QED
    BY InitRight, StepRight, <1>1, <1>2, PTL DEF Spec

\* hashmap.c implements a map, whatever keys share chains and whichever
\* allocations fail.
THEOREM Implements == Spec => ImplementsMap
  <1>1. QED
    BY InitRight, StepRight, PTL DEF Spec, ImplementsMap, Map!Spec
=============================================================================
