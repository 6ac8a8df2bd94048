-------------------------- MODULE BlockCacheProofs --------------------------
(***************************************************************************)
(* Proofs about BlockCache for every image, every set of callers and every  *)
(* pair of caps.                                                            *)
(***************************************************************************)
EXTENDS BlockCache, FiniteSetTheorems, SequenceTheorems, TLAPS

\* What the program counter of a caller says about its request and buffer.
CallerOK(c) ==
  /\ pc[c] # "idle" => req[c] \in Blocks
  /\ pc[c] \in {"get", "read", "put"} => ~Refused(req[c])
  /\ pc[c] \in {"get", "put"} => UsesCache(req[c])
  /\ pc[c] = "put" => buf[c] \in Payloads /\ buf[c] = Decoded(req[c])

\* The inductive invariant.
IInv == /\ TypeOK
        /\ KeysMatchMap
        /\ WithinCap
        /\ CacheFaithful
        /\ \A c \in Callers : CallerOK(c)

\* The offsets one of the two maps holds.
Held(m) == {o \in Offsets : m[o] # None}

\* A list without repetitions of the offsets a map holds counts its entries.
LEMMA KeysCount ==
  ASSUME NEW m \in [Offsets -> Payloads \cup {None}], NEW s \in Seq(Offsets),
         \A o \in Offsets : m[o] # None <=> \E i \in 1..Len(s) : s[i] = o,
         \A i, j \in 1..Len(s) : s[i] = s[j] => i = j
  PROVE  Cardinality(Held(m)) = Len(s)
<1>1. Len(s) \in Nat /\ s \in [1..Len(s) -> Offsets]
  BY LenProperties
<1>2. s \in [1..Len(s) -> Held(m)]
  BY <1>1 DEF Held
<1>3. s \in Bijection(1..Len(s), Held(m))
  BY <1>2 DEF Held, Bijection, Injection, Surjection, IsInjective
<1>4. ExistsBijection(1..Len(s), Held(m))
  BY <1>3 DEF ExistsBijection
<1>. QED
  BY <1>1, <1>4, FS_CountingElements

\* len(c.meta) and len(c.metaKeys) in putMeta, len(c.data) and len(c.dataKeys)
\* in putData, always agree.
LEMMA PresentCounted ==
  ASSUME TypeOK, KeysMatchMap, NEW k \in Kinds
  PROVE  Cardinality(Present(k)) = Len(keys[k])
<1>1. /\ map[k] \in [Offsets -> Payloads \cup {None}]
      /\ keys[k] \in Seq(Offsets)
      /\ \A o \in Offsets : map[k][o] # None <=> \E i \in 1..Len(keys[k]) : keys[k][i] = o
      /\ \A i, j \in 1..Len(keys[k]) : keys[k][i] = keys[k][j] => i = j
  BY DEF TypeOK, KeysMatchMap
<1>2. Cardinality(Held(map[k])) = Len(keys[k])
  BY <1>1, KeysCount
<1>. QED
  BY <1>2 DEF Present, Held

\* One critical section of putMeta or putData keeps the key list and the map in
\* step and within the cap, and changes an entry only by storing the new block
\* or by evicting an old one.
LEMMA PutKeepsCache ==
  ASSUME TypeOK, KeysMatchMap, WithinCap,
         NEW k \in Kinds, NEW o \in Offsets, NEW d \in Payloads,
         put(k, o, d)
  PROVE  /\ map' \in [Kinds -> [Offsets -> Payloads \cup {None}]]
         /\ keys' \in [Kinds -> Seq(Offsets)]
         /\ KeysMatchMap'
         /\ WithinCap'
         /\ \A kk \in Kinds, oo \in Offsets :
              \/ map'[kk][oo] = None
              \/ map'[kk][oo] = map[kk][oo]
              \/ kk = k /\ oo = o /\ map'[kk][oo] = d
         /\ Len(keys[k]) <= Len(keys'[k])
         /\ \A kk \in Kinds \ {k} : keys'[kk] = keys[kk]
<1> DEFINE new   == map[k][o] = None
           out   == new /\ Cardinality(Present(k)) >= Cap[k] /\ Len(keys[k]) > 0
           kept  == IF out THEN [map[k] EXCEPT ![Head(keys[k])] = None] ELSE map[k]
           older == IF out THEN Tail(keys[k]) ELSE keys[k]
           mk    == [kept EXCEPT ![o] = d]
           ks    == IF new THEN Append(older, o) ELSE older
<1>1. /\ map' = [map EXCEPT ![k] = mk]
      /\ keys' = [keys EXCEPT ![k] = ks]
  BY DEF put, listed, evict, full, fresh
<1>2. /\ keys[k] \in Seq(Offsets)
      /\ Len(keys[k]) \in Nat
      /\ map[k] \in [Offsets -> Payloads \cup {None}]
      /\ Cap[k] \in Nat \ {0}
      /\ Len(keys[k]) <= Cap[k]
      /\ Cardinality(Present(k)) = Len(keys[k])
      /\ d # None
  BY LenProperties, PresentCounted, CapAssumption, BlocksAssumption DEF TypeOK, WithinCap, Results
<1>3. out <=> new /\ Len(keys[k]) = Cap[k]
  BY <1>2
<1>4. out => keys[k] # <<>>
  BY <1>2, <1>3
<1>5. /\ older \in Seq(Offsets)
      /\ Len(older) = IF out THEN Len(keys[k]) - 1 ELSE Len(keys[k])
      /\ \A i \in 1..Len(older) : older[i] = IF out THEN keys[k][i+1] ELSE keys[k][i]
      /\ out => Head(keys[k]) = keys[k][1] /\ Head(keys[k]) \in Offsets
  BY <1>2, <1>4, HeadTailProperties
<1>6. /\ ks \in Seq(Offsets)
      /\ Len(ks) = IF new THEN Len(older) + 1 ELSE Len(older)
      /\ \A i \in 1..Len(older) : ks[i] = older[i]
      /\ new => ks[Len(older) + 1] = o
  BY <1>5, AppendProperties
<1>. HIDE DEF older, ks
<1>7. /\ kept \in [Offsets -> Payloads \cup {None}]
      /\ mk \in [Offsets -> Payloads \cup {None}]
      /\ \A oo \in Offsets : mk[oo] = IF oo = o THEN d
                                      ELSE IF out /\ oo = keys[k][1] THEN None
                                      ELSE map[k][oo]
  BY <1>2, <1>5
<1>. HIDE DEF kept, mk
<1>8. \A i, j \in 1..Len(keys[k]) : keys[k][i] = keys[k][j] => i = j
  BY DEF KeysMatchMap
<1>9. \A oo \in Offsets : map[k][oo] # None <=> \E i \in 1..Len(keys[k]) : keys[k][i] = oo
  BY DEF KeysMatchMap
<1>10. \A i, j \in 1..Len(ks) : ks[i] = ks[j] => i = j
  <2>1. \A i, j \in 1..Len(older) : older[i] = older[j] => i = j
    BY <1>2, <1>3, <1>5, <1>8
  <2>2. ASSUME new, NEW i \in 1..Len(older) PROVE older[i] # o
    <3>1. \A j \in 1..Len(keys[k]) : keys[k][j] # o
      BY <2>2, <1>9
    <3>2. CASE out
      <4>1. i + 1 \in 1..Len(keys[k]) /\ older[i] = keys[k][i + 1]
        BY <3>2, <1>2, <1>5
      <4>. QED
        BY <3>1, <4>1
    <3>3. CASE ~out
      <4>1. i \in 1..Len(keys[k]) /\ older[i] = keys[k][i]
        BY <3>3, <1>2, <1>5
      <4>. QED
        BY <3>1, <4>1
    <3>. QED
      BY <3>2, <3>3
  <2>. QED
    BY <2>1, <2>2, <1>2, <1>5, <1>6
<1>11. \A oo \in Offsets : mk[oo] # None <=> \E i \in 1..Len(ks) : ks[i] = oo
  <2>. SUFFICES ASSUME NEW oo \in Offsets
                PROVE  mk[oo] # None <=> \E i \in 1..Len(ks) : ks[i] = oo
    OBVIOUS
  <2>1. CASE oo = o
    BY <2>1, <1>2, <1>3, <1>5, <1>6, <1>7, <1>9
  <2>2. CASE oo # o
    <3>1. (\E i \in 1..Len(ks) : ks[i] = oo) <=> (\E i \in 1..Len(older) : older[i] = oo)
      <4>1. Len(older) \in Nat
        BY <1>2, <1>3, <1>5
      <4>2. \A i \in 1..Len(older) : i \in 1..Len(ks) /\ ks[i] = older[i]
        BY <4>1, <1>6
      <4>3. \A i \in 1..Len(ks) : i \in 1..Len(older) \/ (new /\ i = Len(older) + 1)
        BY <4>1, <1>6
      <4>4. ASSUME NEW i \in 1..Len(ks), ks[i] = oo PROVE i \in 1..Len(older)
        BY <4>3, <4>4, <2>2, <1>6
      <4>. QED
        BY <4>2, <4>4, Zenon
    <3>2. CASE out
      <4>1. (\E i \in 1..Len(older) : older[i] = oo)
              <=> (\E i \in 2..Len(keys[k]) : keys[k][i] = oo)
        <5>1. \A i \in 1..Len(older) : i + 1 \in 2..Len(keys[k]) /\ older[i] = keys[k][i + 1]
          BY <3>2, <1>2, <1>5
        <5>2. \A i \in 2..Len(keys[k]) : i - 1 \in 1..Len(older) /\ (i - 1) + 1 = i
          BY <3>2, <1>2, <1>5
        <5>. QED
          BY <5>1, <5>2
      <4>. QED
        BY <2>2, <3>1, <3>2, <4>1, <1>2, <1>7, <1>8, <1>9
    <3>3. CASE ~out
      BY <2>2, <3>1, <3>3, <1>2, <1>5, <1>7, <1>9
    <3>. QED
      BY <3>2, <3>3
  <2>. QED
    BY <2>1, <2>2
<1>12. Len(ks) <= Cap[k] /\ Len(keys[k]) <= Len(ks)
  BY <1>2, <1>3, <1>5, <1>6
<1>13. /\ map' \in [Kinds -> [Offsets -> Payloads \cup {None}]]
       /\ keys' \in [Kinds -> Seq(Offsets)]
       /\ map'[k] = mk /\ keys'[k] = ks
       /\ \A kk \in Kinds \ {k} : map'[kk] = map[kk] /\ keys'[kk] = keys[kk]
  BY <1>1, <1>6, <1>7 DEF TypeOK
<1>14. KeysMatchMap'
  <2>1. ASSUME NEW kk \in Kinds
        PROVE  /\ \A oo \in Offsets : map'[kk][oo] # None
                                       <=> \E i \in 1..Len(keys'[kk]) : keys'[kk][i] = oo
               /\ \A i, j \in 1..Len(keys'[kk]) : keys'[kk][i] = keys'[kk][j] => i = j
    <3>1. CASE kk = k
      <4>1. map'[kk] = mk /\ keys'[kk] = ks
        BY <3>1, <1>13
      <4>. QED
        BY <4>1, <1>10, <1>11, Zenon
    <3>2. CASE kk # k
      <4>1. map'[kk] = map[kk] /\ keys'[kk] = keys[kk]
        BY <3>2, <1>13
      <4>. QED
        <5>1. /\ \A oo \in Offsets : map[kk][oo] # None
                                       <=> \E i \in 1..Len(keys[kk]) : keys[kk][i] = oo
              /\ \A i, j \in 1..Len(keys[kk]) : keys[kk][i] = keys[kk][j] => i = j
          BY DEF KeysMatchMap
        <5>. QED
          BY <4>1, <5>1, Zenon
    <3>. QED
      BY <3>1, <3>2
  <2>. QED
    BY <2>1 DEF KeysMatchMap
<1>15. WithinCap'
  <2>. SUFFICES ASSUME NEW kk \in Kinds PROVE Len(keys'[kk]) <= Cap[kk]
    BY DEF WithinCap
  <2>. QED
    BY <1>12, <1>13 DEF WithinCap
<1>. QED
  BY <1>7, <1>12, <1>13, <1>14, <1>15

\* A decoded block that is not an error is a payload.
LEMMA DecodedType ==
  ASSUME NEW b \in Blocks
  PROVE  Decoded(b) \in Payloads \cup Errors
BY BlocksAssumption DEF Decoded, Errors

\* A step that touches neither the maps nor the key lists keeps what is said of
\* them alone.
LEMMA CacheUntouched ==
  ASSUME KeysMatchMap, WithinCap, CacheFaithful, UNCHANGED <<map, keys>>
  PROVE  KeysMatchMap' /\ WithinCap' /\ CacheFaithful'
<1>1. map' = map /\ keys' = keys
  OBVIOUS
<1>2. KeysMatchMap'
  BY <1>1, SMT DEF KeysMatchMap
<1>3. WithinCap'
  BY <1>1, SMT DEF WithinCap
<1>4. CacheFaithful'
  BY <1>1, SMT DEF CacheFaithful
<1>. QED
  BY <1>2, <1>3, <1>4

\* A new FS has empty caches and no caller in it.
LEMMA InitIInv == Init => IInv
BY CapAssumption DEF Init, IInv, TypeOK, KeysMatchMap, WithinCap, CacheFaithful, CallerOK

\* Every step of a caller, and Close, keeps the inductive invariant.
LEMMA NextIInv == IInv /\ [Next]_vars => IInv'
<1>. SUFFICES ASSUME IInv, [Next]_vars
              PROVE  IInv'
  OBVIOUS
<1>. USE DEF IInv
<1>1. ASSUME NEW c \in Callers, NEW b \in Blocks, Call(c, b)
      PROVE  IInv'
  <2>1. TypeOK' /\ KeysMatchMap' /\ WithinCap' /\ CacheFaithful'
    <3>1. TypeOK'
      BY <1>1 DEF Call, goto, TypeOK
    <3>2. UNCHANGED <<map, keys>>
      BY <1>1 DEF Call
    <3>. QED
      BY <3>1, <3>2, CacheUntouched
  <2>2. \A d \in Callers : CallerOK(d)'
    BY <1>1 DEF Call, goto, TypeOK, CallerOK
  <2>. QED
    BY <2>1, <2>2
<1>2. ASSUME NEW c \in Callers, Check(c)
      PROVE  IInv'
  <2>1. req[c] \in Blocks
    BY <1>2 DEF Check, CallerOK
  <2>2. TypeOK' /\ KeysMatchMap' /\ WithinCap' /\ CacheFaithful'
    <3>1. TypeOK'
      BY <1>2, <2>1 DEF Check, goto, return, TypeOK, Refusal, Results, Errors
    <3>2. UNCHANGED <<map, keys>>
      BY <1>2 DEF Check
    <3>. QED
      BY <3>1, <3>2, CacheUntouched
  <2>3. \A d \in Callers : CallerOK(d)'
    BY <1>2, <2>1 DEF Check, goto, return, TypeOK, CallerOK
  <2>. QED
    BY <2>2, <2>3
<1>3. ASSUME NEW c \in Callers, Get(c)
      PROVE  IInv'
  <2>1. req[c] \in Blocks /\ req[c].kind \in Kinds /\ req[c].off \in Offsets
    BY <1>3, BlocksAssumption DEF Get, CallerOK, References
  <2>2. TypeOK' /\ KeysMatchMap' /\ WithinCap' /\ CacheFaithful'
    <3>1. TypeOK'
      <4>1. map[req[c].kind][req[c].off] \in Payloads \cup {None}
        BY <2>1 DEF TypeOK
      <4>2. CASE map[req[c].kind][req[c].off] = None
        BY <1>3, <4>2 DEF Get, goto, TypeOK
      <4>3. CASE map[req[c].kind][req[c].off] # None
        BY <1>3, <4>1, <4>3 DEF Get, return, TypeOK, Results
      <4>. QED
        BY <4>2, <4>3
    <3>2. UNCHANGED <<map, keys>>
      BY <1>3 DEF Get
    <3>. QED
      BY <3>1, <3>2, CacheUntouched
  <2>3. \A d \in Callers : CallerOK(d)'
    BY <1>3, <2>1 DEF Get, goto, return, TypeOK, CallerOK
  <2>. QED
    BY <2>2, <2>3
<1>4. ASSUME NEW c \in Callers, ReadFails(c)
      PROVE  IInv'
  <2>1. TypeOK' /\ KeysMatchMap' /\ WithinCap' /\ CacheFaithful'
    <3>1. TypeOK'
      BY <1>4 DEF ReadFails, return, TypeOK, Results, Errors
    <3>2. UNCHANGED <<map, keys>>
      BY <1>4 DEF ReadFails
    <3>. QED
      BY <3>1, <3>2, CacheUntouched
  <2>2. \A d \in Callers : CallerOK(d)'
    BY <1>4 DEF ReadFails, return, TypeOK, CallerOK
  <2>. QED
    BY <2>1, <2>2
<1>5. ASSUME NEW c \in Callers, Read(c)
      PROVE  IInv'
  <2>1. req[c] \in Blocks /\ Decoded(req[c]) \in Payloads \cup Errors
    BY <1>5, DecodedType DEF Read, Stores, CallerOK
  <2>2. TypeOK' /\ KeysMatchMap' /\ WithinCap' /\ CacheFaithful'
    <3>1. TypeOK'
      BY <1>5, <2>1 DEF Read, Stores, goto, return, TypeOK, Results
    <3>2. UNCHANGED <<map, keys>>
      BY <1>5 DEF Read, Stores
    <3>. QED
      BY <3>1, <3>2, CacheUntouched
  <2>3. \A d \in Callers : CallerOK(d)'
    BY <1>5, <2>1 DEF Read, Stores, goto, return, TypeOK, CallerOK
  <2>. QED
    BY <2>2, <2>3
<1>6. ASSUME NEW c \in Callers, Put(c)
      PROVE  IInv'
  <2>1. /\ req[c] \in Blocks /\ req[c].kind \in Kinds /\ req[c].off \in Offsets
        /\ ~Refused(req[c]) /\ UsesCache(req[c])
        /\ buf[c] \in Payloads /\ buf[c] = Decoded(req[c])
    BY <1>6, BlocksAssumption DEF Put, CallerOK, References
  <2>2. put(req[c].kind, req[c].off, buf[c])
    BY <1>6 DEF Put
  <2>3. /\ map' \in [Kinds -> [Offsets -> Payloads \cup {None}]]
        /\ keys' \in [Kinds -> Seq(Offsets)]
        /\ KeysMatchMap'
        /\ WithinCap'
        /\ \A kk \in Kinds, oo \in Offsets :
             \/ map'[kk][oo] = None
             \/ map'[kk][oo] = map[kk][oo]
             \/ kk = req[c].kind /\ oo = req[c].off /\ map'[kk][oo] = buf[c]
    BY <2>1, <2>2, PutKeepsCache
  <2>4. TypeOK'
    BY <1>6, <2>1, <2>3 DEF Put, return, TypeOK, Results
  <2>5. CacheFaithful'
    <3>. SUFFICES ASSUME NEW k \in Kinds, NEW o \in Offsets, map'[k][o] # None
                  PROVE  \E b \in Blocks : /\ b.kind = k /\ b.off = o
                                            /\ UsesCache(b) /\ ~Refused(b)
                                            /\ Decoded(b) = map'[k][o]
      BY DEF CacheFaithful
    <3>1. CASE map'[k][o] = map[k][o]
      BY <3>1 DEF CacheFaithful
    <3>2. CASE k = req[c].kind /\ o = req[c].off /\ map'[k][o] = buf[c]
      BY <3>2, <2>1
    <3>. QED
      BY <2>3, <3>1, <3>2
  <2>6. \A d \in Callers : CallerOK(d)'
    BY <1>6 DEF Put, return, TypeOK, CallerOK
  <2>. QED
    BY <2>3, <2>4, <2>5, <2>6
<1>7. CASE Close
  <2>1. TypeOK'
    BY <1>7 DEF Close, TypeOK
  <2>2. \A d \in Callers : CallerOK(d)'
    BY <1>7 DEF Close, CallerOK
  <2>3. UNCHANGED <<map, keys>>
    BY <1>7 DEF Close
  <2>. QED
    BY <2>1, <2>2, <2>3, CacheUntouched
<1>8. CASE UNCHANGED vars
  BY <1>8 DEF vars, TypeOK, KeysMatchMap, WithinCap, CacheFaithful, CallerOK
<1>. QED
  BY <1>1, <1>2, <1>3, <1>4, <1>5, <1>6, <1>7, <1>8 DEF Next, Step

\* The block layer of every image keeps its inductive invariant.
LEMMA Invariance == Spec => []IInv
BY InitIInv, NextIInv, PTL DEF Spec

\* Type correctness of the block layer.
THEOREM TypeCorrect == Spec => []TypeOK
BY Invariance, PTL DEF IInv

\* Racing stores (putMeta, putData) never list a cached offset twice nor lose one.
THEOREM KeysAlwaysMatch == Spec => []KeysMatchMap
BY Invariance, PTL DEF IInv

\* Neither cache outgrows its cap, whatever the callers do.
THEOREM AlwaysWithinCap == Spec => []WithinCap
BY Invariance, PTL DEF IInv

\* On every image, well formed or not, a cached block is one that was decoded
\* from a reference to its offset, and no error is ever cached.
THEOREM CacheAlwaysFaithful == Spec => []CacheFaithful
BY Invariance, PTL DEF IInv

\* A step of any caller leaves each cache with at least as many blocks as before:
\* putMeta and putData evict only to make room for a new key.
THEOREM CacheNeverShrinks == Spec => NeverShrinks
<1>1. ASSUME IInv, IInv', [Next]_vars
      PROVE  \A k \in Kinds : Cardinality(Present(k)) <= Cardinality(Present(k)')
  <2>1. \A k \in Kinds : Cardinality(Present(k)) = Len(keys[k])
    BY <1>1, PresentCounted DEF IInv
  <2>2. \A k \in Kinds : Cardinality(Present(k)') = Len(keys'[k])
    <3>. SUFFICES ASSUME NEW k \in Kinds PROVE Cardinality(Present(k)') = Len(keys'[k])
      OBVIOUS
    <3>1. /\ map'[k] \in [Offsets -> Payloads \cup {None}]
          /\ keys'[k] \in Seq(Offsets)
          /\ \A o \in Offsets : map'[k][o] # None
                                 <=> \E i \in 1..Len(keys'[k]) : keys'[k][i] = o
          /\ \A i, j \in 1..Len(keys'[k]) : keys'[k][i] = keys'[k][j] => i = j
      BY <1>1 DEF IInv, TypeOK, KeysMatchMap
    <3>2. Cardinality(Held(map'[k])) = Len(keys'[k])
      BY <3>1, KeysCount
    <3>. QED
      BY <3>2 DEF Present, Held
  <2>3. \A k \in Kinds : Len(keys[k]) \in Nat /\ Len(keys[k]) <= Len(keys'[k])
    <3>1. \A k \in Kinds : Len(keys[k]) \in Nat
      BY <1>1, LenProperties DEF IInv, TypeOK
    <3>2. CASE UNCHANGED keys
      BY <3>1, <3>2
    <3>3. ASSUME NEW c \in Callers, Put(c)
          PROVE  \A k \in Kinds : Len(keys[k]) <= Len(keys'[k])
      <4>1. /\ req[c].kind \in Kinds /\ req[c].off \in Offsets /\ buf[c] \in Payloads
            /\ put(req[c].kind, req[c].off, buf[c])
        BY <1>1, <3>3, BlocksAssumption DEF IInv, Put, CallerOK, References
      <4>2. /\ Len(keys[req[c].kind]) <= Len(keys'[req[c].kind])
            /\ \A k \in Kinds \ {req[c].kind} : keys'[k] = keys[k]
        BY <1>1, <4>1, PutKeepsCache DEF IInv
      <4>. QED
        BY <3>1, <4>2
    <3>4. UNCHANGED keys \/ \E c \in Callers : Put(c)
      BY <1>1 DEF Next, Step, Call, Check, Get, ReadFails, Read, Close, vars
    <3>. QED
      BY <3>1, <3>2, <3>3, <3>4
  <2>. QED
    BY <2>1, <2>2, <2>3
<1>. QED
  BY <1>1, Invariance, PTL DEF NeverShrinks, Spec

\* On a well-formed image the block a lookup hits is the one the caller named.
LEMMA HitIsDecoded ==
  ASSUME OneWordPerOffset, IInv, NEW c \in Callers, pc[c] = "get",
         map[req[c].kind][req[c].off] # None
  PROVE  map[req[c].kind][req[c].off] = Decoded(req[c])
<1>1. /\ req[c] \in Blocks /\ ~Refused(req[c]) /\ UsesCache(req[c])
      /\ req[c].kind \in Kinds /\ req[c].off \in Offsets
  BY BlocksAssumption DEF IInv, CallerOK, References
<1>2. PICK b \in Blocks : /\ b.kind = req[c].kind /\ b.off = req[c].off
                          /\ UsesCache(b) /\ ~Refused(b)
                          /\ Decoded(b) = map[req[c].kind][req[c].off]
  BY <1>1 DEF IInv, CacheFaithful
<1>3. b = req[c]
  <2>1. CASE req[c].kind = "meta"
    BY <1>1, <1>2, <2>1, HeaderAssumption
  <2>2. CASE req[c].kind = "data"
    BY <1>1, <1>2, <2>2 DEF OneWordPerOffset, UsesCache
  <2>. QED
    BY <1>1, <2>1, <2>2 DEF Kinds
<1>. QED
  BY <1>2, <1>3

\* On a well-formed image the caches, the races of callers to fill them, eviction
\* and Close cannot be seen from above: the block layer refines the cacheless
\* BlockStore (step by step; that calls return is left to TLC).
THEOREM CacheTransparent ==
  ASSUME OneWordPerOffset
  PROVE  Spec => ServesLikeStore
<1>1. Init => Store!Init
  BY DEF Init, Store!Init
<1>2. ASSUME IInv, [Next]_vars
      PROVE  [Store!Next]_(Store!vars)
  <2>1. ASSUME NEW c \in Callers, NEW b \in Blocks, Call(c, b)
        PROVE  Store!Call(c, b)
    BY <1>2, <2>1 DEF Call, goto, Store!Call, IInv, TypeOK
  <2>2. ASSUME NEW c \in Callers, pc[c] # "idle", NEW r \in Uncached(req[c]),
               return(c, r), UNCHANGED req
        PROVE  Store!Return(c)
    BY <1>2, <2>2 DEF return, Store!Return, IInv, TypeOK, CallerOK
  <2>3. ASSUME NEW c \in Callers, pc[c] # "idle", NEW l \in {"get", "read", "put"},
               goto(c, l), UNCHANGED req
        PROVE  UNCHANGED Store!vars
    BY <1>2, <2>3 DEF goto, Store!vars, IInv, TypeOK
  <2>4. ASSUME NEW c \in Callers, Step(c)
        PROVE  Store!Return(c) \/ UNCHANGED Store!vars
    <3>1. CASE Check(c)
      BY <2>2, <2>3, <3>1 DEF Check, Uncached
    <3>2. CASE Get(c)
      <4>1. ~Refused(req[c])
        BY <1>2, <3>2 DEF Get, IInv, CallerOK
      <4>2. CASE map[req[c].kind][req[c].off] # None
        BY <1>2, <2>2, <3>2, <4>1, <4>2, HitIsDecoded DEF Get, Uncached
      <4>3. CASE map[req[c].kind][req[c].off] = None
        BY <2>3, <3>2, <4>3 DEF Get
      <4>. QED
        BY <4>2, <4>3
    <3>3. CASE ReadFails(c)
      BY <1>2, <2>2, <3>3 DEF ReadFails, Uncached, IInv, CallerOK
    <3>4. CASE Read(c)
      BY <1>2, <2>2, <2>3, <3>4 DEF Read, Stores, Uncached, IInv, CallerOK
    <3>5. CASE Put(c)
      BY <1>2, <2>2, <3>5 DEF Put, Uncached, IInv, CallerOK
    <3>. QED
      BY <2>4, <3>1, <3>2, <3>3, <3>4, <3>5 DEF Step
  <2>5. CASE Close \/ UNCHANGED vars
    BY <2>5 DEF Close, vars, Store!vars
  <2>. QED
    BY <1>2, <2>1, <2>4, <2>5 DEF Next, Store!Next
<1>. QED
  BY <1>1, <1>2, Invariance, PTL DEF Spec, ServesLikeStore, Store!Safety

=============================================================================
