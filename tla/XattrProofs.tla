----------------------------- MODULE XattrProofs -----------------------------
(***************************************************************************)
(* The attribute map of readXattrPairs, for every image, budget and limit:    *)
(* the map is the list's (invariant IInv), and what it holds is within the     *)
(* budget, with no list refused that would have been (invariant BInv).         *)
(***************************************************************************)
EXTENDS Xattr, DataLemmas, SequenceTheorems, TLAPS

XEntries == [ref : Nat \ {0}, count : Nat]

\* The map holds the pairs of the list up to position hi: their names and no other,
\* each with the value of its last pair so far.
Holding(hi) ==
  /\ \A k \in entry.ref..hi : k \in DOMAIN img.pairs /\ WellFormed(k)
  /\ DOMAIN out = {qualified(img.pairs[k]) : k \in entry.ref..hi}
  /\ \A k \in entry.ref..hi :
       (\A l \in entry.ref..hi : qualified(img.pairs[l]) = qualified(img.pairs[k]) => l <= k)
         => out[qualified(img.pairs[k])] = ValueOf(k)

\* After i rounds the map holds the first i pairs of the list.
IInv ==
  /\ img \in Images /\ idx \in Nat
  /\ pc \in {"start", "table", "entry", "pairs", "done"}
  /\ err = "pending" <=> pc # "done"
  /\ err \notin {"pending", "nil"} => out = <<>>
  /\ pc \in {"start", "table", "entry"} => out = <<>> /\ i = 0
  /\ pc \in {"entry", "pairs"} => entry \in XEntries
  /\ pc = "pairs" => /\ i \in Nat /\ i <= entry.count
                     /\ pos = entry.ref + i
                     /\ Holding(pos - 1)
  /\ (err = "nil" /\ idx # NoXattr /\ img.start # NoTable) =>
       /\ entry \in XEntries
       /\ Holding(entry.ref + entry.count - 1)

\* Before the table is read the map is empty.
LEMMA InitInv == Init => IInv
BY SizesAssumption DEF Init, IInv

\* Returning an error keeps nothing of the map.
LEMMA ErrorKeeps ==
  ASSUME IInv, NEW e, e \notin {"pending", "nil"}, return(e)
  PROVE  IInv'
BY DEF return, IInv

\* readXattrIDEntry finds an entry of a block.
LEMMA EntryKeeps ==
  ASSUME IInv, ReadXattrIDEntry
  PROVE  IInv'
<1> DEFINE b == img.blocks[blockIdx + 1]
           past == img.start + IndexHeader + (blockIdx + 1) * PtrSize > img.len
<1>1. CASE return("corrupt") \/ return("ioerr")
  BY <1>1, ErrorKeeps
<1>2. CASE /\ ~past /\ ~(inBlock >= Len(b))
           /\ pc' = "entry" /\ entry' = b[inBlock + 1]
           /\ UNCHANGED <<img, size, idx, pos, i, budget, out, err>>
  <2>1. blockIdx \in Nat /\ inBlock \in Nat
    BY SizesAssumption DEF IInv, blockIdx, inBlock
  <2>2. /\ img.blocks \in Seq(Seq(XEntries)) /\ Len(img.blocks) \in Nat
        /\ img.start \in Nat /\ img.len \in Nat
        /\ img.start + IndexHeader + (Len(img.blocks) + 1) * PtrSize > img.len
    BY ImagesAssumption, LenProperties DEF IInv, XEntries
  <2>3. blockIdx + 1 <= Len(img.blocks)
    <3> DEFINE x == blockIdx + 1
               y == Len(img.blocks) + 1
    <3>1. x * PtrSize < y * PtrSize
      <4>1. x * PtrSize \in Nat /\ y * PtrSize \in Nat
        BY <2>1, <2>2, SizesAssumption
      <4> HIDE DEF x, y
      <4>2. IndexHeader \in Nat
        BY SizesAssumption
      <4> QED
        BY <1>2, <2>2, <4>1, <4>2 DEF x, y
    <3>2. ASSUME x >= y PROVE FALSE
      <4>1. x * PtrSize >= y * PtrSize
        <5>1. x \in Nat /\ y \in Nat /\ PtrSize \in Nat /\ x - y \in Nat
          BY <2>1, <2>2, <3>2, SizesAssumption
        <5>2. x * PtrSize = y * PtrSize + (x - y) * PtrSize /\ (x - y) * PtrSize >= 0
          BY <5>1, SMT
        <5>3. x * PtrSize \in Nat /\ y * PtrSize \in Nat /\ (x - y) * PtrSize \in Nat
          BY <5>1
        <5> QED
          BY <5>2, <5>3
      <4>2. x * PtrSize \in Nat /\ y * PtrSize \in Nat
        BY <2>1, <2>2, SizesAssumption
      <4> HIDE DEF x, y
      <4> QED
        BY <3>1, <4>1, <4>2
    <3> QED
      BY <2>1, <2>2, <3>2
  <2>4. b \in Seq(XEntries)
    BY <2>1, <2>2, <2>3, ElementOfSeq
  <2>5. inBlock + 1 \in 1..Len(b)
    BY <1>2, <2>1, <2>4, LenProperties
  <2>6. entry' \in XEntries
    BY <1>2, <2>4, <2>5, ElementOfSeq
  <2>7. err = "pending" /\ pc = "table" /\ out = <<>> /\ i = 0
    BY DEF IInv, ReadXattrIDEntry
  <2> HIDE DEF b, past
  <2> QED
    BY <1>2, <2>6, <2>7 DEF IInv
<1> QED
  BY <1>1, <1>2 DEF ReadXattrIDEntry

\* One round of the loop adds its pair, over an earlier one of the same name.
LEMMA PairKeeps ==
  ASSUME IInv, ReadPair
  PROVE  IInv'
<1> DEFINE lo == entry.ref
           q(k) == qualified(img.pairs[k])
<1>1. /\ pc = "pairs" /\ lo \in Nat \ {0} /\ i \in Nat /\ i + 1 <= entry.count
      /\ pos = lo + i /\ entry.count \in Nat
  BY DEF ReadPair, InLoop, IInv, XEntries
<1>2. /\ pos \in DOMAIN img.pairs /\ WellFormed(pos)
  <2>1. pos <= Len(img.pairs) /\ WellFormed(pos) /\ img \in Images
    BY DEF ReadPair, IInv
  <2>2. Len(img.pairs) \in Nat /\ DOMAIN img.pairs = 1..Len(img.pairs)
    BY <2>1, ImagesAssumption, LenProperties
  <2>3. pos \in Nat \ {0}
    BY <1>1
  <2>4. pos \in 1..Len(img.pairs)
    BY <2>1, <2>2, <2>3
  <2> QED
    BY <2>1, <2>2, <2>4
<1>3. /\ UNCHANGED <<img, size, idx, pc, entry, err>>
      /\ out' = store(pos) /\ pos' = pos + 1 /\ i' = i + 1
  BY DEF ReadPair
<1>4. /\ \A k : q(k)' = q(k) /\ ValueOf(k)' = ValueOf(k)
      /\ \A k : WellFormed(k)' <=> WellFormed(k)
  BY <1>3 DEF qualified, ValueOf, ValueAt, WellFormed, ReadableAt
<1>5. Holding(pos - 1)
  BY <1>1 DEF IInv
<1>6. \A k : k \in lo..pos <=> k \in lo..(pos - 1) \/ k = pos
  BY <1>1
<1>7. /\ DOMAIN out' = DOMAIN out \cup {q(pos)}
      /\ out'[q(pos)] = ValueOf(pos)
      /\ \A x \in DOMAIN out : x # q(pos) => out'[x] = out[x]
  BY <1>3 DEF store, replaces
<1>8. \A k \in lo..pos : k \in DOMAIN img.pairs /\ WellFormed(k)
  BY <1>2, <1>5, <1>6 DEF Holding
<1>9. DOMAIN out' = {q(k) : k \in lo..pos}
  BY <1>5, <1>6, <1>7 DEF Holding
<1>10. ASSUME NEW k \in lo..pos, \A l \in lo..pos : q(l) = q(k) => l <= k
       PROVE  out'[q(k)] = ValueOf(k)
  <2>1. CASE k = pos
    BY <1>7, <2>1
  <2>2. CASE k # pos
    <3>1. k \in lo..(pos - 1) /\ q(k) \in DOMAIN out
      BY <1>5, <1>6, <2>2 DEF Holding
    <3>2. pos \in lo..pos /\ ~(pos <= k)
      BY <1>1, <3>1
    <3>3. q(k) # q(pos)
      BY <1>10, <3>2
    <3>4. out[q(k)] = ValueOf(k)
      BY <1>5, <1>6, <1>10, <3>1 DEF Holding
    <3> QED
      BY <1>7, <3>1, <3>3, <3>4
  <2> QED
    BY <2>1, <2>2
<1>11. Holding(pos - 1)'
  <2>1. pos' - 1 = pos
    BY <1>1, <1>3
  <2> QED
    BY <1>3, <1>4, <1>8, <1>9, <1>10, <2>1 DEF Holding
<1>12. err = "pending"
  BY <1>1 DEF IInv
<1> QED
  BY <1>1, <1>3, <1>11, <1>12 DEF IInv, XEntries

\* Every step keeps the invariant.
LEMMA NextInv == IInv /\ [Next]_vars => IInv'
<1> SUFFICES ASSUME IInv, [Next]_vars PROVE IInv'
  OBVIOUS
<1>1. CASE NoAttributes
  BY <1>1 DEF NoAttributes, return, IInv
<1>2. CASE ReadXattrTable
  <2>1. CASE return("ioerr") \/ return("corrupt")
    BY <2>1, ErrorKeeps
  <2>2. CASE pc' = "table" /\ UNCHANGED <<img, size, idx, entry, pos, i, budget, out, err>>
    BY <1>2, <2>2 DEF ReadXattrTable, IInv
  <2> QED
    BY <1>2, <2>1, <2>2 DEF ReadXattrTable
<1>3. CASE ReadXattrIDEntry
  BY <1>3, EntryKeeps
<1>4. CASE NewMetaCursor
  <2>1. CASE return("corrupt")
    BY <2>1, ErrorKeeps
  <2>2. CASE /\ pc' = "pairs" /\ pos' = entry.ref
             /\ UNCHANGED <<img, size, idx, entry, i, budget, out, err>>
    <3>1. out = <<>> /\ i = 0 /\ err = "pending" /\ entry \in XEntries
      BY <1>4 DEF NewMetaCursor, IInv
    <3>2. entry.ref..(entry.ref - 1) = {} /\ entry.ref + 0 = entry.ref
      BY <3>1 DEF XEntries
    <3>3. Holding(pos - 1)'
      BY <2>2, <3>1, <3>2 DEF Holding
    <3>4. entry.count >= 0
      BY <3>1 DEF XEntries
    <3> QED
      BY <2>2, <3>1, <3>2, <3>3, <3>4 DEF IInv
  <2> QED
    BY <1>4, <2>1, <2>2 DEF NewMetaCursor
<1>5. CASE RefusePair
  BY <1>5, ErrorKeeps DEF RefusePair
<1>6. CASE ReadPair
  BY <1>6, PairKeeps
<1>7. CASE EndPairs
  <2>1. /\ entry \in XEntries /\ i = entry.count /\ pos = entry.ref + i /\ Holding(pos - 1)
    BY <1>7 DEF EndPairs, IInv, XEntries
  <2>2. UNCHANGED <<img, out, entry, idx>> /\ pc' = "done" /\ err' = "nil"
    BY <1>7 DEF EndPairs, return
  <2>3. pos - 1 = (entry.ref + entry.count - 1)'
    BY <2>1, <2>2 DEF XEntries
  <2>4. Holding(entry.ref + entry.count - 1)'
    BY <2>1, <2>2, <2>3 DEF Holding, qualified, ValueOf, ValueAt, WellFormed, ReadableAt
  <2> QED
    BY <2>1, <2>2, <2>4 DEF IInv
<1>8. CASE ReadFails
  BY <1>8, ErrorKeeps DEF ReadFails
<1>9. CASE UNCHANGED vars
  <2>1. UNCHANGED <<img, idx, pc, entry, pos, i, out, err>>
    BY <1>9 DEF vars
  <2> QED
    BY <2>1 DEF IInv, Holding, qualified, ValueOf, ValueAt, WellFormed, ReadableAt
<1> QED
  BY <1>1, <1>2, <1>3, <1>4, <1>5, <1>6, <1>7, <1>8, <1>9 DEF Next, Returned

\* Whatever the image, a map that readXattrPairs returns holds exactly the pairs its
\* entry counts, the last one of a name winning, and an error returns no map.
THEOREM MapIsExact == Spec => []AttributesExact
<1>1. IInv => AttributesExact
  BY DEF IInv, AttributesExact, Holding, List
<1> QED
  BY <1>1, InitInv, NextInv, PTL DEF Spec

-----------------------------------------------------------------------------
(* A flat table cut into full blocks and a rest.                            *)

Flattens(bs, m, g) == g = [j \in 1..m |-> IF j = 1 THEN bs[j] ELSE g[j - 1] \o bs[j]]

\* The recursion of FlattenSeq has a solution.
LEMMA FlattenExists ==
  ASSUME NEW bs, NEW m \in Nat
  PROVE  \E g : Flattens(bs, m, g)
<1> DEFINE P == {x \in Nat : \E g : Flattens(bs, x, g)}
<1>1. 0 \in P
  <2> DEFINE g == [j \in 1..0 |-> <<>>]
  <2>1. Flattens(bs, 0, g)
    BY DEF Flattens
  <2> QED
    BY <2>1
<1>2. ASSUME NEW x \in Nat, x \in P PROVE x + 1 \in P
  <2>1. PICK g : Flattens(bs, x, g)
    BY <1>2
  <2> DEFINE v(j) == IF j = 1 THEN bs[j] ELSE g[j - 1] \o bs[j]
             h == [j \in 1..(x + 1) |-> v(j)]
  <2>0. \A j \in 1..x : g[j] = v(j)
    BY <2>1, Zenon DEF Flattens
  <2>2. \A j \in 1..x : h[j] = g[j]
    <3>1. \A j \in 1..x : j \in 1..(x + 1)
      OBVIOUS
    <3> HIDE DEF v
    <3> QED
      BY <2>0, <3>1
  <2>3. ASSUME NEW j \in 1..(x + 1)
        PROVE  h[j] = IF j = 1 THEN bs[j] ELSE h[j - 1] \o bs[j]
    <3>1. CASE j = 1
      BY <3>1
    <3>2. CASE j # 1
      <4>1. j - 1 \in 1..x
        BY <3>2
      <4>2. h[j] = g[j - 1] \o bs[j]
        BY <3>2
      <4> HIDE DEF h
      <4> QED
        BY <2>2, <3>2, <4>1, <4>2
    <3> QED
      BY <3>1, <3>2
  <2>4. h = [j \in 1..(x + 1) |-> h[j]]
    OBVIOUS
  <2> HIDE DEF h
  <2>5. Flattens(bs, x + 1, h)
    BY <2>3, <2>4 DEF Flattens
  <2>6. x + 1 \in Nat
    OBVIOUS
  <2> QED
    BY <2>5, <2>6
<1> HIDE DEF P
<1>3. Nat \subseteq P
  BY <1>1, <1>2, SetInduction
<1> QED
  BY <1>3 DEF P

\* All blocks but the last are full.
Cut(bs, w) ==
  \A b \in DOMAIN bs :
    IF b = Len(bs) THEN Len(bs[b]) \in 1..w ELSE Len(bs[b]) = w

\* An entry of a flat table is where its index says, in the block and at the position
\* that readXattrIDEntry computes.
LEMMA FlatIndex ==
  ASSUME NEW S, NEW bs \in Seq(Seq(S)), NEW w \in Nat \ {0}, Cut(bs, w)
  PROVE  /\ Len(FlattenSeq(bs)) = IF bs = <<>> THEN 0
                                  ELSE (Len(bs) - 1) * w + Len(bs[Len(bs)])
         /\ \A j \in 1..Len(bs) : \A q \in 1..Len(bs[j]) :
              FlattenSeq(bs)[(j - 1) * w + q] = bs[j][q]
<1>0. PICK m \in Nat : m = Len(bs) /\ DOMAIN bs = 1..m /\ (bs = <<>> <=> m = 0)
  BY LenProperties, EmptySeq
<1>1. CASE m = 0
  <2>1. FlattenSeq(bs) = bs
    BY <1>0, <1>1 DEF FlattenSeq
  <2> QED
    BY <1>0, <1>1, <2>1
<1>2. CASE m # 0
  <2> DEFINE g == CHOOSE g : Flattens(bs, m, g)
  <2>1. Flattens(bs, m, g)
    BY FlattenExists
  <2>2. FlattenSeq(bs) = g[m]
    BY <1>0, <1>2 DEF FlattenSeq, Flattens
  <2> HIDE DEF g
  <2>3. \A j \in 1..m : /\ bs[j] \in Seq(S) /\ Len(bs[j]) \in 1..w
                        /\ j # m => Len(bs[j]) = w
    <3> SUFFICES ASSUME NEW j \in 1..m
                 PROVE  /\ bs[j] \in Seq(S) /\ Len(bs[j]) \in 1..w
                        /\ j # m => Len(bs[j]) = w
      OBVIOUS
    <3>1. bs[j] \in Seq(S)
      BY <1>0, ElementOfSeq
    <3>2. IF j = m THEN Len(bs[j]) \in 1..w ELSE Len(bs[j]) = w
      BY <1>0 DEF Cut
    <3> QED
      BY <3>1, <3>2
  <2> DEFINE Right(x) ==
               /\ g[x] \in Seq(S) /\ Len(g[x]) = (x - 1) * w + Len(bs[x])
               /\ \A j \in 1..x : \A q \in 1..Len(bs[j]) : g[x][(j - 1) * w + q] = bs[j][q]
             P == {x \in Nat : x + 1 \in 1..m => Right(x + 1)}
  <2>4. 0 \in P
    <3>1. g[1] = bs[1]
      BY <1>0, <1>2, <2>1 DEF Flattens
    <3>2. 1 \in 1..m /\ (1 - 1) * w = 0
      BY <1>0, <1>2
    <3>3. bs[1] \in Seq(S) /\ Len(bs[1]) \in Nat
      BY <2>3, <3>2
    <3>4. Right(1)
      <4>1. \A j \in 1..1 : j = 1
        OBVIOUS
      <4>2. \A q \in 1..Len(bs[1]) : (1 - 1) * w + q = q
        BY <3>3
      <4> QED
        BY <3>1, <3>2, <3>3, <4>1, <4>2
    <3> HIDE DEF Right
    <3> QED
      BY <3>4
  <2>5. ASSUME NEW y \in Nat, y \in P PROVE y + 1 \in P
    <3> DEFINE x == y + 1
    <3> HIDE DEF Right
    <3> SUFFICES ASSUME x + 1 \in 1..m PROVE Right(x + 1)
      OBVIOUS
    <3>0. x \in 1..m /\ x \in Nat /\ x # m
      BY <1>0
    <3>9. Right(x)
      BY <2>5, <3>0
    <3>1. x \in 1..m /\ Right(x) /\ x \in Nat /\ x # m
      BY <3>0, <3>9
    <3> HIDE DEF x, P
    <3> USE DEF Right
    <3>2. g[x + 1] = g[x] \o bs[x + 1]
      <4>1. \A j \in 1..m : g[j] = IF j = 1 THEN bs[j] ELSE g[j - 1] \o bs[j]
        BY <2>1, Zenon DEF Flattens
      <4>2. x + 1 # 1 /\ (x + 1) - 1 = x
        BY <3>0
      <4> QED
        BY <4>1, <4>2
    <3>3. Len(g[x]) = x * w /\ g[x] \in Seq(S)
      <4>1. Len(bs[x]) = w
        BY <2>3, <3>1
      <4> QED
        BY <3>1, <4>1
    <3>4. bs[x + 1] \in Seq(S) /\ Len(bs[x + 1]) \in Nat
      BY <2>3
    <3>5. x * w \in Nat
      BY <3>1
    <3> DEFINE l == x * w
    <3>6. /\ g[x + 1] \in Seq(S) /\ Len(g[x + 1]) = l + Len(bs[x + 1])
          /\ \A z \in 1..(l + Len(bs[x + 1])) :
               g[x + 1][z] = IF z <= l THEN g[x][z] ELSE bs[x + 1][z - l]
      <4> HIDE DEF l, Right
      <4>1. Len(g[x]) = l
        BY <3>3 DEF l
      <4>2. /\ g[x] \o bs[x + 1] \in Seq(S)
            /\ Len(g[x] \o bs[x + 1]) = Len(g[x]) + Len(bs[x + 1])
            /\ \A z \in 1..(Len(g[x]) + Len(bs[x + 1])) : (g[x] \o bs[x + 1])[z] =
                  IF z <= Len(g[x]) THEN g[x][z] ELSE bs[x + 1][z - Len(g[x])]
        BY <3>3, <3>4, ConcatProperties
      <4> QED
        BY <3>2, <4>1, <4>2
    <3>7. ASSUME NEW j \in 1..(x + 1), NEW q \in 1..Len(bs[j])
          PROVE  g[x + 1][(j - 1) * w + q] = bs[j][q]
      <4> DEFINE o == (j - 1) * w
      <4>1. CASE j = x + 1
        <5>1. o = l
          BY <3>1, <4>1
        <5>2. o \in Nat /\ l \in Nat
          BY <3>5, <5>1
        <5> HIDE DEF o, l, Right
        <5> DEFINE z == o + q
        <5>3. z \in 1..(l + Len(bs[x + 1])) /\ ~(z <= l) /\ z - l = q
          BY <3>4, <4>1, <5>1, <5>2
        <5> HIDE DEF z
        <5>4. g[x + 1][z] = bs[j][q]
          BY <3>6, <4>1, <5>3
        <5> QED
          BY <5>4 DEF o, z
      <4>2. CASE j # x + 1
        <5>1. j \in 1..x /\ j \in 1..m /\ Len(bs[j]) = w
          <6>1. j \in 1..x /\ j \in 1..m /\ j # m
            BY <1>0, <3>0, <4>2
          <6> QED
            BY <2>3, <6>1
        <5>2. o + w = j * w /\ l = j * w + (x - j) * w
          BY <3>1, <5>1
        <5>3. o \in Nat /\ j * w \in Nat /\ (x - j) * w \in Nat
          BY <3>1, <5>1
        <5>4. o + q \in 1..l
          <6> HIDE DEF o, l
          <6> QED
            BY <3>5, <5>1, <5>2, <5>3 DEF l
        <5>5. g[x][o + q] = bs[j][q]
          BY <3>1, <5>1
        <5> HIDE DEF o, l
        <5>6. o + q \in 1..(l + Len(bs[x + 1])) /\ o + q <= l
          BY <3>4, <3>5, <5>4 DEF l
        <5> QED
          BY <3>6, <5>5, <5>6 DEF o
      <4> QED
        BY <4>1, <4>2
    <3>8. Len(g[x + 1]) = ((x + 1) - 1) * w + Len(bs[x + 1])
      <4>1. (x + 1) - 1 = x
        BY <3>0
      <4> QED
        BY <3>6, <4>1
    <3> HIDE DEF l
    <3> QED
      BY <3>6, <3>7, <3>8
  <2> HIDE DEF P
  <2>6. Nat \subseteq P
    BY <2>4, <2>5, SetInduction
  <2>7. Right(m)
    <3>1. m - 1 \in P /\ (m - 1) + 1 = m
      BY <1>0, <1>2, <2>6
    <3> HIDE DEF Right
    <3> QED
      BY <1>0, <1>2, <3>1 DEF P
  <2> QED
    BY <1>0, <1>2, <2>2, <2>7
<1> QED
  BY <1>1, <1>2

\* The entry of an index within an honest table is found.
LEMMA HonestEntry ==
  ASSUME img \in Images, idx \in Nat, HonestTable, idx < img.idCount
  PROVE  /\ blockIdx < nBlocks
         /\ inBlock < Len(img.blocks[blockIdx + 1])
         /\ img.blocks[blockIdx + 1][inBlock + 1] = FlattenSeq(img.blocks)[idx + 1]
<1> DEFINE bs == img.blocks
           w == PerBlock
           d == idx \div w
           r == idx % w
           m == Len(bs)
<1>1. bs \in Seq(Seq(XEntries)) /\ m \in Nat /\ DOMAIN bs = 1..m
  BY ImagesAssumption, LenProperties DEF XEntries
<1>2. w \in Nat \ {0}
  BY SizesAssumption
<1>3. d \in Nat /\ r \in Nat /\ r < w /\ idx = d * w + r
  BY <1>2
<1>4. Cut(bs, w)
  BY DEF HonestTable, Cut
<1>5. img.idCount = Len(FlattenSeq(bs)) /\ img.idCount \in Nat
  BY ImagesAssumption DEF HonestTable
<1> HIDE DEF w, d, r
<1>6. /\ m # 0 /\ img.idCount = (m - 1) * w + Len(bs[m])
      /\ \A j \in 1..m : \A q \in 1..Len(bs[j]) : FlattenSeq(bs)[(j - 1) * w + q] = bs[j][q]
  <2>1. bs = <<>> => m = 0
    OBVIOUS
  <2>2. m = 0 => bs = <<>>
    BY <1>1, EmptySeq
  <2> HIDE DEF bs
  <2>3. /\ Len(FlattenSeq(bs)) = IF bs = <<>> THEN 0 ELSE (Len(bs) - 1) * w + Len(bs[Len(bs)])
        /\ \A j \in 1..Len(bs) : \A q \in 1..Len(bs[j]) : FlattenSeq(bs)[(j - 1) * w + q] = bs[j][q]
    BY <1>1, <1>2, <1>4, FlatIndex
  <2>4. bs # <<>>
    BY <1>5, <2>3
  <2> QED
    BY <1>5, <2>2, <2>3, <2>4
<1> HIDE DEF m, bs
<1>7. \A j \in 1..m : Len(bs[j]) \in 1..w /\ (j # m => Len(bs[j]) = w)
  <2> SUFFICES ASSUME NEW j \in 1..m PROVE Len(bs[j]) \in 1..w /\ (j # m => Len(bs[j]) = w)
    OBVIOUS
  <2>1. IF j = m THEN Len(bs[j]) \in 1..w ELSE Len(bs[j]) = w
    BY <1>1, <1>4 DEF Cut, m
  <2> QED
    BY <1>2, <2>1
<1>8. d < m
  <2> SUFFICES ASSUME d >= m PROVE FALSE
    BY <1>1, <1>3
  <2>1. d * w = (m - 1) * w + w + (d - m) * w
    BY <1>1, <1>2, <1>3
  <2>2. (m - 1) * w \in Nat /\ (d - m) * w \in Nat /\ d * w \in Nat
    BY <1>1, <1>2, <1>3, <1>6
  <2>3. Len(bs[m]) \in 1..w
    BY <1>1, <1>6, <1>7
  <2> QED
    BY <1>2, <1>3, <1>6, <2>1, <2>2, <2>3
<1>9. r < Len(bs[d + 1])
  <2>1. CASE d + 1 # m
    BY <1>1, <1>2, <1>3, <1>7, <1>8, <2>1
  <2>2. CASE d + 1 = m
    <3>1. (m - 1) * w = d * w /\ d * w \in Nat
      BY <1>2, <1>3, <2>2
    <3>2. Len(bs[m]) \in Nat
      BY <1>1, <1>6, <1>7
    <3> QED
      BY <1>3, <1>6, <2>2, <3>1, <3>2
  <2> QED
    BY <2>1, <2>2
<1>10. bs[d + 1][r + 1] = FlattenSeq(bs)[idx + 1]
  <2>1. d + 1 \in 1..m /\ r + 1 \in 1..Len(bs[d + 1])
    BY <1>1, <1>3, <1>7, <1>8, <1>9
  <2>2. ((d + 1) - 1) * w + (r + 1) = idx + 1
    <3>1. (d + 1) - 1 = d /\ d * w \in Nat
      BY <1>2, <1>3
    <3> QED
      BY <1>3, <3>1
  <2> QED
    BY <1>6, <2>1, <2>2
<1>11. d < (img.idCount + w - 1) \div w
  <2> DEFINE c == img.idCount + w - 1
             e == c \div w
  <2>1. c \in Nat /\ c >= d * w + w /\ d * w \in Nat
    BY <1>2, <1>3, <1>5
  <2> HIDE DEF c
  <2>2. e \in Nat /\ c < e * w + w /\ e * w \in Nat
    BY <1>2, <2>1
  <2> HIDE DEF e
  <2>3. ~(e <= d)
    <3> SUFFICES ASSUME e <= d PROVE FALSE
      OBVIOUS
    <3>1. d * w = e * w + (d - e) * w /\ (d - e) * w \in Nat
      BY <1>2, <1>3, <2>2
    <3> QED
      BY <1>2, <2>1, <2>2, <3>1
  <2> QED
    BY <1>3, <2>2, <2>3 DEF e, c
<1> QED
  BY <1>9, <1>10, <1>11 DEF blockIdx, inBlock, nBlocks, d, r, w, bs

-----------------------------------------------------------------------------
(* What a list costs.                                                       *)

\* A pair that can be read is charged a number.
LEMMA PairCharge ==
  ASSUME img \in Images, NEW k \in DOMAIN img.pairs, WellFormed(k)
  PROVE  /\ charge(k) \in Nat /\ ValueOf(k).n \in Nat
         /\ PrefixLen[img.pairs[k].type] \in Nat /\ Len(img.pairs[k].name) \in Nat
         /\ Price(k) = PairCost + charge(k) /\ Price(k) \in Nat
<1>1. PrefixLen[img.pairs[k].type] \in Nat /\ PairCost \in Nat
  BY SizesAssumption DEF WellFormed
<1>2. \A l \in DOMAIN img.pairs : img.pairs[l].vsize \in Nat /\ Len(img.pairs[l].name) \in Nat
  BY ImagesAssumption
<1>3. ValueOf(k).n \in Nat
  BY <1>2 DEF ValueOf, ValueAt, WellFormed, ReadableAt
<1> DEFINE a == PrefixLen[img.pairs[k].type]
           b == Len(img.pairs[k].name)
           c == ValueOf(k).n
<1>4. a \in Nat /\ b \in Nat /\ c \in Nat
  BY <1>1, <1>2, <1>3
<1>5. charge(k) = a + b + c /\ Price(k) = PairCost + a + b + c
  BY DEF charge, Price
<1>6. charge(k) \in Nat /\ Price(k) = PairCost + charge(k) /\ Price(k) \in Nat
  <2> HIDE DEF a, b, c
  <2> QED
    BY <1>1, <1>4, <1>5
<1> QED
  BY <1>4, <1>6

Readable(S) == \A k \in S : k \in DOMAIN img.pairs /\ WellFormed(k)

\* One more pair adds its price.
LEMMA CostNext ==
  ASSUME img \in Images, NEW lo \in Nat, NEW hi \in Int, lo <= hi + 1, Readable(lo..(hi + 1))
  PROVE  /\ Cost(lo..(hi + 1)) = Cost(lo..hi) + Price(hi + 1)
         /\ Cost(lo..hi) \in Int
<1> DEFINE S == lo..hi
           T == lo..(hi + 1)
           f == [k \in T |-> Price(k)]
           g == [k \in S |-> Price(k)]
<1>1. \A y \in T : f[y] \in Int
  BY PairCharge DEF Readable
<1>2. IsFiniteSet(S) /\ \A y \in S : f[y] = g[y]
  <2>1. IsFiniteSet(S)
    BY FS_Interval
  <2> QED
    BY <2>1
<1>3. hi + 1 \in T /\ f[hi + 1] = Price(hi + 1)
  OBVIOUS
<1>4. Cost(S) = SumFunctionOnSet(g, S) /\ Cost(T) = SumFunctionOnSet(f, T)
  BY DEF Cost
<1> HIDE DEF f, g
<1>5. /\ SumFunctionOnSet(f, T) = SumFunctionOnSet(f, S) + f[hi + 1]
      /\ SumFunctionOnSet(f, S) \in Int
  BY <1>1, SumNext
<1> HIDE DEF S
<1>6. SumFunctionOnSet(f, S) = SumFunctionOnSet(g, S)
  BY <1>2, SumAgree
<1> HIDE DEF T
<1>7. Cost(T) = Cost(S) + Price(hi + 1) /\ Cost(S) \in Int
  BY <1>3, <1>4, <1>5, <1>6
<1> QED
  BY <1>7 DEF S, T

\* A part of a list costs no more than the list.
LEMMA CostMono ==
  ASSUME img \in Images, NEW S, IsFiniteSet(S), NEW T \in SUBSET S, Readable(S)
  PROVE  Cost(T) <= Cost(S)
<1> DEFINE f == [k \in S |-> Price(k)]
           g == [k \in T |-> Price(k)]
<1>1. \A y \in S : f[y] \in Nat
  BY PairCharge DEF Readable
<1>2. IsFiniteSet(T) /\ \A y \in T : f[y] = g[y]
  BY FS_Subset
<1>3. Cost(S) = SumFunctionOnSet(f, S) /\ Cost(T) = SumFunctionOnSet(g, T)
  BY DEF Cost
<1> HIDE DEF f, g
<1>4. SumFunctionOnSet(f, T) <= SumFunctionOnSet(f, S)
  BY <1>1, SumMono
<1>5. SumFunctionOnSet(f, T) = SumFunctionOnSet(g, T)
  BY <1>2, SumAgree
<1> QED
  BY <1>3, <1>4, <1>5

Weighed(map) == IsFiniteSet(DOMAIN map) /\ \A q \in DOMAIN map : Weights(map)[q] \in Nat

\* A pair adds at most its charge to what the map weighs: less if its name was there.
LEMMA StoreHeld ==
  ASSUME img \in Images, pos \in DOMAIN img.pairs, WellFormed(pos), Weighed(out),
         NEW map, map = store(pos)
  PROVE  /\ Weighed(map)
         /\ SumFunctionOnSet(Weights(map), DOMAIN map) <= Held + charge(pos)
<1> DEFINE D == DOMAIN out
           q0 == qualified(img.pairs[pos])
           R == D \ {q0}
           f == Weights(out)
           g == Weights(map)
<1>1. /\ DOMAIN map = R \cup {q0} /\ q0 \notin R
      /\ map[q0] = ValueOf(pos) /\ \A q \in R : map[q] = out[q]
  BY DEF store, replaces
<1>2. g[q0] = charge(pos)
  <2>1. q0[1] = img.pairs[pos].type /\ q0[2] = img.pairs[pos].name
    BY DEF qualified
  <2> HIDE DEF q0
  <2> QED
    BY <1>1, <2>1 DEF Weights, charge
<1>3. \A q \in R : g[q] = f[q] /\ f[q] \in Nat
  BY <1>1 DEF Weights, Weighed
<1>4. charge(pos) \in Nat
  BY PairCharge
<1>5. IsFiniteSet(D) /\ (\A q \in D : f[q] \in Nat) /\ Held = SumFunctionOnSet(f, D)
  BY DEF Weighed, Held
<1>6. IsFiniteSet(R) /\ IsFiniteSet(R \cup {q0}) /\ R \in SUBSET D
  BY <1>5, FS_Subset, FS_AddElement
<1> HIDE DEF q0, R, f, g, D
<1>7. \A q \in R \cup {q0} : g[q] \in Nat
  BY <1>2, <1>3, <1>4
<1>8. SumFunctionOnSet(g, R \cup {q0}) = SumFunctionOnSet(g, R) + g[q0]
  BY <1>1, <1>6, <1>7, SumAdd
<1>9. SumFunctionOnSet(f, R) = SumFunctionOnSet(g, R)
  BY <1>3, <1>6, SumAgree
<1>10. SumFunctionOnSet(f, R) <= SumFunctionOnSet(f, D)
  BY <1>5, <1>6, SumMono
<1>11. SumFunctionOnSet(f, R) \in Nat /\ SumFunctionOnSet(f, D) \in Nat
  BY <1>3, <1>5, <1>6, SumNat
<1>12. Weighed(map)
  BY <1>1, <1>6, <1>7 DEF Weighed, g
<1>13. SumFunctionOnSet(g, DOMAIN map) <= Held + charge(pos)
  BY <1>1, <1>2, <1>4, <1>5, <1>8, <1>9, <1>10, <1>11
<1> QED
  BY <1>12, <1>13 DEF g

-----------------------------------------------------------------------------
\* The entry in hand is the one of the inode's index.
OwnEntry == /\ idx # NoXattr /\ img.start # NoTable /\ idx < img.idCount
            /\ HonestTable => entry = FlattenSeq(img.blocks)[idx + 1]

\* What is held and what the rounds cost was paid from the budget, exactly the prices
\* of the pairs read.
BInv ==
  /\ size \in {-1, img.len} /\ i \in Nat /\ budget \in Nat
  /\ pc \in {"start", "table", "entry"} => budget = MaxXattrBytes
  /\ pc = "table" => idx # NoXattr /\ img.start # NoTable
  /\ pc \in {"entry", "pairs"} => OwnEntry
  /\ Weighed(out)
  /\ Held + PairCost * i + budget <= MaxXattrBytes
  /\ pc = "pairs" => budget + Cost(entry.ref..(pos - 1)) = MaxXattrBytes
  /\ BoundedOutput /\ EntryAtIndex /\ SoundListReturned

\* The empty map weighs nothing.
LEMMA EmptyHeld == Weighed(<<>>) /\ SumFunctionOnSet(Weights(<<>>), DOMAIN <<>>) = 0
<1>1. DOMAIN <<>> = {} /\ IsFiniteSet({})
  BY FS_EmptySet
<1> QED
  BY <1>1, SumEmpty DEF Weighed

\* The whole budget is there at the start.
LEMMA InitBudget == Init => BInv
<1> SUFFICES ASSUME Init PROVE BInv
  OBVIOUS
<1>1. out = <<>> /\ i = 0 /\ budget = MaxXattrBytes /\ err = "pending" /\ pc = "start"
      /\ size \in {-1, img.len}
  BY DEF Init
<1>2. Weighed(out) /\ Held = 0
  BY <1>1, EmptyHeld DEF Held
<1>3. MaxXattrBytes \in Nat /\ PairCost \in Nat
  BY SizesAssumption
<1>4. Held + PairCost * i + budget <= MaxXattrBytes /\ Held + PairCost * i <= MaxXattrBytes
  BY <1>1, <1>2, <1>3
<1> QED
  BY <1>1, <1>2, <1>3, <1>4 DEF BInv, BoundedOutput, EntryAtIndex, SoundListReturned

\* The fixed charge of the rounds, and one more round.
LEMMA Rounds ==
  ASSUME NEW j \in Nat
  PROVE  PairCost * j \in Nat /\ PairCost * (j + 1) = PairCost * j + PairCost
<1>1. PairCost \in Nat
  BY SizesAssumption
<1> QED
  BY <1>1

\* Parts of what is within a limit are within it.
LEMMA Within ==
  ASSUME NEW h \in Nat, NEW c \in Nat, NEW b \in Nat, NEW m \in Nat, h + c + b <= m
  PROVE  0 + c + b <= m /\ h + c <= m
OBVIOUS

\* Xattrs returns with a reason.
LEMMA ReturnBudget ==
  ASSUME IInv, BInv, NEW e, e # "pending", return(e),
         (e = "too large" /\ pos <= Len(img.pairs)) =>
            ~WellFormed(pos) \/ Cost(entry.ref..pos) > MaxXattrBytes,
         e = "nil" => (EntryAtIndex /\ SoundListReturned)',
         e \notin {"nil", "ioerr"} => SoundListReturned'
  PROVE  BInv'
<1>1. UNCHANGED <<img, size, idx, entry, pos, i, budget>> /\ pc' = "done" /\ err' = e
  BY DEF return
<1>2. out' = out \/ out' = <<>>
  BY DEF return
<1>3. i \in Nat /\ budget \in Nat /\ PairCost \in Nat /\ MaxXattrBytes \in Nat
  BY SizesAssumption DEF BInv
<1>4. Weighed(out)' /\ (Held + PairCost * i + budget <= MaxXattrBytes)' /\ Held' \in Nat
  <2>1. CASE out' = out
    <3>1. Held \in Nat
      BY SumNat DEF BInv, Weighed, Held
    <3> QED
      BY <1>1, <2>1, <3>1 DEF BInv, Weighed, Weights, Held
  <2>2. CASE out' = <<>>
    <3>1. Weighed(out)' /\ Held' = 0
      BY <2>2, EmptyHeld DEF Weighed, Held, Weights
    <3>2. Held \in Nat
      BY SumNat DEF BInv, Weighed, Held
    <3> DEFINE c == PairCost * i
    <3>3. c \in Nat /\ Held + c + budget <= MaxXattrBytes
      BY <1>3, Rounds DEF BInv
    <3>4. 0 + c + budget <= MaxXattrBytes
      <4> HIDE DEF c
      <4> QED
        BY <1>3, <3>2, <3>3, Within
    <3> QED
      BY <1>1, <3>1, <3>4
  <2> QED
    BY <1>2, <2>1, <2>2
<1>5. (Held + PairCost * i <= MaxXattrBytes)'
  <2> DEFINE c == PairCost * i'
  <2>1. c \in Nat /\ budget' \in Nat /\ Held' + c + budget' <= MaxXattrBytes
    BY <1>1, <1>3, <1>4, Rounds
  <2> HIDE DEF c
  <2>2. Held' + c <= MaxXattrBytes
    BY <1>3, <1>4, <2>1, Within
  <2> QED
    BY <2>2 DEF c
<1>6. BoundedOutput'
  BY <1>1, <1>5 DEF BoundedOutput, Cost, Price, WellFormed, ValueOf, ValueAt, ReadableAt
<1>7. EntryAtIndex' /\ SoundListReturned'
  BY <1>1 DEF EntryAtIndex, SoundListReturned
<1> QED
  BY <1>1, <1>3, <1>4, <1>6, <1>7 DEF BInv

\* The index is in an honest table, and its list can be read within the budget.
InTable == idx # NoXattr /\ img.start # NoTable /\ HonestTable /\ idx < img.idCount

Fits(e) == e.ref <= Len(img.pairs) + 1 /\ Readable(List(e)) /\ Cost(List(e)) <= MaxXattrBytes

\* A refusal has its reason.
LEMMA RefuseBudget ==
  ASSUME IInv, BInv, NEW e, e \notin {"pending", "nil"}, return(e),
         (e = "too large" /\ pos <= Len(img.pairs)) =>
            ~WellFormed(pos) \/ Cost(entry.ref..pos) > MaxXattrBytes,
         InTable /\ e # "ioerr" => ~Fits(FlattenSeq(img.blocks)[idx + 1])
  PROVE  BInv'
<1>1. img' = img /\ idx' = idx /\ err' = e
  BY DEF return
<1>2. Fits(FlattenSeq(img.blocks)[idx + 1])' <=> Fits(FlattenSeq(img.blocks)[idx + 1])
  BY <1>1 DEF Fits, Readable, List, Cost, Price, WellFormed, ValueOf, ValueAt, ReadableAt
<1>3. InTable' <=> InTable
  BY <1>1 DEF InTable, HonestTable, nBlocks
<1>4. e # "ioerr" => SoundListReturned'
  BY <1>1, <1>2, <1>3 DEF SoundListReturned, InTable, Fits, Readable
<1> QED
  BY <1>4, ReturnBudget

\* A step that has not returned and leaves the budget alone.
LEMMA StepBudget ==
  ASSUME IInv, BInv, UNCHANGED <<img, size, idx, i, budget, out, err>>, err = "pending",
         pc' \in {"table", "entry"} => budget = MaxXattrBytes,
         pc' = "table" => idx # NoXattr /\ img.start # NoTable,
         pc' \in {"entry", "pairs"} => OwnEntry',
         pc' = "pairs" => (budget + Cost(entry.ref..(pos - 1)) = MaxXattrBytes)',
         pc' \in {"table", "entry", "pairs"}
  PROVE  BInv'
<1>1. (Weighed(out) /\ Held + PairCost * i + budget <= MaxXattrBytes
       /\ Held + PairCost * i <= MaxXattrBytes)'
  BY DEF BInv, BoundedOutput, Weighed, Weights, Held
<1>2. BoundedOutput' /\ EntryAtIndex' /\ SoundListReturned'
  BY <1>1 DEF BoundedOutput, EntryAtIndex, SoundListReturned
<1> QED
  BY <1>1, <1>2 DEF BInv

\* Reading the xattr table spends nothing of the budget.
LEMMA TableBudget ==
  ASSUME IInv, BInv, ReadXattrTable
  PROVE  BInv'
<1>1. /\ img.start \in Nat /\ img.len \in Nat /\ img.idCount \in Nat /\ err = "pending"
      /\ IndexHeader \in Nat /\ PtrSize \in Nat /\ PerBlock \in Nat \ {0}
  BY SizesAssumption, ImagesAssumption DEF IInv, ReadXattrTable
<1> DEFINE c == img.start + IndexHeader + nBlocks * PtrSize
<1>2. HonestTable => ~(size > 0 /\ c > size)
  <2>1. HonestTable => c <= img.len
    BY DEF HonestTable
  <2>2. size \in {-1, img.len}
    BY DEF BInv
  <2>3. c \in Int
    <3>1. nBlocks \in Nat
      BY <1>1 DEF nBlocks
    <3> QED
      BY <1>1, <3>1
  <2> HIDE DEF c
  <2> QED
    BY <1>1, <2>1, <2>2, <2>3
<1>3. CASE return("ioerr")
  BY <1>3, RefuseBudget
<1>4. CASE return("corrupt") /\ size > 0 /\ c > size
  BY <1>2, <1>4, RefuseBudget DEF InTable
<1>5. CASE pc' = "table" /\ UNCHANGED <<img, size, idx, entry, pos, i, budget, out, err>>
  BY <1>1, <1>5, StepBudget DEF ReadXattrTable, BInv
<1> QED
  BY <1>3, <1>4, <1>5 DEF ReadXattrTable

\* Reading the id entry spends nothing of the budget.
LEMMA EntryBudget ==
  ASSUME IInv, BInv, ReadXattrIDEntry
  PROVE  BInv'
<1> DEFINE b == img.blocks[blockIdx + 1]
<1>1. /\ img \in Images /\ idx \in Nat /\ pc = "table" /\ err = "pending"
      /\ idx # NoXattr /\ img.start # NoTable /\ budget = MaxXattrBytes
  BY DEF IInv, BInv, ReadXattrIDEntry
<1>2. CASE return("ioerr")
  BY <1>2, RefuseBudget
<1>3. CASE return("corrupt") /\ (idx >= img.idCount \/ blockIdx >= nBlocks \/ inBlock >= Len(b))
  <2>1. img.idCount \in Nat /\ blockIdx \in Nat /\ nBlocks \in Nat /\ inBlock \in Nat
    <3>1. img.idCount \in Nat /\ PerBlock \in Nat \ {0}
      BY <1>1, SizesAssumption, ImagesAssumption
    <3> QED
      BY <1>1, <3>1 DEF blockIdx, nBlocks, inBlock
  <2>2. InTable => Len(b) \in Nat \/ blockIdx >= nBlocks
    BY <1>1, <2>1, HonestEntry DEF InTable
  <2>3. ~InTable
    BY <1>1, <1>3, <2>1, HonestEntry DEF InTable
  <2> QED
    BY <1>3, <2>3, RefuseBudget
<1>4. CASE /\ ~(idx >= img.idCount)
           /\ pc' = "entry" /\ entry' = b[inBlock + 1]
           /\ UNCHANGED <<img, size, idx, pos, i, budget, out, err>>
  <2>1. idx < img.idCount
    BY <1>1, <1>4, ImagesAssumption
  <2>2. HonestTable => entry' = FlattenSeq(img.blocks)[idx + 1]
    BY <1>1, <1>4, <2>1, HonestEntry
  <2>3. HonestTable' = HonestTable
    BY <1>4 DEF HonestTable, nBlocks
  <2>4. OwnEntry'
    BY <1>1, <1>4, <2>1, <2>2, <2>3 DEF OwnEntry
  <2> QED
    BY <1>1, <1>4, <2>4, StepBudget
<1> QED
  BY <1>2, <1>3, <1>4 DEF ReadXattrIDEntry

\* Opening the cursor spends nothing of the budget.
LEMMA CursorBudget ==
  ASSUME IInv, BInv, NewMetaCursor
  PROVE  BInv'
<1>1. /\ OwnEntry /\ entry \in XEntries /\ budget = MaxXattrBytes /\ err = "pending"
      /\ Len(img.pairs) \in Nat
  BY ImagesAssumption DEF IInv, BInv, NewMetaCursor
<1>2. CASE return("corrupt") /\ entry.ref > Len(img.pairs) + 1
  <2>1. InTable => ~Fits(FlattenSeq(img.blocks)[idx + 1])
    BY <1>1, <1>2 DEF OwnEntry, InTable, Fits, XEntries
  <2> QED
    BY <1>2, <2>1, RefuseBudget
<1>3. CASE /\ pc' = "pairs" /\ pos' = entry.ref
           /\ UNCHANGED <<img, size, idx, entry, i, budget, out, err>>
  <2>1. entry.ref..(entry.ref - 1) = {}
    BY <1>1 DEF XEntries
  <2>2. Cost(entry.ref..(pos - 1))' = 0
    BY <1>3, <2>1, SumEmpty DEF Cost
  <2>3. OwnEntry'
    BY <1>1, <1>3 DEF OwnEntry, HonestTable, nBlocks
  <2>4. (budget + Cost(entry.ref..(pos - 1)) = MaxXattrBytes)'
    BY <1>1, <1>3, <2>2, SizesAssumption
  <2> QED
    BY <1>1, <1>3, <2>3, <2>4, StepBudget
<1> QED
  BY <1>2, <1>3 DEF NewMetaCursor

\* What does not fit in the rest of the budget goes past its whole.
LEMMA Exceeds ==
  ASSUME NEW m \in Nat, NEW b \in Nat, NEW p \in Nat, NEW g \in Nat, b < p \/ b < p + g
  PROVE  m - b + p + g > m
OBVIOUS

\* A pair is refused: the list does not fit.
LEMMA PairRefused ==
  ASSUME IInv, BInv, RefusePair
  PROVE  BInv'
<1> DEFINE lo == entry.ref
           S == lo..(pos - 1)
           L == List(entry)
<1>1. /\ img \in Images /\ OwnEntry /\ lo \in Nat \ {0} /\ entry.count \in Nat
      /\ i \in Nat /\ i < entry.count /\ pos = lo + i /\ Readable(S)
      /\ budget + Cost(S) = MaxXattrBytes /\ budget \in Nat
      /\ DOMAIN img.pairs = 1..Len(img.pairs) /\ Len(img.pairs) \in Nat
      /\ MaxXattrBytes \in Nat /\ PairCost \in Nat
  BY SizesAssumption, ImagesAssumption
  DEF IInv, BInv, RefusePair, InLoop, Holding, Readable, XEntries
<1>2. L = lo..(lo + entry.count - 1) /\ pos \in L /\ IsFiniteSet(L)
  <2>1. IsFiniteSet(lo..(lo + entry.count - 1))
    BY <1>1, FS_Interval
  <2> QED
    BY <1>1, <2>1 DEF List
<1>3. InTable => entry = FlattenSeq(img.blocks)[idx + 1]
  BY <1>1 DEF InTable, OwnEntry
<1>4. ASSUME pos \in DOMAIN img.pairs, WellFormed(pos)
      PROVE  /\ Cost(lo..pos) = MaxXattrBytes - budget + PairCost + charge(pos)
             /\ charge(pos) \in Nat
  <2> DEFINE hi == pos - 1
  <2>1. hi \in Int /\ lo <= hi + 1 /\ hi + 1 = pos
    BY <1>1
  <2>2. \A k \in lo..pos : k = pos \/ k \in S
    BY <1>1
  <2> HIDE DEF hi
  <2>3. Readable(lo..(hi + 1))
    BY <1>1, <1>4, <2>1, <2>2 DEF Readable
  <2>4. Cost(lo..(hi + 1)) = Cost(lo..hi) + Price(hi + 1) /\ Cost(lo..hi) \in Int
    BY <1>1, <2>1, <2>3, CostNext
  <2>5. lo..hi = S
    BY DEF hi
  <2>6. Price(pos) = PairCost + charge(pos) /\ charge(pos) \in Nat
    BY <1>1, <1>4, PairCharge
  <2>7. Cost(lo..pos) = Cost(S) + PairCost + charge(pos) /\ Cost(S) \in Int
    <3>1. Cost(lo..pos) = Cost(S) + Price(pos) /\ Cost(S) \in Int
      BY <2>1, <2>4, <2>5
    <3>2. PairCost \in Nat
      BY SizesAssumption
    <3> HIDE DEF S, lo
    <3> QED
      BY <2>6, <3>1, <3>2
  <2> HIDE DEF S, lo
  <2> QED
    BY <1>1, <2>6, <2>7
<1>5. Fits(entry) => pos \in DOMAIN img.pairs /\ WellFormed(pos)
  BY <1>2 DEF Fits, Readable
<1>6. Fits(entry) => Cost(lo..pos) <= MaxXattrBytes
  <2>1. lo..pos \in SUBSET L
    BY <1>1, <1>2
  <2> SUFFICES ASSUME Fits(entry) PROVE Cost(lo..pos) <= MaxXattrBytes
    OBVIOUS
  <2>2. Cost(lo..pos) <= Cost(L) /\ Cost(L) <= MaxXattrBytes
    BY <1>1, <1>2, <2>1, CostMono DEF Fits
  <2> DEFINE f == [k \in L |-> Price(k)]
             g == [k \in lo..pos |-> Price(k)]
  <2>3. Cost(L) \in Nat /\ Cost(lo..pos) \in Nat
    <3>1. (\A k \in L : f[k] \in Nat) /\ \A k \in lo..pos : g[k] \in Nat
      BY <1>1, <2>1, PairCharge DEF Fits, Readable
    <3>2. IsFiniteSet(lo..pos)
      BY <1>2, <2>1, FS_Subset
    <3> HIDE DEF f, g, L, lo
    <3> QED
      BY <1>2, <3>1, <3>2, SumNat DEF Cost, f, g
  <2> QED
    BY <1>1, <2>2, <2>3
<1>11. ASSUME return("too large"), budget < PairCost \/ budget < PairCost + charge(pos)
       PROVE  BInv'
  <2>1. pos <= Len(img.pairs) => pos \in DOMAIN img.pairs
    BY <1>1
  <2>2. ASSUME pos \in DOMAIN img.pairs, WellFormed(pos) PROVE Cost(lo..pos) > MaxXattrBytes
    <3>1. PICK c : c = Cost(lo..pos)
      OBVIOUS
    <3>2. c = MaxXattrBytes - budget + PairCost + charge(pos) /\ charge(pos) \in Nat
      BY <1>4, <2>2, <3>1
    <3>3. c > MaxXattrBytes
      BY <1>1, <1>11, <3>2, Exceeds
    <3> QED
      BY <3>1, <3>3
  <2>3. ASSUME Fits(entry) PROVE FALSE
    <3>1. PICK c : c = Cost(lo..pos)
      OBVIOUS
    <3>2. c <= MaxXattrBytes /\ c > MaxXattrBytes
      BY <1>5, <1>6, <2>2, <2>3, <3>1
    <3>3. c \in Int
      BY <1>1, <1>4, <1>5, <2>3, <3>1
    <3> QED
      BY <1>1, <3>2, <3>3
  <2>4. InTable => ~Fits(FlattenSeq(img.blocks)[idx + 1])
    BY <1>3, <2>3
  <2>5. pos <= Len(img.pairs) => ~WellFormed(pos) \/ Cost(entry.ref..pos) > MaxXattrBytes
    BY <2>1, <2>2
  <2> QED
    BY <1>11, <2>4, <2>5, RefuseBudget
<1>7. CASE return("too large") /\ budget < PairCost
  BY <1>7, <1>11
<1>8. CASE return("ioerr")
  BY <1>8, RefuseBudget
<1>9. CASE return("corrupt") /\ ~WellFormed(pos)
  BY <1>3, <1>5, <1>9, RefuseBudget
<1>10. CASE return("too large") /\ budget < PairCost + charge(pos) /\ pos <= Len(img.pairs) /\ WellFormed(pos)
  BY <1>10, <1>11
<1> QED
  BY <1>7, <1>8, <1>9, <1>10 DEF RefusePair

\* A pair is read: its price leaves the budget.
LEMMA PairPaid ==
  ASSUME IInv, BInv, ReadPair
  PROVE  BInv'
<1> DEFINE lo == entry.ref
           S == lo..(pos - 1)
           hi == pos - 1
<1>1. /\ img \in Images /\ OwnEntry /\ lo \in Nat \ {0} /\ i \in Nat /\ pos = lo + i
      /\ pos \in DOMAIN img.pairs /\ WellFormed(pos) /\ Readable(S)
      /\ budget + Cost(S) = MaxXattrBytes /\ budget \in Nat /\ err = "pending" /\ pc = "pairs"
      /\ Weighed(out) /\ Held + PairCost * i + budget <= MaxXattrBytes
      /\ size \in {-1, img.len}
  BY ImagesAssumption
  DEF IInv, BInv, ReadPair, InLoop, Holding, Readable, XEntries
<1>2. MaxXattrBytes \in Nat /\ PairCost \in Nat
  BY SizesAssumption
<1>3. /\ UNCHANGED <<img, size, idx, pc, entry, err>> /\ out' = store(pos)
      /\ pos' = pos + 1 /\ i' = i + 1 /\ budget' = budget - PairCost - charge(pos)
      /\ budget >= PairCost + charge(pos)
  BY DEF ReadPair
<1>4. charge(pos) \in Nat /\ Price(pos) = PairCost + charge(pos)
  BY <1>1, PairCharge
<1>5. budget' \in Nat
  BY <1>1, <1>2, <1>3, <1>4
<1>6. Weighed(out') /\ SumFunctionOnSet(Weights(out'), DOMAIN out') <= Held + charge(pos)
  BY <1>1, <1>3, StoreHeld
<1>7. Weighed(out)' /\ Held' <= Held + charge(pos) /\ Held \in Nat /\ Held' \in Nat
  <2>1. Held \in Nat
    BY <1>1, SumNat DEF Weighed, Held
  <2>2. SumFunctionOnSet(Weights(out'), DOMAIN out') \in Nat
    BY <1>6, SumNat DEF Weighed
  <2> QED
    BY <1>6, <2>1, <2>2 DEF Weighed, Weights, Held
<1>8. (Held + PairCost * i + budget <= MaxXattrBytes)' /\ (Held + PairCost * i <= MaxXattrBytes)'
  <2> DEFINE c == PairCost * i
             e == PairCost * (i + 1)
  <2>1. c \in Nat /\ e \in Nat /\ e = c + PairCost /\ Held + c + budget <= MaxXattrBytes
    BY <1>1, Rounds
  <2> HIDE DEF c, e
  <2>2. Held' + e + budget' <= MaxXattrBytes
    BY <1>1, <1>2, <1>3, <1>4, <1>7, <2>1
  <2>3. Held' + e <= MaxXattrBytes
    BY <1>2, <1>5, <1>7, <2>1, <2>2, Within
  <2> QED
    BY <1>3, <2>2, <2>3 DEF e
<1>9. (budget + Cost(entry.ref..(pos - 1)) = MaxXattrBytes)'
  <2>1. hi \in Int /\ lo <= hi + 1 /\ hi + 1 = pos /\ pos' - 1 = hi + 1
    BY <1>1, <1>3
  <2>2. \A k \in lo..pos : k = pos \/ k \in S
    BY <1>1
  <2>3. lo..hi = S
    OBVIOUS
  <2> HIDE DEF hi
  <2>4. Readable(lo..(hi + 1))
    BY <1>1, <2>1, <2>2 DEF Readable
  <2>5. Cost(lo..(hi + 1)) = Cost(lo..hi) + Price(hi + 1) /\ Cost(lo..hi) \in Int
    BY <1>1, <2>1, <2>4, CostNext
  <2>6. Cost(entry.ref..(pos - 1))' = Cost(lo..(hi + 1))
    BY <1>3, <2>1 DEF Cost, Price, ValueOf, ValueAt
  <2>7. Cost(lo..(hi + 1)) = Cost(S) + Price(pos) /\ Cost(S) \in Int
    BY <2>1, <2>3, <2>5
  <2>8. budget' + (Cost(S) + Price(pos)) = MaxXattrBytes
    <3> HIDE DEF S, lo
    <3> QED
      BY <1>1, <1>2, <1>3, <1>4, <2>7
  <2> QED
    BY <2>6, <2>7, <2>8
<1>10. OwnEntry'
  BY <1>1, <1>3 DEF OwnEntry, HonestTable, nBlocks
<1>11. BoundedOutput' /\ EntryAtIndex' /\ SoundListReturned'
  BY <1>1, <1>3, <1>8 DEF BoundedOutput, EntryAtIndex, SoundListReturned
<1>12. i' \in Nat /\ pc' = "pairs" /\ size' \in {-1, img'.len}
  BY <1>1, <1>3
<1> QED
  BY <1>5, <1>7, <1>8, <1>9, <1>10, <1>11, <1>12 DEF BInv

\* Every step keeps the budget.
LEMMA NextBudget == IInv /\ BInv /\ [Next]_vars => BInv'
<1> SUFFICES ASSUME IInv, BInv, [Next]_vars PROVE BInv'
  OBVIOUS
<1>1. CASE NoAttributes
  <2>1. return("nil") /\ (idx = NoXattr \/ img.start = NoTable)
    BY <1>1 DEF NoAttributes
  <2>2. (EntryAtIndex /\ SoundListReturned)'
    BY <2>1 DEF return, EntryAtIndex, SoundListReturned
  <2> QED
    BY <2>1, <2>2, ReturnBudget
<1>2. CASE EndPairs
  <2>1. return("nil") /\ OwnEntry
    BY <1>2 DEF EndPairs, BInv
  <2>2. (EntryAtIndex /\ SoundListReturned)'
    BY <2>1 DEF return, OwnEntry, HonestTable, nBlocks, EntryAtIndex, SoundListReturned
  <2> QED
    BY <2>1, <2>2, ReturnBudget
<1>3. CASE ReadFails
  BY <1>3, RefuseBudget DEF ReadFails
<1>4. CASE UNCHANGED vars
  <2>1. UNCHANGED <<img, size, idx, pc, entry, pos, i, budget, out, err>>
    BY <1>4 DEF vars
  <2>2. Held' = Held /\ (Weighed(out)' <=> Weighed(out))
    BY <2>1 DEF Weighed, Weights, Held
  <2>3. HonestTable' <=> HonestTable
    BY <2>1 DEF HonestTable, nBlocks
  <2>4. \A k : (WellFormed(k)' <=> WellFormed(k)) /\ Price(k)' = Price(k)
    BY <2>1 DEF Price, ValueOf, ValueAt, WellFormed, ReadableAt
  <2>5. \A T : Cost(T)' = Cost(T)
    BY <2>4 DEF Cost
  <2>6. BoundedOutput'
    BY <2>1, <2>2, <2>4, <2>5 DEF BInv, BoundedOutput
  <2>7. EntryAtIndex' /\ SoundListReturned'
    BY <2>1, <2>3, <2>4, <2>5 DEF BInv, EntryAtIndex, SoundListReturned, List
  <2>8. OwnEntry => OwnEntry'
    BY <2>1, <2>3 DEF OwnEntry
  <2> QED
    BY <2>1, <2>2, <2>5, <2>6, <2>7, <2>8 DEF BInv
<1> QED
  BY <1>1, <1>2, <1>3, <1>4, TableBudget, EntryBudget, CursorBudget, PairRefused, PairPaid
  DEF Next, Returned

\* The budget holds for every image: what the map holds and the rounds made are within
\* maxXattrBytes at every step, and a list is refused as too large only if it is.
THEOREM OutputIsBounded == Spec => []BoundedOutput
<1>1. BInv => BoundedOutput
  BY DEF BInv
<1> QED
  BY <1>1, InitInv, NextInv, InitBudget, NextBudget, PTL DEF Spec

\* readXattrIDEntry finds the entry of the inode's index in every table of full blocks
\* and a rest, however many entries a block holds.
THEOREM EntryIsAtIndex == Spec => []EntryAtIndex
<1>1. BInv => EntryAtIndex
  BY DEF BInv
<1> QED
  BY <1>1, InitInv, NextInv, InitBudget, NextBudget, PTL DEF Spec

\* Every list of an honest table that can be read within the budget is returned.
THEOREM SoundListIsReturned == Spec => []SoundListReturned
<1>1. BInv => SoundListReturned
  BY DEF BInv
<1> QED
  BY <1>1, InitInv, NextInv, InitBudget, NextBudget, PTL DEF Spec
=============================================================================
