--------------------------- MODULE ScanTreeProofs ---------------------------
(***************************************************************************)
(* The scan of a host directory beside another process, for every set of     *)
(* paths, any contents and any number of changes.  A path is alone while it   *)
(* has had one entry only; what the scan still has to look at is pending.      *)
(***************************************************************************)
EXTENDS ScanTree, DataLemmas, SequenceTheorems

\* Nobody has changed what is at q since the scan began.
Alone(q) == \A e, f \in seen[q] : e = f

\* Nobody has changed what is at p, nor a directory above it.
LeftAlone(p) == \A n \in 1..Len(p) : Alone(SubSeq(p, 1, n))

Nodes == [path : Paths, entry : Entries]
Frames == [path : Seq(Nat), todo : SUBSET Nat]
Visiting == pc \in {"lstat", "content"}

\* The scan has not looked at q yet, and will.
Pending(q) == \/ \E k \in 1..Len(stack) : stack[k].path = Front(q) /\ Last(q) \in stack[k].todo
              \/ Visiting /\ at = q

\* The scan has a node for q, as it is.
Included(q) == host[q] # Special => [path |-> q, entry |-> host[q]] \in nodes

\* A lookup of p may have found something of that kind.
Witnessed(p, kind) ==
  \/ \E e \in seen[p] : e.kind = kind
  \/ \E k \in 1..(Len(p) - 1) : \E e \in seen[SubSeq(p, 1, k)] : e.kind = "link"

\* The host and what it was.
HostInv == /\ host \in Host
           /\ seen \in [Paths -> SUBSET Entries]
           /\ \A p \in Paths : host[p] \in seen[p]

\* The control of the scan.
PcInv == /\ pc \in {"start", "loop", "lstat", "content", "build", "write", "done"}
         /\ pc = "start" => nodes = {}
         /\ pc \in {"start", "build", "write"} => stack = <<>>
         /\ pc \in {"loop", "lstat", "content"} => stack # <<>>

\* A directory being read: its depth is that of the recursion, it has a node, and the
\* names left to visit have none.
FrameInv(k) ==
  /\ Len(stack[k].path) = k - 1
  /\ k > 1 => [path |-> stack[k].path, entry |-> Dir] \in nodes
  /\ \A x \in stack[k].todo : /\ Append(stack[k].path, x) \in Paths
                              /\ \A n \in nodes : n.path # Append(stack[k].path, x)

StackInv == /\ stack \in Seq(Frames)
            /\ \A k \in 1..Len(stack) : FrameInv(k)

\* The entry being visited is one of the innermost directory, and has no node yet.
AtInv == Visiting => /\ at \in Paths
                     /\ Front(at) = dir.path
                     /\ Last(at) \notin dir.todo
                     /\ \A n \in nodes : n.path # at

\* What Lstat said was so.
FiInv == pc = "content" => /\ fi \in {"dir", "link", "file"}
                           /\ Witnessed(at, fi)
                           /\ LeftAlone(at) => host[at].kind = fi

\* The nodes are those of the host where it was left alone.
NodeInv == /\ nodes \subseteq Nodes
           /\ \A n \in nodes : /\ n.entry \notin {None, Special}
                               /\ LeftAlone(n.path) => n.entry = host[n.path]
           /\ NodesWitnessed

\* What was left alone has a node, or a name above it is still to be visited.
ProgressInv == pc \notin {"start", "done"} =>
                 \A p \in Paths : (LeftAlone(p) /\ host[p] # None) =>
                   Included(p) \/ \E n \in 1..Len(p) : Pending(SubSeq(p, 1, n))

\* No error before BuildFromDir returns, and no image before it is written.
ImageInv == (pc # "done" => err = "nil") /\ ImageIntact

ScanInv == HostInv /\ PcInv /\ StackInv /\ AtInv /\ FiInv /\ NodeInv /\ ProgressInv /\ ImageInv

-----------------------------------------------------------------------------
\* Paths, their prefixes and their parents.
LEMMA PrefixIs ==
  ASSUME NEW p \in Seq(Nat), NEW n \in 0..Len(p)
  PROVE  /\ SubSeq(p, 1, n) \in Seq(Nat)
         /\ Len(SubSeq(p, 1, n)) = n
         /\ \A i \in 1..n : SubSeq(p, 1, n)[i] = p[i]
OBVIOUS

\* A prefix of a prefix is a prefix.
LEMMA PrefixOfPrefix ==
  ASSUME NEW p \in Seq(Nat), NEW n \in 0..Len(p), NEW m \in 0..n
  PROVE  SubSeq(SubSeq(p, 1, n), 1, m) = SubSeq(p, 1, m)
<1>1. PICK q \in Seq(Nat) : q = SubSeq(p, 1, n) /\ Len(q) = n /\ \A i \in 1..n : q[i] = p[i]
  BY PrefixIs
<1>2. SubSeq(q, 1, m) = SubSeq(p, 1, m)
  <2>1. m \in 0..Len(q) /\ m \in 0..Len(p)
    BY <1>1
  <2>2. PICK r \in Seq(Nat) : r = SubSeq(q, 1, m) /\ Len(r) = m /\ \A i \in 1..m : r[i] = q[i]
    BY <2>1, PrefixIs
  <2>3. PICK t \in Seq(Nat) : t = SubSeq(p, 1, m) /\ Len(t) = m /\ \A i \in 1..m : t[i] = p[i]
    BY <2>1, PrefixIs
  <2>4. r = t
    BY <1>1, <2>2, <2>3, SeqEqual
  <2> QED BY <2>2, <2>3, <2>4
<1> QED BY <1>1, <1>2

\* A sequence without its last element.
LEMMA FrontOf ==
  ASSUME NEW S, NEW s \in Seq(S), s # <<>>
  PROVE  /\ Front(s) \in Seq(S)
         /\ Len(Front(s)) = Len(s) - 1
         /\ \A i \in 1..(Len(s) - 1) : Front(s)[i] = s[i]
<1>1. ASSUME NEW n \in 0..Len(s)
      PROVE  /\ SubSeq(s, 1, n) \in Seq(S) /\ Len(SubSeq(s, 1, n)) = n
             /\ \A i \in 1..n : SubSeq(s, 1, n)[i] = s[i]
  OBVIOUS
<1>2. Len(s) - 1 \in 0..Len(s)
  BY EmptySeq
<1> DEFINE m == Len(s) - 1
<1> HIDE DEF m
<1>3. /\ SubSeq(s, 1, m) \in Seq(S) /\ Len(SubSeq(s, 1, m)) = m
      /\ \A i \in 1..m : SubSeq(s, 1, m)[i] = s[i]
  BY <1>1, <1>2 DEF m
<1> QED BY <1>3, Zenon DEF Front, m

\* A path is its parent and its name.
LEMMA FrontIs ==
  ASSUME NEW p \in Seq(Nat), p # <<>>
  PROVE  /\ Front(p) \in Seq(Nat) /\ Last(p) \in Nat
         /\ Len(p) \in Nat \ {0} /\ Len(Front(p)) = Len(p) - 1
         /\ Append(Front(p), Last(p)) = p
<1>1. Len(p) \in Nat \ {0} /\ Last(p) \in Nat
  BY EmptySeq, ElementOfSeq DEF Last
<1>2. PICK f \in Seq(Nat) : f = Front(p) /\ Len(f) = Len(p) - 1
                            /\ \A i \in 1..(Len(p) - 1) : f[i] = p[i]
  <2> DEFINE m == Len(p) - 1
  <2>1. m \in 0..Len(p)
    BY <1>1
  <2>2. /\ SubSeq(p, 1, m) \in Seq(Nat) /\ Len(SubSeq(p, 1, m)) = m
        /\ \A i \in 1..m : SubSeq(p, 1, m)[i] = p[i]
    BY <2>1, PrefixIs
  <2> QED BY <2>2 DEF Front
<1>3. PICK a \in Seq(Nat) : /\ a = Append(f, Last(p)) /\ Len(a) = Len(f) + 1
                            /\ \A i \in 1..Len(f) : a[i] = f[i]
                            /\ a[Len(f) + 1] = Last(p)
  BY <1>1, AppendProperties
<1>4. a = p
  <2>1. Len(a) = Len(p)
    BY <1>1, <1>2, <1>3
  <2>2. ASSUME NEW i \in 1..Len(a) PROVE a[i] = p[i]
    <3>1. CASE i = Len(p)
      BY <3>1, <1>1, <1>2, <1>3 DEF Last
    <3>2. CASE i # Len(p)
      <4>1. i \in 1..Len(f) /\ i \in 1..(Len(p) - 1)
        BY <3>2, <2>1, <1>1, <1>2
      <4> QED BY <4>1, <1>2, <1>3
    <3> QED BY <3>1, <3>2
  <2> QED BY <2>1, <2>2, SeqEqual
<1> QED BY <1>1, <1>2, <1>3, <1>4

\* The path of a name below p has p for parent, and ends in that name.
LEMMA AppendIs ==
  ASSUME NEW p \in Seq(Nat), NEW x \in Nat
  PROVE  /\ Append(p, x) \in Seq(Nat) /\ Append(p, x) # <<>>
         /\ Len(Append(p, x)) = Len(p) + 1
         /\ Front(Append(p, x)) = p /\ Last(Append(p, x)) = x
<1>1. PICK a \in Seq(Nat) : /\ a = Append(p, x) /\ a # <<>> /\ Len(a) = Len(p) + 1
                            /\ \A i \in 1..Len(p) : a[i] = p[i]
                            /\ a[Len(p) + 1] = x
  BY AppendProperties
<1>2. Last(a) = x
  BY <1>1 DEF Last
<1>3. PICK f \in Seq(Nat) : f = Front(a) /\ Len(f) = Len(p) /\ \A i \in 1..Len(p) : f[i] = a[i]
  BY <1>1, PrefixIs DEF Front
<1>4. f = p
  BY <1>1, <1>3, SeqEqual
<1> QED BY <1>1, <1>2, <1>3, <1>4

\* The parent of a prefix is the next shorter prefix.
LEMMA PrefixFront ==
  ASSUME NEW p \in Seq(Nat), NEW n \in 1..Len(p)
  PROVE  Front(SubSeq(p, 1, n)) = SubSeq(p, 1, n - 1)
<1>1. Len(SubSeq(p, 1, n)) = n
  BY PrefixIs
<1>2. SubSeq(SubSeq(p, 1, n), 1, n - 1) = SubSeq(p, 1, n - 1)
  BY PrefixOfPrefix
<1> QED BY <1>1, <1>2 DEF Front

\* The paths are non-empty sequences of names.
LEMMA PathIs ==
  ASSUME NEW p \in Paths
  PROVE  /\ p \in Seq(Nat) /\ p # <<>> /\ Len(p) \in Nat \ {0}
         /\ SubSeq(p, 1, Len(p)) = p
BY PathsAssumption, EmptySeq, SubSeqFull

\* Every directory above a path may exist.
LEMMA PrefixPath ==
  ASSUME NEW p \in Paths, NEW n \in 1..Len(p)
  PROVE  SubSeq(p, 1, n) \in Paths
<1> DEFINE S == {m \in Nat : m < Len(p) => SubSeq(p, 1, Len(p) - m) \in Paths}
<1>0. p \in Seq(Nat) /\ Len(p) \in Nat \ {0}
  BY PathIs
<1>1. 0 \in S
  <2>1. Len(p) - 0 = Len(p) /\ SubSeq(p, 1, Len(p)) = p
    BY <1>0, PathIs
  <2> QED BY <2>1
<1>2. ASSUME NEW m \in Nat, m \in S PROVE m + 1 \in S
  <2> SUFFICES ASSUME m + 1 < Len(p) PROVE SubSeq(p, 1, Len(p) - (m + 1)) \in Paths
    OBVIOUS
  <2> DEFINE k == Len(p) - m
  <2>1. k \in 2..Len(p) /\ SubSeq(p, 1, k) \in Paths /\ Len(p) - (m + 1) = k - 1
    BY <1>0, <1>2
  <2> HIDE DEF k
  <2>2. Len(SubSeq(p, 1, k)) = k
    BY <1>0, <2>1, PrefixIs
  <2>3. Front(SubSeq(p, 1, k)) \in Paths
    <3>0. Len(SubSeq(p, 1, k)) > 1
      BY <2>1, <2>2
    <3>1. PICK q \in Paths : q = SubSeq(p, 1, k) /\ Len(q) > 1
      BY <2>1, <2>2, <3>0, Zenon
    <3> QED BY <3>1, PathsAssumption
  <2>4. Front(SubSeq(p, 1, k)) = SubSeq(p, 1, k - 1)
    BY <1>0, <2>1, PrefixFront
  <2> QED BY <2>1, <2>3, <2>4
<1>3. Nat \subseteq S
  <2> HIDE DEF S
  <2> QED BY <1>1, <1>2, SetInduction
<1>4. Len(p) - n \in S /\ Len(p) - (Len(p) - n) = n /\ Len(p) - n < Len(p)
  BY <1>0, <1>3
<1> QED BY <1>4

\* Above what exists there are directories only.
LEMMA DirsAbove ==
  ASSUME NEW h \in Host, NEW p \in Paths, h[p] # None, NEW n \in 1..(Len(p) - 1)
  PROVE  h[SubSeq(p, 1, n)] = Dir
<1> DEFINE S == {m \in Nat : m < Len(p) => h[SubSeq(p, 1, Len(p) - m)] # None
                                           /\ (m # 0 => h[SubSeq(p, 1, Len(p) - m)] = Dir)}
<1>0. p \in Seq(Nat) /\ Len(p) \in Nat \ {0}
  BY PathIs
<1>1. 0 \in S
  <2>1. Len(p) - 0 = Len(p) /\ SubSeq(p, 1, Len(p)) = p
    BY <1>0, PathIs
  <2> QED BY <2>1
<1>2. ASSUME NEW m \in Nat, m \in S PROVE m + 1 \in S
  <2> SUFFICES ASSUME m + 1 < Len(p) PROVE h[SubSeq(p, 1, Len(p) - (m + 1))] = Dir
    BY DEF Dir, None, E
  <2> DEFINE k == Len(p) - m
  <2>1. k \in 2..Len(p) /\ h[SubSeq(p, 1, k)] # None /\ Len(p) - (m + 1) = k - 1
    BY <1>0, <1>2
  <2> HIDE DEF k
  <2>2. Len(SubSeq(p, 1, k)) = k /\ SubSeq(p, 1, k) \in Paths
    BY <1>0, <2>1, PrefixIs, PrefixPath
  <2>3. h[Front(SubSeq(p, 1, k))] = Dir
    <3>0. Len(SubSeq(p, 1, k)) > 1
      BY <2>1, <2>2
    <3>1. PICK q \in Paths : q = SubSeq(p, 1, k) /\ Len(q) > 1 /\ h[q] # None
      BY <2>1, <2>2, <3>0, Zenon
    <3> QED BY <3>1 DEF Host
  <2>4. Front(SubSeq(p, 1, k)) = SubSeq(p, 1, k - 1)
    BY <1>0, <2>1, PrefixFront
  <2> QED BY <2>1, <2>3, <2>4
<1>3. Nat \subseteq S
  <2> HIDE DEF S
  <2> QED BY <1>1, <1>2, SetInduction
<1>4. Len(p) - n \in S /\ Len(p) - (Len(p) - n) = n /\ Len(p) - n < Len(p) /\ Len(p) - n # 0
  <2>1. Len(p) - n \in Nat /\ Len(p) - (Len(p) - n) = n /\ Len(p) - n < Len(p) /\ Len(p) - n # 0
    BY <1>0
  <2> HIDE DEF S
  <2> QED BY <1>3, <2>1
<1> QED BY <1>4

-----------------------------------------------------------------------------
\* What is on the host, and what a lookup finds of it.

\* The kind tells the entries without contents apart.
LEMMA KindIs ==
  ASSUME NEW e \in Entries
  PROVE  /\ e.kind = "none" <=> e = None
         /\ e.kind = "special" <=> e = Special
         /\ e.kind = "dir" <=> e = Dir
         /\ e.kind \in {"none", "special", "dir", "file", "link"}
BY DEF Entries, None, Special, Dir, E

\* What is at a path now is among what was there.
LEMMA HostIs ==
  ASSUME HostInv, NEW p \in Paths
  PROVE  host[p] \in Entries /\ host[p] \in seen[p]
BY DEF HostInv, Host

\* A directory above a path that was left alone was left alone itself.
LEMMA LeftPrefix ==
  ASSUME NEW p \in Paths, LeftAlone(p), NEW n \in 1..Len(p)
  PROVE  LeftAlone(SubSeq(p, 1, n)) /\ Alone(SubSeq(p, 1, n))
<1>1. p \in Seq(Nat) /\ Len(p) \in Nat
  BY PathIs
<1>2. Len(SubSeq(p, 1, n)) = n
  BY <1>1, PrefixIs
<1>3. ASSUME NEW m \in 1..n PROVE Alone(SubSeq(SubSeq(p, 1, n), 1, m))
  <2>1. SubSeq(SubSeq(p, 1, n), 1, m) = SubSeq(p, 1, m)
    BY <1>1, PrefixOfPrefix
  <2>2. m \in 1..Len(p)
    BY <1>1
  <2>3. Alone(SubSeq(p, 1, m))
    BY <2>2 DEF LeftAlone
  <2> QED BY <2>1, <2>3
<1> QED BY <1>2, <1>3 DEF LeftAlone

\* Names that os.ReadDir returns make paths.
LEMMA BelowIs ==
  ASSUME NEW p \in Seq(Nat), NEW x \in Below(p)
  PROVE  x \in Nat /\ Append(p, x) \in Paths
<1>1. PICK q \in Paths : Front(q) = p /\ x = Last(q)
  BY DEF Below
<1>2. q \in Seq(Nat) /\ q # <<>>
  BY PathIs
<1> QED BY <1>1, <1>2, FrontIs

\* os.ReadDir names paths below the directory only.
LEMMA NamesBelow ==
  ASSUME NEW p, NEW names \in Names(p)
  PROVE  names \subseteq Below(p)
BY DEF Names

\* The entries of a directory that no symlink leads to.
LEMMA NamesAre ==
  ASSUME NEW p \in Seq(Nat), ~Follows(p, Len(p)), NEW names \in Names(p),
         NEW q \in Paths, Front(q) = p, host[q] # None
  PROVE  Last(q) \in names
<1>1. q \in Seq(Nat) /\ q # <<>>
  BY PathIs
<1>2. Append(p, Last(q)) = q
  BY <1>1, FrontIs
<1>3. Last(q) \in Below(p)
  BY DEF Below
<1> QED BY <1>2, <1>3 DEF Names

\* A set of names has a first one.
LEMMA MinIn ==
  ASSUME NEW S \in SUBSET Nat, S # {}
  PROVE  Min(S) \in S
<1>1. \E m \in S : \A k \in S : m <= k
  BY NatLeast
<1> QED BY <1>1 DEF Min

\* The directory at hand, and the one that holds the entry at hand.
LEMMA DirIs ==
  ASSUME PcInv, StackInv, pc \in {"loop", "lstat", "content"}
  PROVE  /\ Len(stack) \in Nat \ {0} /\ dir \in Frames
         /\ dir.path \in Seq(Nat) /\ dir.todo \subseteq Nat
         /\ Len(dir.path) = Len(stack) - 1
         /\ FrameInv(Len(stack))
<1>1. stack \in Seq(Frames) /\ stack # <<>>
  BY DEF PcInv, StackInv
<1>2. Len(stack) \in Nat \ {0}
  BY <1>1, EmptySeq
<1>3. dir \in Frames
  BY <1>1, <1>2, ElementOfSeq DEF dir
<1>4. FrameInv(Len(stack))
  BY <1>2 DEF StackInv
<1> QED BY <1>2, <1>3, <1>4 DEF Frames, FrameInv, dir

\* Where nobody interferes a lookup finds what is there.
LEMMA LookupFinds ==
  ASSUME HostInv, PcInv, StackInv, AtInv, NodeInv, Visiting, LeftAlone(at)
  PROVE  /\ ~Follows(at, Len(at) - 1)
         /\ host[at].kind # "link" => ~Follows(at, Len(at))
<1>1. at \in Paths /\ at \in Seq(Nat) /\ at # <<>> /\ Len(at) \in Nat \ {0}
      /\ SubSeq(at, 1, Len(at)) = at
  BY PathIs DEF AtInv
<1>0. Len(at) \in Nat \ {0}
  BY <1>1
<1>2. ASSUME NEW k \in 1..(Len(at) - 1) PROVE host[SubSeq(at, 1, k)] = Dir
  <2> DEFINE m == Len(at) - 1
             d == SubSeq(at, 1, m)
  <2>0. m \in 1..Len(at) /\ k \in 1..m
    BY <1>1
  <2>1. d \in Paths /\ LeftAlone(d) /\ Front(at) = d /\ Len(d) = m
    BY <1>1, <2>0, PrefixPath, LeftPrefix, PrefixIs DEF Front
  <2>2. dir.path = d /\ Len(dir.path) = Len(stack) - 1 /\ Len(stack) \in Nat \ {0}
        /\ FrameInv(Len(stack))
    BY <2>1, DirIs DEF AtInv, Visiting
  <2>3. [path |-> d, entry |-> Dir] \in nodes
    <3>1. Len(stack) > 1
      BY <2>0, <2>1, <2>2
    <3> QED BY <2>2, <3>1 DEF FrameInv, dir
  <2>4. host[d] = Dir
    BY <2>1, <2>3 DEF NodeInv
  <2>5. CASE k = m
    BY <2>4, <2>5
  <2>6. CASE k # m
    <3>0. k \in 1..(m - 1)
      BY <1>0, <2>6
    <3>1. k \in 1..(Len(d) - 1)
      BY <2>1, <3>0, Zenon
    <3>2. host[d] # None
      BY <2>4 DEF Dir, None, E
    <3>3. host[SubSeq(d, 1, k)] = Dir
      BY <2>1, <3>1, <3>2, DirsAbove DEF HostInv
    <3>4. SubSeq(d, 1, k) = SubSeq(at, 1, k)
      BY <1>1, <2>0, PrefixOfPrefix
    <3> QED BY <3>3, <3>4
  <2> QED BY <2>5, <2>6
<1>3. Dir.kind # "link"
  BY DEF Dir, E
<1>4. ~Follows(at, Len(at) - 1)
  BY <1>2, <1>3 DEF Follows
<1>5. ASSUME host[at].kind # "link", NEW k \in 1..Len(at) PROVE host[SubSeq(at, 1, k)].kind # "link"
  <2>1. CASE k = Len(at)
    BY <1>1, <1>5, <2>1
  <2>2. CASE k # Len(at)
    <3>1. k \in 1..(Len(at) - 1)
      BY <1>0, <2>2
    <3> QED BY <1>2, <1>3, <3>1
  <2> QED BY <2>1, <2>2
<1> QED BY <1>4, <1>5 DEF Follows

-----------------------------------------------------------------------------
\* Another process.
LEMMA AboveFront ==
  ASSUME NEW p \in Paths, NEW q \in Paths, Len(q) > 1
  PROVE  /\ IsStrictPrefix(Front(q), q)
         /\ ~IsStrictPrefix(q, Front(q))
         /\ IsStrictPrefix(p, Front(q)) => IsStrictPrefix(p, q)
<1>1. p \in Seq(Nat) /\ q \in Seq(Nat) /\ q # <<>> /\ Len(p) \in Nat /\ Len(q) \in Nat
  BY PathIs
<1>2. PICK f \in Seq(Nat) : f = Front(q) /\ Len(f) = Len(q) - 1 /\ f = SubSeq(q, 1, Len(q) - 1)
  BY <1>1, FrontIs DEF Front
<1>3. SubSeq(f, 1, Len(f)) = f
  BY SubSeqFull
<1>4. IsStrictPrefix(f, q) /\ ~IsStrictPrefix(q, f)
  BY <1>1, <1>2, <1>3 DEF IsStrictPrefix, IsPrefix
<1>5. ASSUME IsStrictPrefix(p, f) PROVE IsStrictPrefix(p, q)
  <2>1. Len(p) <= Len(f) /\ SubSeq(p, 1, Len(p)) = SubSeq(f, 1, Len(p))
    BY <1>5 DEF IsStrictPrefix, IsPrefix
  <2>2. SubSeq(f, 1, Len(p)) = SubSeq(q, 1, Len(p))
    BY <1>1, <1>2, <2>1, PrefixOfPrefix
  <2>3. Len(p) <= Len(q) /\ p # q
    BY <1>1, <1>2, <2>1
  <2> QED BY <2>1, <2>2, <2>3 DEF IsStrictPrefix, IsPrefix
<1> QED BY <1>2, <1>4, <1>5

\* The host stays a tree, and where it changed it shows.
LEMMA EditIs ==
  ASSUME HostInv, NEW p \in Paths, NEW e \in Entries, Edit(p, e)
  PROVE  /\ HostInv'
         /\ \A q \in Paths : seen[q] \subseteq seen'[q] /\ (Alone(q)' => Alone(q) /\ host'[q] = host[q])
<1> DEFINE wiped(q) == IsStrictPrefix(p, q) /\ e # Dir
<1>1. /\ host' = [q \in Paths |-> IF q = p THEN e ELSE IF wiped(q) THEN None ELSE host[q]]
      /\ Len(p) > 1 => host[Front(p)] = Dir
      /\ seen' = [q \in Paths |-> seen[q] \cup {host'[q]}]
  BY DEF Edit
<1>2. host \in [Paths -> Entries] /\ \A q \in Paths : (Len(q) > 1 /\ host[q] # None) => host[Front(q)] = Dir
  BY DEF HostInv, Host
<1>3. None \in Entries
  BY DEF Entries
<1>4. host' \in [Paths -> Entries]
  BY <1>1, <1>2, <1>3
<1>5. ASSUME NEW q \in Paths, Len(q) > 1, host'[q] # None PROVE host'[Front(q)] = Dir
  <2> DEFINE f == Front(q)
  <2>0. f \in Paths
    BY <1>5, PathsAssumption
  <2>1. IsStrictPrefix(f, q) /\ ~IsStrictPrefix(q, f) /\ (IsStrictPrefix(p, f) => IsStrictPrefix(p, q))
    BY <1>5, AboveFront
  <2>2. f # q
    BY <2>1 DEF IsStrictPrefix
  <2> HIDE DEF f
  <2>3. CASE q = p
    <3>1. host[f] = Dir
      BY <1>1, <1>5, <2>3 DEF f
    <3>2. host'[f] = host[f]
      BY <1>1, <2>0, <2>1, <2>2, <2>3
    <3> QED BY <3>1, <3>2 DEF f
  <2>4. CASE q # p
    <3>1. ~wiped(q) /\ host[q] # None
      BY <1>1, <1>5, <2>4
    <3>2. host[f] = Dir
      BY <1>2, <1>5, <3>1 DEF f
    <3>3. CASE f = p
      <4>1. e = Dir
        BY <2>1, <3>1, <3>3
      <4> QED BY <1>1, <2>0, <3>3, <4>1 DEF f
    <3>4. CASE f # p
      <4>1. ~wiped(f)
        BY <2>1, <3>1
      <4> QED BY <1>1, <2>0, <3>2, <3>4, <4>1 DEF f
    <3> QED BY <3>3, <3>4
  <2> QED BY <2>3, <2>4
<1>6. host' \in Host
  BY <1>4, <1>5 DEF Host
<1>7. seen' \in [Paths -> SUBSET Entries] /\ \A q \in Paths : host'[q] \in seen'[q]
  BY <1>1, <1>4 DEF HostInv
<1>8. ASSUME NEW q \in Paths
      PROVE  seen[q] \subseteq seen'[q] /\ (Alone(q)' => Alone(q) /\ host'[q] = host[q])
  <2>1. seen'[q] = seen[q] \cup {host'[q]} /\ host[q] \in seen[q]
    BY <1>1 DEF HostInv
  <2>2. Alone(q)' => \A d, f \in seen'[q] : d = f
    BY DEF Alone
  <2> QED BY <2>1, <2>2 DEF Alone
<1> QED BY <1>6, <1>7, <1>8 DEF HostInv

\* Another process changes the host: what the scan holds stays witnessed, and paths that
\* are no longer alone owe nothing.
LEMMA EditKeeps ==
  ASSUME ScanInv, NEW p \in Paths, NEW e \in Entries, Edit(p, e)
  PROVE  ScanInv'
<1>1. /\ HostInv /\ PcInv /\ StackInv /\ AtInv /\ FiInv /\ NodeInv /\ ProgressInv /\ ImageInv
  BY DEF ScanInv
<1>2. /\ HostInv'
      /\ \A q \in Paths : seen[q] \subseteq seen'[q] /\ (Alone(q)' => Alone(q) /\ host'[q] = host[q])
  BY <1>1, EditIs
<1>3. UNCHANGED <<stack, at, fi, nodes, pc, img, err>>
  BY DEF Edit, scan
<1>4. ASSUME NEW q \in Paths, LeftAlone(q)' PROVE LeftAlone(q) /\ host'[q] = host[q]
  <2>1. Len(q) \in 1..Len(q) /\ SubSeq(q, 1, Len(q)) = q
    BY PathIs
  <2>2. ASSUME NEW n \in 1..Len(q)
        PROVE  Alone(SubSeq(q, 1, n)) /\ host'[SubSeq(q, 1, n)] = host[SubSeq(q, 1, n)]
    <3>1. Alone(SubSeq(q, 1, n))'
      BY <1>4 DEF LeftAlone
    <3> QED BY <1>2, <3>1, PrefixPath
  <2> QED BY <2>1, <2>2 DEF LeftAlone
<1>5. ASSUME NEW q \in Paths, NEW kind, Witnessed(q, kind) PROVE Witnessed(q, kind)'
  <2>1. CASE \E d \in seen[q] : d.kind = kind
    BY <1>2, <2>1 DEF Witnessed
  <2>2. CASE \E k \in 1..(Len(q) - 1) : \E d \in seen[SubSeq(q, 1, k)] : d.kind = "link"
    <3>1. PICK k \in 1..(Len(q) - 1) : \E d \in seen[SubSeq(q, 1, k)] : d.kind = "link"
      BY <2>2
    <3>2. SubSeq(q, 1, k) \in Paths
      <4>1. Len(q) \in Nat
        BY PathIs
      <4>2. k \in 1..Len(q)
        BY <4>1
      <4> QED BY <4>2, PrefixPath
    <3> QED BY <1>2, <3>1, <3>2 DEF Witnessed
  <2> QED BY <1>5, <2>1, <2>2 DEF Witnessed
<1>6. PcInv' /\ ImageInv'
  BY <1>1, <1>3 DEF PcInv, ImageInv, ImageIntact
<1>7. StackInv'
  BY <1>1, <1>3 DEF StackInv, FrameInv
<1>8. AtInv'
  BY <1>1, <1>3 DEF AtInv, Visiting, dir
<1>9. FiInv'
  <2> SUFFICES ASSUME pc = "content" PROVE FiInv'
    BY <1>3 DEF FiInv
  <2>1. PICK q \in Paths, kind \in {"dir", "link", "file"} : q = at /\ kind = fi
    BY <1>1 DEF AtInv, FiInv, Visiting
  <2>2. Witnessed(q, kind) /\ (LeftAlone(q) => host[q].kind = kind)
    BY <1>1, <2>1 DEF FiInv
  <2>3. Witnessed(q, kind)' /\ (LeftAlone(q)' => host'[q].kind = kind)
    BY <1>4, <1>5, <2>2
  <2>4. q = at' /\ kind = fi'
    BY <1>3, <2>1
  <2> QED BY <2>3, <2>4 DEF FiInv
<1>10. NodeInv'
  <2>1. nodes \subseteq Nodes /\ NodesWitnessed /\ \A n \in nodes : n.path \in Paths
    BY <1>1 DEF NodeInv, Nodes
  <2>2. ASSUME NEW n \in nodes
        PROVE  n.entry \notin {None, Special} /\ (LeftAlone(n.path)' => n.entry = host'[n.path])
    BY <1>1, <1>4, <2>1 DEF NodeInv
  <2>3. ASSUME NEW n \in nodes PROVE Witnessed(n.path, n.entry.kind)'
    <3>1. Witnessed(n.path, n.entry.kind)
      BY <2>1 DEF NodesWitnessed, Witnessed
    <3> QED BY <1>5, <2>1, <3>1
  <2>4. NodesWitnessed'
    BY <1>3, <2>1, <2>3 DEF NodesWitnessed, Witnessed
  <2> QED BY <1>3, <2>1, <2>2, <2>4 DEF NodeInv
<1>11. ProgressInv'
  <2> SUFFICES ASSUME pc \notin {"start", "done"}, NEW q \in Paths, LeftAlone(q)', host'[q] # None
               PROVE  (Included(q) \/ \E n \in 1..Len(q) : Pending(SubSeq(q, 1, n)))'
    BY <1>3 DEF ProgressInv
  <2>1. LeftAlone(q) /\ host'[q] = host[q]
    BY <1>4
  <2>2. Included(q) \/ \E n \in 1..Len(q) : Pending(SubSeq(q, 1, n))
    BY <1>1, <2>1 DEF ProgressInv
  <2> QED BY <1>3, <2>1, <2>2 DEF Included, Pending, Visiting
<1> QED BY <1>2, <1>6, <1>7, <1>8, <1>9, <1>10, <1>11 DEF ScanInv

-----------------------------------------------------------------------------
\* The scan.
LEMMA FailKeeps ==
  ASSUME ScanInv, pc # "done", fail
  PROVE  ScanInv'
<1>1. /\ HostInv /\ PcInv /\ StackInv /\ AtInv /\ FiInv /\ NodeInv /\ ProgressInv /\ ImageInv
  BY DEF ScanInv
<1>2. pc' = "done" /\ err' = "error" /\ UNCHANGED <<host, seen, stack, nodes, img>>
  BY DEF fail
<1>3. HostInv'
  BY <1>1, <1>2 DEF HostInv
<1>4. PcInv' /\ ImageInv'
  BY <1>1, <1>2 DEF PcInv, ImageInv, ImageIntact
<1>5. StackInv'
  BY <1>1, <1>2 DEF StackInv, FrameInv
<1>6. AtInv' /\ FiInv' /\ ProgressInv'
  BY <1>2 DEF AtInv, FiInv, ProgressInv, Visiting
<1>7. NodeInv'
  BY <1>1, <1>2 DEF NodeInv, NodesWitnessed, LeftAlone, Alone
<1> QED BY <1>3, <1>4, <1>5, <1>6, <1>7 DEF ScanInv

\* The root is read: all that is there is pending.
LEMMA ScanDirKeeps ==
  ASSUME ScanInv, ScanDir
  PROVE  ScanInv'
<1>1. /\ HostInv /\ PcInv /\ StackInv /\ AtInv /\ FiInv /\ NodeInv /\ ProgressInv /\ ImageInv
  BY DEF ScanInv
<1>2. PICK names \in Names(<<>>) : stack' = <<[path |-> <<>>, todo |-> names]>>
  BY DEF ScanDir
<1>3. pc = "start" /\ pc' = "loop" /\ img' = img /\ UNCHANGED <<host, seen, nodes, err>>
  BY DEF ScanDir, created
<1>4. nodes = {}
  BY <1>1, <1>3 DEF PcInv
<1>5. <<>> \in Seq(Nat) /\ Len(<<>>) = 0 /\ ~Follows(<<>>, Len(<<>>))
  BY DEF Follows
<1>6. \A x \in names : x \in Nat /\ Append(<<>>, x) \in Paths
  BY <1>5, NamesBelow, BelowIs
<1>7. HostInv'
  BY <1>1, <1>3 DEF HostInv
<1>8. PcInv' /\ ImageInv' /\ AtInv' /\ FiInv'
  BY <1>1, <1>2, <1>3 DEF PcInv, ImageInv, ImageIntact, AtInv, FiInv, Visiting
<1>9. StackInv'
  <2>1. [path |-> <<>>, todo |-> names] \in Frames
    BY <1>5, <1>6 DEF Frames
  <2>2. stack' \in Seq(Frames) /\ Len(stack') = 1 /\ stack'[1] = [path |-> <<>>, todo |-> names]
    BY <1>2, <2>1
  <2>3. stack'[1].path = <<>> /\ stack'[1].todo = names
    BY <2>2
  <2>4. FrameInv(1)'
    BY <1>3, <1>4, <1>5, <1>6, <2>3 DEF FrameInv
  <2> QED BY <2>2, <2>4 DEF StackInv
<1>10. NodeInv'
  BY <1>3, <1>4 DEF NodeInv, NodesWitnessed
<1>11. ProgressInv'
  <2> SUFFICES ASSUME NEW p \in Paths, host[p] # None
               PROVE  \E n \in 1..Len(p) : Pending(SubSeq(p, 1, n))'
    BY <1>3 DEF ProgressInv
  <2>1. p \in Seq(Nat) /\ Len(p) \in Nat \ {0} /\ SubSeq(p, 1, Len(p)) = p /\ 1 \in 1..Len(p)
    BY PathIs
  <2> DEFINE q == SubSeq(p, 1, 1)
  <2>2. q \in Paths
    BY <2>1, PrefixPath
  <2>3. Front(q) = <<>>
    <3>1. Front(q) = SubSeq(p, 1, 1 - 1)
      BY <2>1, PrefixFront
    <3>2. SubSeq(p, 1, 1 - 1) = <<>>
      BY <2>1, SubSeqEmpty
    <3> QED BY <3>1, <3>2
  <2>4. host[q] # None
    <3>1. CASE Len(p) = 1
      BY <2>1, <3>1
    <3>2. CASE Len(p) # 1
      <4>1. 1 \in 1..(Len(p) - 1)
        BY <2>1, <3>2
      <4>2. host[q] = Dir
        BY <1>1, <4>1, DirsAbove DEF HostInv
      <4> QED BY <4>2 DEF Dir, None, E
    <3> QED BY <3>1, <3>2
  <2>5. Last(q) \in names
    BY <1>5, <2>2, <2>3, <2>4, NamesAre
  <2> HIDE DEF q
  <2>6. Len(stack') = 1 /\ stack'[1].path = Front(q) /\ Last(q) \in stack'[1].todo
    BY <1>2, <2>3, <2>5
  <2>7. Pending(q)'
    BY <2>6 DEF Pending
  <2> QED BY <2>1, <2>7 DEF q
<1> QED BY <1>7, <1>8, <1>9, <1>10, <1>11 DEF ScanInv

\* Nothing pending is forgotten when nothing but the position in the scan changes.
LEMMA ProgressKept ==
  ASSUME ProgressInv, pc # "start", UNCHANGED <<host, seen>>, nodes \subseteq nodes',
         \A q \in Paths : Pending(q) => Pending(q)',
         pc # "done"
  PROVE  ProgressInv'
<1> SUFFICES ASSUME NEW p \in Paths, LeftAlone(p)', host'[p] # None
             PROVE  (Included(p) \/ \E n \in 1..Len(p) : Pending(SubSeq(p, 1, n)))'
  BY DEF ProgressInv
<1>1. LeftAlone(p)
  BY DEF LeftAlone, Alone
<1>2. Included(p) \/ \E n \in 1..Len(p) : Pending(SubSeq(p, 1, n))
  BY <1>1 DEF ProgressInv
<1>3. CASE Included(p)
  BY <1>3 DEF Included
<1>4. CASE \E n \in 1..Len(p) : Pending(SubSeq(p, 1, n))
  <2>1. PICK n \in 1..Len(p) : Pending(SubSeq(p, 1, n))
    BY <1>4
  <2>2. Pending(SubSeq(p, 1, n))'
    BY <2>1, PrefixPath
  <2> QED BY <2>2
<1> QED BY <1>2, <1>3, <1>4

\* The loop takes its next name: from pending in the frame to pending as the one visited.
LEMMA EntryKeeps ==
  ASSUME ScanInv, NextEntry, dir.todo # {}
  PROVE  ScanInv'
<1> DEFINE L == Len(stack)
<1>1. /\ HostInv /\ PcInv /\ StackInv /\ AtInv /\ FiInv /\ NodeInv /\ ProgressInv /\ ImageInv
  BY DEF ScanInv
<1>2. /\ pc = "loop" /\ pc' = "lstat" /\ at' = Append(dir.path, first)
      /\ stack' = [stack EXCEPT ![L].todo = @ \ {first}]
      /\ UNCHANGED <<host, seen, nodes, img, err>>
  BY DEF NextEntry, Scanning
<1>3. /\ L \in Nat \ {0} /\ dir \in Frames /\ dir.path \in Seq(Nat) /\ dir.todo \subseteq Nat
      /\ FrameInv(L) /\ stack \in Seq(Frames)
  BY <1>1, <1>2, DirIs DEF StackInv
<1>4. first \in dir.todo /\ first \in Nat
  BY <1>3, MinIn DEF first
<1>5. /\ at' \in Paths /\ Front(at') = dir.path /\ Last(at') = first
      /\ \A n \in nodes : n.path # at'
  BY <1>2, <1>3, <1>4, AppendIs DEF FrameInv, dir
<1>6. /\ stack' \in Seq(Frames) /\ Len(stack') = L
      /\ \A k \in 1..L : stack'[k].path = stack[k].path /\ stack'[k].todo \subseteq stack[k].todo
      /\ \A k \in 1..L : k # L => stack'[k] = stack[k]
      /\ stack'[L].todo = dir.todo \ {first}
  <2> DEFINE d == [dir EXCEPT !.todo = @ \ {first}]
  <2>1. d \in Frames /\ d.path = dir.path /\ d.todo = dir.todo \ {first}
    BY <1>3 DEF Frames
  <2>2. stack' = [stack EXCEPT ![L] = d]
    BY <1>2 DEF dir
  <2> HIDE DEF d
  <2>3. /\ stack' \in Seq(Frames) /\ Len(stack') = L
        /\ \A k \in 1..L : stack'[k] = IF k = L THEN d ELSE stack[k]
    BY <1>3, <2>1, <2>2, ExceptSeq
  <2> QED BY <1>3, <2>1, <2>3 DEF dir
<1>7. HostInv'
  BY <1>1, <1>2 DEF HostInv
<1>8. PcInv' /\ ImageInv' /\ FiInv'
  <2>1. stack # <<>> /\ stack' # <<>>
    BY <1>3, <1>6
  <2> QED BY <1>1, <1>2, <2>1 DEF PcInv, ImageInv, ImageIntact, FiInv
<1>9. StackInv'
  <2>1. ASSUME NEW k \in 1..L PROVE FrameInv(k)'
    <3>1. FrameInv(k)
      BY <1>1 DEF StackInv
    <3>2. stack'[k].path = stack[k].path /\ stack'[k].todo \subseteq stack[k].todo
      BY <1>6
    <3>3. nodes' = nodes
      BY <1>2
    <3> QED BY <3>1, <3>2, <3>3 DEF FrameInv
  <2> QED BY <1>6, <2>1 DEF StackInv
<1>10. AtInv'
  <2>1. dir'.path = dir.path /\ first \notin dir'.todo
    BY <1>3, <1>6 DEF dir
  <2> QED BY <1>2, <1>5, <2>1 DEF AtInv
<1>11. NodeInv'
  BY <1>1, <1>2 DEF NodeInv, NodesWitnessed, LeftAlone, Alone
<1>12. ASSUME NEW q \in Paths, Pending(q) PROVE Pending(q)'
  <2>1. PICK k \in 1..L : stack[k].path = Front(q) /\ Last(q) \in stack[k].todo
    BY <1>2, <1>12 DEF Pending, Visiting
  <2>2. CASE k = L /\ Last(q) = first
    <3>1. q \in Seq(Nat) /\ q # <<>>
      BY PathIs
    <3>2. q = Append(Front(q), Last(q))
      BY <3>1, FrontIs
    <3>3. q = at'
      BY <1>2, <2>1, <2>2, <3>2 DEF dir
    <3> QED BY <1>2, <3>3 DEF Pending, Visiting
  <2>3. CASE ~(k = L /\ Last(q) = first)
    <3>1. stack'[k].path = Front(q) /\ Last(q) \in stack'[k].todo
      BY <1>6, <2>1, <2>3 DEF dir
    <3> QED BY <1>6, <3>1 DEF Pending
  <2> QED BY <2>2, <2>3
<1>13. ProgressInv'
  BY <1>1, <1>2, <1>12, ProgressKept
<1> QED BY <1>7, <1>8, <1>9, <1>10, <1>11, <1>13 DEF ScanInv

\* A directory is finished: nothing was pending in its frame.
LEMMA PopKeeps ==
  ASSUME ScanInv, NextEntry, dir.todo = {}
  PROVE  ScanInv'
<1> DEFINE L == Len(stack)
<1>1. /\ HostInv /\ PcInv /\ StackInv /\ AtInv /\ FiInv /\ NodeInv /\ ProgressInv /\ ImageInv
  BY DEF ScanInv
<1>2. /\ pc = "loop" /\ pc' = IF L = 1 THEN "build" ELSE "loop"
      /\ stack' = Front(stack)
      /\ UNCHANGED <<host, seen, nodes, img, err>>
  BY DEF NextEntry, Scanning
<1>3. L \in Nat \ {0} /\ stack \in Seq(Frames)
  BY <1>1, <1>2, DirIs DEF StackInv
<1>4. /\ stack' \in Seq(Frames) /\ Len(stack') = L - 1
      /\ \A k \in 1..(L - 1) : stack'[k] = stack[k]
  <2>1. stack # <<>>
    BY <1>3
  <2> QED BY <1>2, <1>3, <2>1, FrontOf
<1>5. stack' = <<>> <=> L = 1
  BY <1>3, <1>4, EmptySeq
<1>6. HostInv'
  BY <1>1, <1>2 DEF HostInv
<1>7. PcInv' /\ ImageInv' /\ FiInv' /\ AtInv'
  BY <1>1, <1>2, <1>5 DEF PcInv, ImageInv, ImageIntact, FiInv, AtInv, Visiting
<1>8. StackInv'
  <2>1. ASSUME NEW k \in 1..(L - 1) PROVE FrameInv(k)'
    <3>1. FrameInv(k)
      BY <1>1, <1>3 DEF StackInv
    <3>2. stack'[k] = stack[k] /\ nodes' = nodes
      BY <1>2, <1>4
    <3> QED BY <3>1, <3>2 DEF FrameInv
  <2> QED BY <1>4, <2>1 DEF StackInv
<1>9. NodeInv'
  BY <1>1, <1>2 DEF NodeInv, NodesWitnessed, LeftAlone, Alone
<1>10. ASSUME NEW q \in Paths, Pending(q) PROVE Pending(q)'
  <2>1. PICK k \in 1..L : stack[k].path = Front(q) /\ Last(q) \in stack[k].todo
    BY <1>2, <1>10 DEF Pending, Visiting
  <2>2. k # L
    BY <2>1 DEF dir
  <2>3. k \in 1..Len(stack') /\ stack'[k] = stack[k]
    BY <1>3, <1>4, <2>2
  <2> QED BY <2>1, <2>3 DEF Pending
<1>11. ProgressInv'
  BY <1>1, <1>2, <1>10, ProgressKept
<1> QED BY <1>6, <1>7, <1>8, <1>9, <1>11 DEF ScanInv

\* Above what was left alone, what Lstat finds is there.
LEMMA FoundIs ==
  ASSUME HostInv, PcInv, StackInv, AtInv, NodeInv, Visiting, NEW e \in Found(at)
  PROVE  /\ e \in Entries /\ Witnessed(at, e.kind)
         /\ LeftAlone(at) => e = host[at]
<1>1. at \in Paths /\ Len(at) \in Nat \ {0}
  BY PathIs DEF AtInv
<1>2. host[at] \in Entries /\ host[at] \in seen[at]
  BY <1>1, HostIs
<1>3. LeftAlone(at) => e = host[at]
  BY LookupFinds DEF Found
<1>4. CASE Follows(at, Len(at) - 1)
  <2>1. PICK k \in 1..(Len(at) - 1) : host[SubSeq(at, 1, k)].kind = "link"
    BY <1>4 DEF Follows
  <2>2. k \in 1..Len(at)
    BY <1>1
  <2>3. host[SubSeq(at, 1, k)] \in seen[SubSeq(at, 1, k)]
    BY <1>1, <2>2, PrefixPath, HostIs
  <2> QED BY <1>3, <1>4, <2>1, <2>3 DEF Found, Witnessed
<1>5. CASE ~Follows(at, Len(at) - 1)
  BY <1>2, <1>3, <1>5 DEF Found, Witnessed
<1> QED BY <1>4, <1>5

\* A path that goes on below the entry at hand goes through a directory.
LEMMA ThroughDir ==
  ASSUME HostInv, NEW p \in Paths, host[p] # None, NEW n \in 1..Len(p), p # SubSeq(p, 1, n)
  PROVE  n \in 1..(Len(p) - 1) /\ host[SubSeq(p, 1, n)] = Dir
<1>1. Len(p) \in Nat /\ SubSeq(p, 1, Len(p)) = p
  BY PathIs
<1>2. n \in 1..(Len(p) - 1)
  <2>1. n # Len(p)
    BY <1>1
  <2>2. Len(p) \in Nat
    BY <1>1
  <2> QED BY <2>1, <2>2
<1> QED BY <1>2, DirsAbove DEF HostInv

\* os.Lstat: a vanished entry ends the build, a special one is left out, any other goes on
\* to its content.
LEMMA LstatKeeps ==
  ASSUME ScanInv, Lstat
  PROVE  ScanInv'
<1>1. /\ HostInv /\ PcInv /\ StackInv /\ AtInv /\ FiInv /\ NodeInv /\ ProgressInv /\ ImageInv
  BY DEF ScanInv
<1>2. pc = "lstat" /\ Visiting
  BY DEF Lstat, Visiting
<1>3. PICK e \in Found(at) :
        \/ fail
        \/ /\ e.kind = "special" /\ pc' = "loop" /\ stack' = stack
           /\ UNCHANGED <<host, seen, img, err, at, fi, nodes>>
        \/ /\ e.kind \notin {"none", "special"} /\ pc' = "content" /\ fi' = e.kind
           /\ UNCHANGED <<host, seen, img, err, stack, at, nodes>>
  BY DEF Lstat, Lstated, Skips, skipped, Scanning
<1>4. /\ e \in Entries /\ Witnessed(at, e.kind)
      /\ LeftAlone(at) => e = host[at]
  BY <1>1, <1>2, FoundIs
<1>5. CASE fail
  BY <1>2, <1>5, FailKeeps
<1>6. CASE /\ e.kind = "special" /\ pc' = "loop" /\ stack' = stack
           /\ UNCHANGED <<host, seen, img, err, at, fi, nodes>>
  <2>1. HostInv'
    BY <1>1, <1>6 DEF HostInv
  <2>2. PcInv' /\ ImageInv' /\ FiInv' /\ AtInv'
    BY <1>1, <1>2, <1>6 DEF PcInv, ImageInv, ImageIntact, FiInv, AtInv, Visiting
  <2>3. StackInv'
    BY <1>1, <1>6 DEF StackInv, FrameInv
  <2>4. NodeInv'
    BY <1>1, <1>6 DEF NodeInv, NodesWitnessed, LeftAlone, Alone
  <2>5. ProgressInv'
    <3> SUFFICES ASSUME NEW p \in Paths, LeftAlone(p), host[p] # None
                 PROVE  (Included(p) \/ \E n \in 1..Len(p) : Pending(SubSeq(p, 1, n)))'
      BY <1>6 DEF ProgressInv, LeftAlone, Alone
    <3>1. Included(p) \/ \E n \in 1..Len(p) : Pending(SubSeq(p, 1, n))
      BY <1>1, <1>2 DEF ProgressInv
    <3>2. CASE Included(p)
      BY <1>6, <3>2 DEF Included
    <3>3. ASSUME NEW n \in 1..Len(p), Pending(SubSeq(p, 1, n))
          PROVE  Included(p)' \/ Pending(SubSeq(p, 1, n))'
      <4>1. CASE SubSeq(p, 1, n) # at
        BY <1>6, <3>3, <4>1 DEF Pending
      <4>2. CASE SubSeq(p, 1, n) = at
        <5>1. host[at] = Special
          BY <1>4, <1>6, <4>2, LeftPrefix, KindIs
        <5>2. p = SubSeq(p, 1, n)
          <6>1. Special # Dir
            BY DEF Special, Dir, E
          <6> QED BY <1>1, <4>2, <5>1, <6>1, ThroughDir, Zenon
        <5>3. host[p] = Special
          BY <4>2, <5>1, <5>2, Zenon
        <5>4. host'[p] = Special
          BY <1>6, <5>3
        <5>5. Included(p)'
          BY <5>4 DEF Included
        <5> QED BY <5>5
      <4> QED BY <4>1, <4>2
    <3> QED BY <3>1, <3>2, <3>3
  <2> QED BY <2>1, <2>2, <2>3, <2>4, <2>5 DEF ScanInv
<1>7. CASE /\ e.kind \notin {"none", "special"} /\ pc' = "content" /\ fi' = e.kind
           /\ UNCHANGED <<host, seen, img, err, stack, at, nodes>>
  <2>1. HostInv'
    BY <1>1, <1>7 DEF HostInv
  <2>2. PcInv' /\ ImageInv' /\ AtInv'
    BY <1>1, <1>2, <1>7 DEF PcInv, ImageInv, ImageIntact, AtInv, Visiting, dir
  <2>3. StackInv'
    BY <1>1, <1>7 DEF StackInv, FrameInv
  <2>4. NodeInv'
    BY <1>1, <1>7 DEF NodeInv, NodesWitnessed, LeftAlone, Alone
  <2>5. FiInv'
    <3>1. e.kind \in {"dir", "link", "file"}
      BY <1>4, <1>7, KindIs
    <3> QED BY <1>4, <1>7, <3>1 DEF FiInv, Witnessed, LeftAlone, Alone
  <2>6. ProgressInv'
    <3>1. \A q \in Paths : Pending(q) => Pending(q)'
      BY <1>2, <1>7 DEF Pending, Visiting
    <3> QED BY <1>1, <1>2, <1>7, <3>1, ProgressKept
  <2> QED BY <2>1, <2>2, <2>3, <2>4, <2>5, <2>6 DEF ScanInv
<1> QED BY <1>3, <1>5, <1>6, <1>7

\* The node of the entry at hand, once what it is has been read.
LEMMA AddKeeps ==
  ASSUME ScanInv, pc = "content", NEW e \in Entries, e.kind = fi,
         LeftAlone(at) => e = host[at], add(e)
  PROVE  /\ HostInv' /\ NodeInv' /\ [path |-> at, entry |-> e] \in nodes'
         /\ (pc # "done" => err = "nil")' /\ (pc # "done" => img = "old")'
         /\ \A k \in 1..Len(stack) :
              /\ Len(stack[k].path) = k - 1
              /\ k > 1 => [path |-> stack[k].path, entry |-> Dir] \in nodes'
              /\ \A x \in stack[k].todo : /\ Append(stack[k].path, x) \in Paths
                                          /\ \A n \in nodes' : n.path # Append(stack[k].path, x)
<1> DEFINE new == [path |-> at, entry |-> e]
           L == Len(stack)
<1>1. /\ HostInv /\ PcInv /\ StackInv /\ AtInv /\ FiInv /\ NodeInv /\ ProgressInv /\ ImageInv
  BY DEF ScanInv
<1>2. /\ nodes' = nodes \cup {new} /\ pc' = "loop"
      /\ UNCHANGED <<host, seen, img, err, at, fi>>
  BY DEF add, Scanning
<1>3. /\ at \in Paths /\ Front(at) = dir.path /\ Last(at) \notin dir.todo
      /\ \A n \in nodes : n.path # at
  BY <1>1 DEF AtInv, Visiting
<1>4. at \in Seq(Nat) /\ at # <<>> /\ Len(at) \in Nat \ {0} /\ Len(Front(at)) = Len(at) - 1
  BY <1>3, PathIs, FrontIs
<1>5. L \in Nat \ {0} /\ Len(at) = L /\ FrameInv(L) /\ dir.path \in Seq(Nat) /\ stack \in Seq(Frames)
  BY <1>1, <1>3, <1>4, DirIs DEF StackInv
<1>6. new \in Nodes /\ new.path = at /\ new.entry = e
  BY <1>3 DEF Nodes
<1>7. nodes \subseteq Nodes /\ NodesWitnessed /\ \A n \in nodes : n.path \in Paths
  BY <1>1 DEF NodeInv, Nodes
<1>8. /\ fi \in {"dir", "link", "file"} /\ Witnessed(at, fi)
  BY <1>1 DEF FiInv
<1>9. NodesWitnessed'
  <2> SUFFICES ASSUME NEW n \in nodes'
               PROVE  /\ Witnessed(n.path, n.entry.kind)
                      /\ \A m \in nodes' : m.path = n.path => m = n
                      /\ Len(n.path) > 1 => [path |-> Front(n.path), entry |-> Dir] \in nodes'
    BY <1>2 DEF NodesWitnessed, Witnessed
  <2>1. CASE n \in nodes
    <3>1. /\ Witnessed(n.path, n.entry.kind)
          /\ \A m \in nodes : m.path = n.path => m = n
          /\ Len(n.path) > 1 => [path |-> Front(n.path), entry |-> Dir] \in nodes
      BY <1>7, <2>1 DEF NodesWitnessed, Witnessed
    <3> QED BY <1>2, <1>3, <1>6, <2>1, <3>1
  <2>2. CASE n = new
    <3>1. n.path = at /\ n.entry.kind = fi
      BY <1>6, <2>2
    <3>2. ASSUME Len(at) > 1 PROVE [path |-> Front(at), entry |-> Dir] \in nodes
      BY <1>3, <1>5, <3>2 DEF FrameInv, dir
    <3>3. \A m \in nodes' : m.path = n.path => m = n
      BY <1>2, <1>3, <2>2, <3>1
    <3> QED BY <1>2, <1>8, <3>1, <3>2, <3>3
  <2> QED BY <1>2, <2>1, <2>2
<1>10. NodeInv'
  <2>1. e \notin {None, Special}
    BY <1>8, KindIs
  <2>2. \A n \in nodes : n.entry \notin {None, Special} /\ (LeftAlone(n.path) => n.entry = host[n.path])
    BY <1>1 DEF NodeInv
  <2>3. \A n \in nodes' : n.entry \notin {None, Special} /\ (LeftAlone(n.path) => n.entry = host[n.path])
    BY <1>2, <1>6, <2>1, <2>2
  <2>4. nodes' \subseteq Nodes
    BY <1>2, <1>6, <1>7
  <2> QED BY <1>2, <1>9, <2>3, <2>4 DEF NodeInv, LeftAlone, Alone
<1>11. ASSUME NEW k \in 1..L
       PROVE  /\ Len(stack[k].path) = k - 1
              /\ k > 1 => [path |-> stack[k].path, entry |-> Dir] \in nodes'
              /\ \A x \in stack[k].todo : /\ Append(stack[k].path, x) \in Paths
                                          /\ \A n \in nodes' : n.path # Append(stack[k].path, x)
  <2>1. FrameInv(k) /\ stack[k] \in Frames
    BY <1>1, <1>5, ElementOfSeq DEF StackInv
  <2>2. stack[k].path \in Seq(Nat) /\ stack[k].todo \subseteq Nat
    BY <2>1 DEF Frames
  <2>3. ASSUME NEW x \in stack[k].todo PROVE at # Append(stack[k].path, x)
    <3>1. /\ Len(Append(stack[k].path, x)) = Len(stack[k].path) + 1
          /\ Last(Append(stack[k].path, x)) = x
      BY <2>2, AppendIs
    <3>2. CASE k = L
      BY <1>3, <3>1, <3>2 DEF dir
    <3>3. CASE k # L
      <4>1. Len(stack[k].path) = k - 1
        BY <2>1 DEF FrameInv
      <4>2. Len(Append(stack[k].path, x)) # L
        BY <1>5, <3>1, <3>3, <4>1
      <4> QED BY <1>5, <4>2
    <3> QED BY <3>2, <3>3
  <2> QED BY <1>2, <1>6, <2>1, <2>3 DEF FrameInv
<1>12. HostInv'
  BY <1>1, <1>2 DEF HostInv
<1>13. err = "nil" /\ img = "old"
  BY <1>1 DEF ImageInv, ImageIntact
<1> QED BY <1>2, <1>10, <1>11, <1>12, <1>13

\* Neither a file nor a symlink has anything below it.
LEMMA LeafKeeps ==
  ASSUME ScanInv, pc = "content", NEW e \in Entries, e.kind = fi, fi # "dir",
         LeftAlone(at) => e = host[at], add(e), stack' = stack
  PROVE  ScanInv'
<1>1. /\ HostInv /\ PcInv /\ StackInv /\ AtInv /\ FiInv /\ NodeInv /\ ProgressInv /\ ImageInv
  BY DEF ScanInv
<1>2. /\ HostInv' /\ NodeInv' /\ [path |-> at, entry |-> e] \in nodes'
      /\ (pc # "done" => err = "nil")' /\ (pc # "done" => img = "old")'
      /\ \A k \in 1..Len(stack) :
           /\ Len(stack[k].path) = k - 1
           /\ k > 1 => [path |-> stack[k].path, entry |-> Dir] \in nodes'
           /\ \A x \in stack[k].todo : /\ Append(stack[k].path, x) \in Paths
                                       /\ \A n \in nodes' : n.path # Append(stack[k].path, x)
  BY AddKeeps
<1>3. /\ pc' = "loop" /\ UNCHANGED <<host, seen>> /\ nodes \subseteq nodes'
  BY DEF add, Scanning
<1>4. PcInv' /\ AtInv' /\ FiInv'
  BY <1>1, <1>3 DEF PcInv, AtInv, FiInv, Visiting
<1>5. ImageInv'
  BY <1>2, <1>3 DEF ImageInv, ImageIntact
<1>6. StackInv'
  BY <1>1, <1>2 DEF StackInv, FrameInv
<1>7. ProgressInv'
  <2> SUFFICES ASSUME NEW p \in Paths, LeftAlone(p), host[p] # None
               PROVE  (Included(p) \/ \E n \in 1..Len(p) : Pending(SubSeq(p, 1, n)))'
    BY <1>3 DEF ProgressInv, LeftAlone, Alone
  <2>1. Included(p) \/ \E n \in 1..Len(p) : Pending(SubSeq(p, 1, n))
    BY <1>1 DEF ProgressInv
  <2>2. CASE Included(p)
    BY <1>3, <2>2 DEF Included
  <2>3. ASSUME NEW n \in 1..Len(p), Pending(SubSeq(p, 1, n))
        PROVE  Included(p)' \/ Pending(SubSeq(p, 1, n))'
    <3>1. CASE SubSeq(p, 1, n) # at
      BY <2>3, <3>1 DEF Pending
    <3>2. CASE SubSeq(p, 1, n) = at
      <4>1. e = host[at]
        BY <3>2, LeftPrefix
      <4>2. host[at] # Dir
        BY <4>1, KindIs
      <4>3. p = SubSeq(p, 1, n)
        BY <1>1, <3>2, <4>2, ThroughDir, Zenon
      <4>4. [path |-> p, entry |-> host[p]] \in nodes'
        BY <1>2, <3>2, <4>1, <4>3, Zenon
      <4>5. Included(p)'
        BY <1>3, <4>4 DEF Included
      <4> QED BY <4>5
    <3> QED BY <3>1, <3>2
  <2> QED BY <2>1, <2>2, <2>3
<1> QED BY <1>2, <1>4, <1>5, <1>6, <1>7 DEF ScanInv

\* What open finds where nobody interferes.
LEMMA OpenedIs ==
  ASSUME HostInv, PcInv, StackInv, AtInv, NodeInv, Visiting, NEW e \in Opened(at)
  PROVE  /\ e \in Entries
         /\ (LeftAlone(at) /\ host[at].kind # "link") => e = host[at]
<1>1. at \in Paths
  BY DEF AtInv
<1>2. host[at] \in Entries
  BY <1>1, HostIs
<1>3. (LeftAlone(at) /\ host[at].kind # "link") => ~Follows(at, Len(at))
  BY LookupFinds
<1> QED BY <1>2, <1>3 DEF Opened

\* os.Readlink: the symlink gets its node.
LEMMA ReadlinkKeeps ==
  ASSUME ScanInv, Readlink
  PROVE  ScanInv'
<1>1. /\ HostInv /\ PcInv /\ StackInv /\ AtInv /\ NodeInv
  BY DEF ScanInv
<1>2. PICK e \in Found(at) : IF e.kind # "link" THEN fail ELSE add(e) /\ UNCHANGED stack
  BY DEF Readlink
<1>3. pc = "content" /\ fi = "link"
  BY DEF Readlink
<1>4. e \in Entries /\ (LeftAlone(at) => e = host[at])
  BY <1>1, <1>3, FoundIs DEF Visiting
<1>5. CASE e.kind # "link"
  BY <1>2, <1>3, <1>5, FailKeeps
<1>6. CASE e.kind = "link"
  BY <1>2, <1>3, <1>4, <1>6, LeafKeeps
<1> QED BY <1>5, <1>6

\* os.ReadFile: the file gets its node.
LEMMA ReadFileKeeps ==
  ASSUME ScanInv, ReadFile
  PROVE  ScanInv'
<1>1. /\ HostInv /\ PcInv /\ StackInv /\ AtInv /\ FiInv /\ NodeInv
  BY DEF ScanInv
<1>2. pc = "content" /\ fi = "file"
  BY DEF ReadFile
<1>3. PICK e \in Opened(at) :
        \/ e.kind = "file" /\ add(e) /\ UNCHANGED stack
        \/ e.kind = "special" /\ \E v \in Data : add(E("file", v)) /\ UNCHANGED stack
        \/ fail
  BY DEF ReadFile
<1>4. LeftAlone(at) => host[at].kind = "file"
  BY <1>1, <1>2 DEF FiInv
<1>5. e \in Entries /\ (LeftAlone(at) => e = host[at])
  BY <1>1, <1>2, <1>4, OpenedIs DEF Visiting
<1>6. CASE e.kind = "file" /\ add(e) /\ UNCHANGED stack
  BY <1>2, <1>5, <1>6, LeafKeeps
<1>7. CASE e.kind = "special" /\ \E v \in Data : add(E("file", v)) /\ UNCHANGED stack
  <2>1. PICK v \in Data : add(E("file", v)) /\ UNCHANGED stack
    BY <1>7
  <2>2. ~LeftAlone(at)
    BY <1>4, <1>5, <1>7
  <2>3. E("file", v) \in Entries /\ E("file", v).kind = "file"
    BY DEF Entries, E
  <2> QED BY <1>2, <2>1, <2>2, <2>3, LeafKeeps
<1>8. CASE fail
  BY <1>2, <1>8, FailKeeps
<1> QED BY <1>3, <1>6, <1>7, <1>8

\* os.ReadDir below the root: the directory gets its node, and its names a frame.
LEMMA ReadDirKeeps ==
  ASSUME ScanInv, ReadDir
  PROVE  ScanInv'
<1> DEFINE L == Len(stack)
<1>1. /\ HostInv /\ PcInv /\ StackInv /\ AtInv /\ FiInv /\ NodeInv /\ ProgressInv /\ ImageInv
  BY DEF ScanInv
<1>2. pc = "content" /\ fi = "dir" /\ Visiting
  BY DEF ReadDir, Visiting
<1>3. PICK e \in Opened(at), names \in Names(at) :
        IF e.kind # "dir" THEN fail
        ELSE add(Dir) /\ stack' = Append(stack, [path |-> at, todo |-> names])
  BY DEF ReadDir
<1>4. CASE e.kind # "dir"
  BY <1>2, <1>3, <1>4, FailKeeps
<1>5. CASE e.kind = "dir"
  <2> DEFINE f == [path |-> at, todo |-> names]
  <2>1. add(Dir) /\ stack' = Append(stack, f)
    BY <1>3, <1>5
  <2>2. Dir \in Entries /\ Dir.kind = "dir"
    BY DEF Entries, Dir, E
  <2>3. LeftAlone(at) => host[at].kind = "dir" /\ host[at] = Dir
    BY <1>1, <1>2, HostIs, KindIs DEF FiInv, AtInv
  <2>4. /\ HostInv' /\ NodeInv' /\ [path |-> at, entry |-> Dir] \in nodes'
        /\ (pc # "done" => err = "nil")' /\ (pc # "done" => img = "old")'
        /\ \A k \in 1..Len(stack) :
             /\ Len(stack[k].path) = k - 1
             /\ k > 1 => [path |-> stack[k].path, entry |-> Dir] \in nodes'
             /\ \A x \in stack[k].todo : /\ Append(stack[k].path, x) \in Paths
                                         /\ \A n \in nodes' : n.path # Append(stack[k].path, x)
    BY <1>2, <2>1, <2>2, <2>3, AddKeeps
  <2>5. /\ pc' = "loop" /\ UNCHANGED <<host, seen>>
        /\ nodes' = nodes \cup {[path |-> at, entry |-> Dir]}
    BY <2>1 DEF add, Scanning
  <2>6. /\ at \in Paths /\ at \in Seq(Nat) /\ at # <<>> /\ Front(at) = dir.path
        /\ Len(Front(at)) = Len(at) - 1 /\ Len(at) \in Nat \ {0}
        /\ \A n \in nodes : n.path # at
    BY <1>1, <1>2, PathIs, FrontIs DEF AtInv
  <2>7. L \in Nat \ {0} /\ Len(at) = L /\ stack \in Seq(Frames)
    BY <1>1, <1>2, <2>6, DirIs DEF StackInv
  <2>8. names \subseteq Nat /\ \A x \in names : Append(at, x) \in Paths
    BY <2>6, NamesBelow, BelowIs
  <2>9. f \in Frames /\ f.path = at /\ f.todo = names
    BY <2>6, <2>8 DEF Frames
  <2> HIDE DEF f
  <2>10. /\ stack' \in Seq(Frames) /\ Len(stack') = L + 1 /\ stack' # <<>>
         /\ stack'[L + 1] = f /\ \A k \in 1..L : stack'[k] = stack[k]
    BY <2>1, <2>7, <2>9, AppendProperties
  <2>11. PcInv' /\ AtInv' /\ FiInv' /\ ImageInv'
    BY <1>1, <2>4, <2>5, <2>10 DEF PcInv, AtInv, FiInv, Visiting, ImageInv, ImageIntact
  <2>12. ASSUME NEW x \in names, NEW n \in nodes' PROVE n.path # Append(at, x)
    <3>1. Len(Append(at, x)) = Len(at) + 1 /\ Front(Append(at, x)) = at
      BY <2>6, <2>8, AppendIs
    <3>2. CASE n \in nodes
      <4> SUFFICES ASSUME n.path = Append(at, x) PROVE FALSE
        OBVIOUS
      <4>1. Len(n.path) > 1 /\ Front(n.path) = at
        BY <2>6, <3>1
      <4>2. [path |-> at, entry |-> Dir] \in nodes
        BY <1>1, <3>2, <4>1 DEF NodeInv, NodesWitnessed
      <4> QED BY <2>6, <4>2
    <3>3. CASE n = [path |-> at, entry |-> Dir]
      BY <2>6, <3>1, <3>3
    <3> QED BY <2>5, <3>2, <3>3
  <2>13. StackInv'
    <3>1. ASSUME NEW k \in 1..L PROVE FrameInv(k)'
      BY <2>4, <2>10 DEF FrameInv
    <3>0. PICK M \in Nat : M = L + 1
      BY <2>7
    <3>2. FrameInv(M)'
      <4>1. stack'[M].path = at /\ stack'[M].todo = names /\ Len(at) = M - 1
        BY <2>7, <2>9, <2>10, <3>0
      <4> QED BY <2>4, <2>8, <2>12, <4>1 DEF FrameInv
    <3>3. Len(stack') = M /\ \A k \in 1..M : k \in 1..L \/ k = M
      BY <2>7, <2>10, <3>0
    <3> QED BY <2>10, <3>1, <3>2, <3>3 DEF StackInv
  <2>14. ProgressInv'
    <3> SUFFICES ASSUME NEW p \in Paths, LeftAlone(p), host[p] # None
                 PROVE  (Included(p) \/ \E n \in 1..Len(p) : Pending(SubSeq(p, 1, n)))'
      BY <2>5 DEF ProgressInv, LeftAlone, Alone
    <3>1. Included(p) \/ \E n \in 1..Len(p) : Pending(SubSeq(p, 1, n))
      BY <1>1, <1>2 DEF ProgressInv
    <3>2. CASE Included(p)
      BY <2>5, <3>2 DEF Included
    <3>3. ASSUME NEW n \in 1..Len(p), Pending(SubSeq(p, 1, n)), SubSeq(p, 1, n) # at
          PROVE  Pending(SubSeq(p, 1, n))'
      <4>1. PICK k \in 1..L : stack[k].path = Front(SubSeq(p, 1, n)) /\ Last(SubSeq(p, 1, n)) \in stack[k].todo
        BY <3>3 DEF Pending
      <4>2. k \in 1..Len(stack') /\ stack'[k] = stack[k]
        BY <2>7, <2>10
      <4> QED BY <4>1, <4>2 DEF Pending
    <3>4. ASSUME NEW n \in 1..Len(p), SubSeq(p, 1, n) = at, p # at
          PROVE  \E m \in 1..Len(p) : Pending(SubSeq(p, 1, m))'
      <4> DEFINE q == SubSeq(p, 1, n + 1)
      <4>1. p \in Seq(Nat) /\ Len(p) \in Nat /\ n \in 1..(Len(p) - 1)
        BY <1>1, <3>4, PathIs, ThroughDir
      <4>2. n + 1 \in 1..Len(p) /\ (n + 1) - 1 = n
        BY <4>1
      <4>3. q \in Paths /\ Front(q) = at
        BY <3>4, <4>1, <4>2, PrefixPath, PrefixFront
      <4>4. host[q] # None
        <5>1. CASE p = q
          BY <5>1
        <5>2. CASE p # q
          <6>1. host[q] = Dir
            BY <1>1, <4>2, <5>2, ThroughDir
          <6> QED BY <6>1 DEF Dir, None, E
        <5> QED BY <5>1, <5>2
      <4> HIDE DEF q
      <4>5. ~Follows(at, Len(at))
        <5>1. LeftAlone(at)
          BY <3>4, LeftPrefix
        <5> QED BY <1>1, <1>2, <2>3, <5>1, LookupFinds
      <4>6. Last(q) \in names
        BY <2>6, <4>3, <4>4, <4>5, NamesAre
      <4>7. stack'[L + 1].path = Front(q) /\ Last(q) \in stack'[L + 1].todo /\ L + 1 \in 1..Len(stack')
        BY <2>7, <2>9, <2>10, <4>3, <4>6
      <4>8. Pending(q)'
        BY <4>7 DEF Pending
      <4> QED BY <4>2, <4>8 DEF q
    <3>5. ASSUME p = at PROVE Included(p)'
      <4>1. host[p] = Dir
        BY <2>3, <3>5
      <4> QED BY <2>4, <2>5, <3>5, <4>1 DEF Included
    <3> QED BY <3>1, <3>2, <3>3, <3>4, <3>5
  <2> QED BY <2>4, <2>11, <2>13, <2>14 DEF ScanInv
<1> QED BY <1>4, <1>5

\* buildImage leaves the tree and the image file alone.
LEMMA BuildKeeps ==
  ASSUME ScanInv, BuildImage
  PROVE  ScanInv'
<1>1. /\ HostInv /\ PcInv /\ StackInv /\ AtInv /\ FiInv /\ NodeInv /\ ProgressInv /\ ImageInv
  BY DEF ScanInv
<1>2. CASE fail
  BY <1>2, FailKeeps DEF BuildImage
<1>3. CASE ~fail
  <2>1. pc = "build" /\ pc' = "write" /\ UNCHANGED <<host, seen, img, err, stack, nodes>>
    BY <1>3 DEF BuildImage, Scanning
  <2>2. HostInv'
    BY <1>1, <2>1 DEF HostInv
  <2>3. PcInv' /\ ImageInv' /\ FiInv' /\ AtInv'
    BY <1>1, <2>1 DEF PcInv, ImageInv, ImageIntact, FiInv, AtInv, Visiting
  <2>4. StackInv'
    BY <1>1, <2>1 DEF StackInv, FrameInv
  <2>5. NodeInv'
    BY <1>1, <2>1 DEF NodeInv, NodesWitnessed, LeftAlone, Alone
  <2>6. \A q \in Paths : Pending(q) => Pending(q)'
    BY <2>1 DEF Pending, Visiting
  <2>7. ProgressInv'
    BY <1>1, <2>1, <2>6, ProgressKept
  <2> QED BY <2>2, <2>3, <2>4, <2>5, <2>7 DEF ScanInv
<1> QED BY <1>2, <1>3

\* os.WriteFile is the one call that touches the image file.
LEMMA WriteKeeps ==
  ASSUME ScanInv, WriteFile
  PROVE  ScanInv'
<1>1. /\ HostInv /\ PcInv /\ StackInv /\ AtInv /\ FiInv /\ NodeInv /\ ProgressInv /\ ImageInv
  BY DEF ScanInv
<1>2. /\ pc = "write" /\ pc' = "done" /\ UNCHANGED <<host, seen, stack, nodes>>
      /\ \/ img' = "new" /\ UNCHANGED err
         \/ img' \in {"old", "partial"} /\ err' = "error"
  BY DEF WriteFile
<1>3. HostInv'
  BY <1>1, <1>2 DEF HostInv
<1>4. PcInv' /\ ImageInv' /\ FiInv' /\ AtInv' /\ ProgressInv'
  BY <1>1, <1>2 DEF PcInv, ImageInv, ImageIntact, FiInv, AtInv, Visiting, ProgressInv
<1>5. StackInv'
  BY <1>1, <1>2 DEF StackInv, FrameInv
<1>6. NodeInv'
  BY <1>1, <1>2 DEF NodeInv, NodesWitnessed, LeftAlone, Alone
<1> QED BY <1>3, <1>4, <1>5, <1>6 DEF ScanInv

\* A step that changes nothing.
LEMMA StutterKeeps ==
  ASSUME ScanInv, UNCHANGED vars
  PROVE  ScanInv'
<1>1. /\ HostInv /\ PcInv /\ StackInv /\ AtInv /\ FiInv /\ NodeInv /\ ProgressInv /\ ImageInv
  BY DEF ScanInv
<1>2. UNCHANGED <<host, seen, stack, at, fi, nodes, pc, img, err>>
  BY DEF vars
<1>3. HostInv'
  BY <1>1, <1>2 DEF HostInv
<1>4. PcInv' /\ ImageInv' /\ AtInv'
  BY <1>1, <1>2 DEF PcInv, ImageInv, ImageIntact, AtInv, Visiting, dir
<1>5. StackInv' /\ FiInv'
  BY <1>1, <1>2 DEF StackInv, FrameInv, FiInv, Witnessed, LeftAlone, Alone
<1>6. NodeInv'
  BY <1>1, <1>2 DEF NodeInv, NodesWitnessed, LeftAlone, Alone
<1>7. ProgressInv'
  BY <1>1, <1>2 DEF ProgressInv, Included, Pending, Visiting, LeftAlone, Alone
<1> QED BY <1>3, <1>4, <1>5, <1>6, <1>7 DEF ScanInv

\* Before BuildFromDir starts there is nothing to keep.
LEMMA InitScan == Init => ScanInv
<1> SUFFICES ASSUME Init PROVE ScanInv
  OBVIOUS
<1>1. HostInv
  BY DEF Init, HostInv, Host
<1>2. PcInv /\ AtInv /\ FiInv /\ ProgressInv /\ ImageInv
  BY DEF Init, PcInv, AtInv, FiInv, ProgressInv, ImageInv, ImageIntact, Visiting
<1>3. StackInv
  BY EmptyIsSeq DEF Init, StackInv
<1>4. NodeInv
  BY DEF Init, NodeInv, NodesWitnessed
<1> QED BY <1>1, <1>2, <1>3, <1>4 DEF ScanInv

\* Every step, of BuildFromDir and of the other process, keeps the inductive invariant.
LEMMA NextScan == ScanInv /\ [Next]_vars => ScanInv'
<1> SUFFICES ASSUME ScanInv, [Next]_vars PROVE ScanInv'
  OBVIOUS
<1>1. CASE ScanDir
  BY <1>1, ScanDirKeeps
<1>2. CASE NextEntry
  BY <1>2, EntryKeeps, PopKeeps
<1>3. CASE Lstat
  BY <1>3, LstatKeeps
<1>4. CASE ReadDir
  BY <1>4, ReadDirKeeps
<1>5. CASE Readlink
  BY <1>5, ReadlinkKeeps
<1>6. CASE ReadFile
  BY <1>6, ReadFileKeeps
<1>7. CASE CallFails
  BY <1>7, FailKeeps DEF CallFails
<1>8. CASE BuildImage
  BY <1>8, BuildKeeps
<1>9. CASE WriteFile
  BY <1>9, WriteKeeps
<1>10. CASE UNCHANGED vars
  BY <1>10, StutterKeeps
<1>11. CASE \E p \in Paths, e \in Entries : Edit(p, e)
  BY <1>11, EditKeeps
<1> QED BY <1>1, <1>2, <1>3, <1>4, <1>5, <1>6, <1>7, <1>8, <1>9, <1>10, <1>11 DEF Next, Returned

-----------------------------------------------------------------------------
\* Whatever another process does, and whichever call fails, every step of BuildFromDir
\* keeps track of what it has read and of what it has still to read.
THEOREM ScanInvariance == Spec => []ScanInv
BY InitScan, NextScan, PTL DEF Spec

\* scanEntry makes nothing up: one node per path, below a directory that has a node,
\* of a kind that was there.
THEOREM NodesAreWitnessed == Spec => []NodesWitnessed
<1>1. ScanInv => NodesWitnessed
  BY DEF ScanInv, NodeInv
<1> QED BY <1>1, ScanInvariance, PTL

\* BuildFromDir touches the image file only once it has read the whole tree, and says
\* so when it could not write it.
THEOREM ImageStaysIntact == Spec => []ImageIntact
<1>1. ScanInv => ImageIntact
  BY DEF ScanInv, ImageInv
<1> QED BY <1>1, ScanInvariance, PTL

\* What nobody touched during the scan is in the tree that BuildFromDir goes on to
\* write, exactly as it is.
THEOREM UndisturbedAreIncluded == Spec => []UndisturbedIncluded
<1>1. ASSUME ScanInv PROVE UndisturbedIncluded
  <2>1. /\ HostInv /\ PcInv /\ StackInv /\ NodeInv /\ ProgressInv
    BY <1>1 DEF ScanInv
  <2> SUFFICES ASSUME pc \in {"build", "write"}, NEW p \in Paths, Undisturbed(p)
               PROVE  {n.entry : n \in {n \in nodes : n.path = p}} =
                        IF host[p] \in {None, Special} THEN {} ELSE {host[p]}
    BY DEF UndisturbedIncluded
  <2>2. LeftAlone(p)
    <3>1. ASSUME NEW n \in 1..Len(p), NEW e \in seen[SubSeq(p, 1, n)], NEW f \in seen[SubSeq(p, 1, n)]
          PROVE  e = f
      BY DEF Undisturbed
    <3> QED BY <3>1 DEF LeftAlone, Alone
  <2>3. \A n \in nodes : n.path = p => n.entry = host[p] /\ n.entry \notin {None, Special}
    BY <2>1, <2>2 DEF NodeInv
  <2>4. ASSUME host[p] \notin {None, Special} PROVE [path |-> p, entry |-> host[p]] \in nodes
    <3>1. stack = <<>> /\ Len(stack) = 0
      BY <2>1 DEF PcInv
    <3>2. ASSUME NEW q PROVE ~Pending(q)
      BY <3>1 DEF Pending, Visiting
    <3> QED BY <2>1, <2>2, <2>4, <3>2 DEF ProgressInv, Included
  <2>5. CASE host[p] \in {None, Special}
    BY <2>3, <2>5
  <2>6. CASE host[p] \notin {None, Special}
    <3> DEFINE m == [path |-> p, entry |-> host[p]]
    <3>1. m \in nodes /\ m.path = p /\ m.entry = host[p]
      BY <2>4, <2>6
    <3> QED BY <2>3, <2>6, <3>1
  <2> QED BY <2>5, <2>6
<1> QED BY <1>1, ScanInvariance, PTL
=============================================================================
