------------------------------ MODULE ScanTree ------------------------------
(***************************************************************************)
(* BuildFromDir (write.go) scans a host directory (scanDir, scanEntry), builds *)
(* the image in memory and writes it.  The scan is a sequence of system calls  *)
(* (Lstat, ReadDir, Readlink, ReadFile), and between any two of them another   *)
(* process may create, remove, replace or rewrite what it is looking at.       *)
(* A path is a sequence of names below srcDir; a host entry is [kind, val]:     *)
(* a file and its contents, a symlink and its target.  Where a symlink leads    *)
(* is left open: a lookup that goes through one may find anything.             *)
(***************************************************************************)
EXTENDS Integers, Sequences, SequencesExt

CONSTANTS Paths,     \* paths that may exist below srcDir
          Data,      \* contents of files
          Targets,   \* targets of symlinks
          MaxEdits   \* bound: changes another process makes during a scan

\* Names are numbered in their order, and a path may exist only if its parent may.
ASSUME PathsAssumption ==
  /\ Paths \subseteq Seq(Nat) \ {<<>>}
  /\ \A p \in Paths : Len(p) > 1 => Front(p) \in Paths

E(kind, val) == [kind |-> kind, val |-> val]
None    == E("none", <<>>)
Special == E("special", <<>>)
Dir     == E("dir", <<>>)
Entries == {None, Special, Dir} \cup {E("file", v) : v \in Data} \cup {E("link", t) : t \in Targets}

\* Nothing is below what is not a directory.
Host == {h \in [Paths -> Entries] :
           \A p \in Paths : (Len(p) > 1 /\ h[p] # None) => h[Front(p)] = Dir}

VARIABLES host,
          seen,    \* the entries each path has had since the scan began
          edits,
          stack,   \* the directories being read: [path, todo], todo the names left
          at,      \* the path scanEntry works on
          fi,      \* what Lstat said of it
          nodes,   \* the tree so far: [path, entry]
          pc,
          img,     \* the file at imgPath: "old", "partial" or "new"
          err

vars == <<host, seen, edits, stack, at, fi, nodes, pc, img, err>>
scan == <<stack, at, fi, nodes, pc, img, err>>

Init == /\ host \in Host
        /\ seen = [p \in Paths |-> {host[p]}]
        /\ edits = 0
        /\ stack = <<>>
        /\ at = <<>>
        /\ fi = "none"
        /\ nodes = {}
        /\ pc = "start"
        /\ img = "old"
        /\ err = "nil"

-----------------------------------------------------------------------------
\* Another process puts e at path p, where there is a directory to put it in.
Edit(p, e) ==
  /\ edits < MaxEdits /\ pc # "done"
  /\ e # host[p]
  /\ Len(p) > 1 => host[Front(p)] = Dir
  /\ host' = [q \in Paths |-> IF q = p THEN e
                              ELSE IF IsStrictPrefix(p, q) /\ e # Dir THEN None ELSE host[q]]
  /\ seen' = [q \in Paths |-> seen[q] \cup {host'[q]}]
  /\ edits' = edits + 1
  /\ UNCHANGED scan

\* A lookup of p goes through the first n names of p and follows a symlink there.
Follows(p, n) == \E k \in 1..n : host[SubSeq(p, 1, k)].kind = "link"

\* What a lookup may find at p, a symlink at the end of the path not followed.
Found(p) == IF Follows(p, Len(p) - 1) THEN Entries ELSE {host[p]}

\* What open(2) may find at p: a symlink at the end is followed as well.
Opened(p) == IF Follows(p, Len(p)) THEN {e \in Entries : e.kind # "link"} ELSE {host[p]}

\* The names a directory at p may have.
Below(p) == {Last(q) : q \in {q \in Paths : Front(q) = p}}

\* What os.ReadDir may say are the names of the directory that p leads to.
Names(p) == IF Follows(p, Len(p)) THEN SUBSET Below(p)
            ELSE {{x \in Below(p) : host[Append(p, x)] # None}}

-----------------------------------------------------------------------------
Scanning == UNCHANGED <<host, seen, edits, img, err>>

\* An error anywhere in the scan is BuildFromDir's.
fail == /\ pc' = "done"
        /\ err' = "error"
        /\ UNCHANGED <<host, seen, edits, stack, at, fi, nodes, img>>

\* Mutant: the image is created before the scan.
created_First == "partial"

\* The image while the scan runs.
created == img

\* scanDir: the entries of srcDir.
ScanDir == /\ pc = "start"
           /\ \E names \in Names(<<>>) : stack' = <<[path |-> <<>>, todo |-> names]>>
           /\ pc' = "loop"
           /\ img' = created
           /\ UNCHANGED <<host, seen, edits, at, fi, nodes, err>>

dir == stack[Len(stack)]

\* os.ReadDir sorts the names.
first == Min(dir.todo)

\* The loop over the entries of a directory calls scanEntry, or ends.
NextEntry ==
  /\ pc = "loop"
  /\ IF dir.todo # {}
     THEN /\ at' = Append(dir.path, first)
          /\ stack' = [stack EXCEPT ![Len(stack)].todo = @ \ {first}]
          /\ pc' = "lstat"
     ELSE /\ stack' = Front(stack)
          /\ pc' = IF Len(stack) = 1 THEN "build" ELSE "loop"
          /\ UNCHANGED at
  /\ Scanning /\ UNCHANGED <<fi, nodes>>

\* Mutant: os.Stat.
Lstated_Stat == Opened(at)

\* What os.Lstat finds: a symlink is not followed.
Lstated == Found(at)

\* Mutant: a special file ends the directory.
skipped_Rest == [stack EXCEPT ![Len(stack)].todo = {}]

\* The directories after a special file was skipped.
skipped == stack

\* The default case of scanEntry: neither directory, symlink nor regular file.
Skips(kind) == kind = "special"

Lstat ==
  /\ pc = "lstat"
  /\ \E e \in Lstated :
       CASE e.kind = "none" -> fail
         [] Skips(e.kind) -> pc' = "loop" /\ stack' = skipped
                               /\ Scanning /\ UNCHANGED <<at, fi, nodes>>
         [] OTHER -> pc' = "content" /\ fi' = e.kind
                       /\ Scanning /\ UNCHANGED <<stack, at, nodes>>

\* The node of the entry at hand.
add(e) == /\ nodes' = nodes \cup {[path |-> at, entry |-> e]}
          /\ pc' = "loop"
          /\ Scanning /\ UNCHANGED <<at, fi>>

ReadDir ==
  /\ pc = "content" /\ fi = "dir"
  /\ \E e \in Opened(at), names \in Names(at) :
       IF e.kind # "dir" THEN fail
       ELSE add(Dir) /\ stack' = Append(stack, [path |-> at, todo |-> names])

Readlink ==
  /\ pc = "content" /\ fi = "link"
  /\ \E e \in Found(at) : IF e.kind # "link" THEN fail ELSE add(e) /\ UNCHANGED stack

\* os.ReadFile follows a symlink that has taken the file's place; a special file in
\* its place gives anything.
ReadFile ==
  /\ pc = "content" /\ fi = "file"
  /\ \E e \in Opened(at) :
       CASE e.kind = "file" -> add(e) /\ UNCHANGED stack
         [] e.kind = "special" -> \E v \in Data : add(E("file", v)) /\ UNCHANGED stack
         [] OTHER -> fail

\* A system call of the scan fails.
CallFails == pc \in {"start", "lstat", "content"} /\ fail

\* buildImage, which fails only on an unknown compressor.
BuildImage == /\ pc = "build"
              /\ \/ fail
                 \/ pc' = "write" /\ Scanning /\ UNCHANGED <<stack, at, fi, nodes>>

\* os.WriteFile truncates the file first.
WriteFile == /\ pc = "write"
             /\ pc' = "done"
             /\ \/ img' = "new" /\ UNCHANGED err
                \/ img' \in {"old", "partial"} /\ err' = "error"
             /\ UNCHANGED <<host, seen, edits, stack, at, fi, nodes>>

\* BuildFromDir has returned: nothing else may stop here.
Returned == pc = "done" /\ UNCHANGED vars

Next == \/ ScanDir \/ NextEntry \/ Lstat \/ ReadDir \/ Readlink \/ ReadFile \/ CallFails
        \/ BuildImage \/ WriteFile \/ Returned
        \/ \E p \in Paths, e \in Entries : Edit(p, e)

Spec == Init /\ [][Next]_vars

-----------------------------------------------------------------------------
\* Nothing but what is there now has been at p, and at the directories above it.
Undisturbed(p) == \A n \in 1..Len(p) : seen[SubSeq(p, 1, n)] = {host[SubSeq(p, 1, n)]}

\* Whatever another process does meanwhile, the image that BuildFromDir goes on to
\* write has every entry that was left alone, exactly as it is, special files left
\* out; on a host that stays as it is, that is the whole tree.
UndisturbedIncluded ==
  pc \in {"build", "write"} =>
    \A p \in Paths : Undisturbed(p) =>
      {n.entry : n \in {n \in nodes : n.path = p}} =
        IF host[p] \in {None, Special} THEN {} ELSE {host[p]}

\* The scan makes nothing up: it has one node per path, below a directory it has a
\* node for, and something of the node's kind was at that path during the scan, unless
\* a directory above it was a symlink for a while.
NodesWitnessed ==
  \A n \in nodes :
    /\ \/ \E e \in seen[n.path] : e.kind = n.entry.kind
       \/ \E k \in 1..(Len(n.path) - 1) : \E e \in seen[SubSeq(n.path, 1, k)] : e.kind = "link"
    /\ \A m \in nodes : m.path = n.path => m = n
    /\ Len(n.path) > 1 => [path |-> Front(n.path), entry |-> Dir] \in nodes

\* An error of the scan or of the build leaves the file at imgPath as it was; it is
\* replaced only once the whole tree has been read, and then BuildFromDir reports
\* success exactly when it is complete.
ImageIntact ==
  /\ pc # "done" => img = "old"
  /\ pc = "done" => (img = "new" <=> err = "nil")
  /\ img # "old" => stack = <<>>
=============================================================================
