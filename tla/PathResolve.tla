---------------------------- MODULE PathResolve -----------------------------
(***************************************************************************)
(* Path lookup: resolve, resolveFrom and splitPath (path.go), and the kind   *)
(* check each FS method makes on what they find (fs.go, openfile.go).  The    *)
(* recursion of resolveFrom is a stack of frames; one iteration of its loop   *)
(* is one step.  A path is the list of segments strings.Split cuts it into.   *)
(***************************************************************************)
EXTENDS Integers, Sequences

CONSTANTS Trees,          \* images: which node each directory entry leads to
          Paths,          \* paths looked up
          Ops,            \* FS methods called
          Root,           \* the root directory's inode
          MaxSymlinkHops, \* maxSymlinkHops
          Fuel            \* steps the textbook lookup is given

ASSUME HopsAssumption == MaxSymlinkHops \in Nat /\ Fuel \in Nat

VARIABLES tree,    \* [kind, entries, target], functions of the image's nodes
          op,      \* the FS method
          path,    \* the path it was called with
          stack,   \* the active resolveFrom calls, innermost last
          links,   \* symlinks followed so far in this lookup
          result   \* [err, node] once the method has returned

vars == <<tree, op, path, stack, links, result>>

Pending == [err |-> "pending", node |-> Root]

\* splitPath: drops empty and "." segments and keeps "..".
splitPath(p) == SelectSeq(p, LAMBDA s : s # "" /\ s # ".")

IsAbsolute(p) == Len(p) > 1 /\ p[1] = ""

Frame(start, p, followFinal) ==
  [cur |-> start, parts |-> splitPath(p), i |-> 1, follow |-> followFinal]

\* A method is called: it starts at the root inode, with no hop taken.  Only
\* ReadLink does not follow a symlink at the end of the path.
Init == /\ tree \in Trees
        /\ op \in Ops
        /\ path \in Paths
        /\ stack = <<Frame(Root, path, op # "ReadLink")>>
        /\ links = 0
        /\ result = Pending

top == stack[Len(stack)]
name == top.parts[top.i]
child == tree.entries[top.cur][name]
last == top.i = Len(top.parts)
hops == Len(stack) - 1

\* An error of any frame is the result of the lookup.
fail(e) == /\ result' = [err |-> e, node |-> Root]
           /\ stack' = <<>>
           /\ UNCHANGED <<tree, op, path, links>>

\* The kind of node each method insists on: ErrNotRegular of ReadFile and OpenFile,
\* ErrNotDirectory of ListDir, ErrNotSymlink of ReadLink; Stat takes any.
notRegular(n) == op \in {"ReadFile", "OpenFile"} /\ tree.kind[n] # "file"
notListable(n) == op = "ListDir" /\ tree.kind[n] # "dir"
notSymlink(n) == op = "ReadLink" /\ tree.kind[n] # "link"

WrongKind(n) == notRegular(n) \/ notListable(n) \/ notSymlink(n)

InLoop == stack # <<>> /\ top.i <= Len(top.parts)

\* The current node is not a directory.
NotDirectory == /\ InLoop
                /\ tree.kind[top.cur] # "dir"
                /\ fail("not a directory")

\* No entry of the directory has the name.
NotFound == /\ InLoop
            /\ tree.kind[top.cur] = "dir"
            /\ name \notin DOMAIN tree.entries[top.cur]
            /\ fail("not found")

\* readInode or readDir cannot read the image.
ReadFails == /\ stack # <<>>
             /\ fail("unreadable")

FoundChild == /\ InLoop
              /\ tree.kind[top.cur] = "dir"
              /\ name \in DOMAIN tree.entries[top.cur]

MustFollow == tree.kind[child] = "link" /\ (~last \/ top.follow)

\* A child that is not followed becomes the current node.
Descend == /\ FoundChild
           /\ ~MustFollow
           /\ stack' = [stack EXCEPT ![Len(stack)].cur = child, ![Len(stack)].i = @ + 1]
           /\ UNCHANGED <<tree, op, path, links, result>>

\* Mutant: a relative target is resolved from the root.
followFrom_Root == Root

\* Where the target of the child is resolved from: the directory that holds the
\* symlink, or the root.
followFrom == IF IsAbsolute(tree.target[child]) THEN Root ELSE top.cur

\* Mutant: the limit is tested one call too late.
tooDeep_Late == hops > MaxSymlinkHops

\* The callee refuses to go deeper than the limit.
tooDeep == hops + 1 > MaxSymlinkHops

followed == Frame(followFrom, tree.target[child], TRUE)

\* Mutant: the target takes the place of the frame, so that no hop is counted.
Follow_NoHop == /\ FoundChild
                /\ MustFollow
                /\ stack' = [stack EXCEPT ![Len(stack)] = followed]
                /\ UNCHANGED <<tree, op, path, links, result>>

\* resolveFrom calls itself for the target of a symlink.
Follow == /\ FoundChild
          /\ MustFollow
          /\ IF tooDeep
             THEN fail("too many links")
             ELSE /\ stack' = Append(stack, followed)
                  /\ links' = links + 1
                  /\ UNCHANGED <<tree, op, path, result>>

\* The innermost call has consumed its path: its node becomes the current one
\* of its caller, or what the FS method goes on with.
Return ==
  /\ stack # <<>>
  /\ top.i > Len(top.parts)
  /\ IF hops > 0
     THEN /\ stack' = [SubSeq(stack, 1, hops) EXCEPT ![hops].cur = top.cur, ![hops].i = @ + 1]
          /\ UNCHANGED result
     ELSE /\ stack' = <<>>
          /\ result' = [err |-> IF WrongKind(top.cur) THEN "wrong kind" ELSE "nil",
                        node |-> top.cur]
  /\ UNCHANGED <<tree, op, path, links>>

Next == NotDirectory \/ NotFound \/ ReadFails \/ Descend \/ Follow \/ Return

\* The lookup runs in the goroutine of its caller.
Spec == Init /\ [][Next]_vars /\ WF_vars(Next)

-----------------------------------------------------------------------------
\* Types.  What matters: the recursion of resolveFrom is never deeper than
\* maxSymlinkHops calls below the first one, and a lookup has a result exactly when
\* no call is active.
TypeOK == /\ op \in Ops /\ path \in Paths
          /\ links \in Nat
          /\ result.err \in {"pending", "nil", "wrong kind", "not a directory", "not found",
                             "unreadable", "too many links"}
          /\ result = Pending <=> stack # <<>>
          /\ Len(stack) <= MaxSymlinkHops + 1
          /\ \A k \in 1..Len(stack) : stack[k].cur \in DOMAIN tree.kind

\* The textbook lookup, without recursion and without a limit: the segments
\* still to walk are a list, and following a symlink puts its target in front.
Rewrite(s) ==
  IF s.out # "pending" THEN s
  ELSE IF s.rest = <<>> THEN [s EXCEPT !.out = "nil"]
  ELSE IF tree.kind[s.at] # "dir" THEN [s EXCEPT !.out = "not a directory"]
  ELSE IF Head(s.rest) \notin DOMAIN tree.entries[s.at] THEN [s EXCEPT !.out = "not found"]
  ELSE LET n == tree.entries[s.at][Head(s.rest)]
       IN  IF tree.kind[n] = "link" /\ (Len(s.rest) > 1 \/ op # "ReadLink")
           THEN [s EXCEPT !.at = IF IsAbsolute(tree.target[n]) THEN Root ELSE @,
                          !.rest = splitPath(tree.target[n]) \o Tail(@),
                          !.followed = @ + 1]
           ELSE [s EXCEPT !.at = n, !.rest = Tail(@)]

Textbook ==
  LET walk[k \in 0..Fuel] ==
        IF k = 0 THEN [at |-> Root, rest |-> splitPath(path), followed |-> 0, out |-> "pending"]
                 ELSE Rewrite(walk[k - 1])
  IN  walk[Fuel]

\* resolveFrom's recursion computes the textbook lookup: the same node, the same
\* error, through the same number of symlinks.  It gives up on the limit only
\* when more symlinks than that are on the way, so a symlink cycle (where the
\* textbook lookup never ends) is always reported as too many links.
ResolvesLikeTextbook ==
  result # Pending =>
    CASE result.err \in {"nil", "wrong kind"} ->
           Textbook.out = "nil" /\ Textbook.at = result.node /\ Textbook.followed = links
      [] result.err \in {"not a directory", "not found"} ->
           Textbook.out = result.err /\ Textbook.followed = links
      [] result.err = "too many links" -> Textbook.followed > MaxSymlinkHops
      [] result.err = "unreadable" -> TRUE

\* A lookup always returns, on symlink cycles too.
LookupReturns == <>(result # Pending)
=============================================================================
