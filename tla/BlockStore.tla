----------------------------- MODULE BlockStore -----------------------------
(***************************************************************************)
(* What the block layer of a squashfs FS promises to the code above it      *)
(* (metaCursor, readFileLimit, squashfsFile.ReadAt): a caller names a block *)
(* and gets an answer that depends on that block of the read-only image     *)
(* alone.  There is no cache here, no other caller and no history.          *)
(***************************************************************************)
CONSTANTS Callers,   \* goroutines that share one FS
          Blocks,    \* block references a caller can ask for
          None,      \* no block, no result
          Answers    \* Answers[b]: the results an uncached read of b can give

VARIABLES busy,      \* busy[c]: c is inside a call
          asked,     \* asked[c]: the block of c's current or last call
          answer     \* answer[c]: the result of c's last call

vars == <<busy, asked, answer>>

Init == /\ busy = [c \in Callers |-> FALSE]
        /\ asked = [c \in Callers |-> None]
        /\ answer = [c \in Callers |-> None]

Call(c, b) == /\ ~busy[c]
              /\ busy' = [busy EXCEPT ![c] = TRUE]
              /\ asked' = [asked EXCEPT ![c] = b]
              /\ UNCHANGED answer

Return(c) == /\ busy[c]
             /\ busy' = [busy EXCEPT ![c] = FALSE]
             /\ \E r \in Answers[asked[c]] : answer' = [answer EXCEPT ![c] = r]
             /\ UNCHANGED asked

Next == \E c \in Callers : Return(c) \/ \E b \in Blocks : Call(c, b)

\* The safety part of the promise.
Safety == Init /\ [][Next]_vars

\* The whole promise: every call is also answered.
Spec == Safety /\ \A c \in Callers : WF_vars(Return(c))
=============================================================================
