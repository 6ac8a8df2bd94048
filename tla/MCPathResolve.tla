--------------------------- MODULE MCPathResolve ----------------------------
(* Small instances of PathResolve for TLC: every image built from two          *)
(* directories, a file and two symlinks, cycles included.                      *)
EXTENDS PathResolve, TLC

CONSTANT Targets   \* targets the two symlinks may have

\* "", "/", "a", "/b", "./b", "/a/b" and "b/a", cut at the slashes.
AllTargets == {<<"">>, <<"", "">>, <<"a">>, <<"", "b">>, <<".", "b">>, <<"", "a", "b">>,
               <<"b", "a">>}

MCKind == [n \in {"root", "dir", "file", "l1", "l2"} |->
             CASE n \in {"root", "dir"} -> "dir"
               [] n = "file" -> "file"
               [] OTHER -> "link"]

MCTrees ==
  {[kind |-> MCKind,
    entries |-> [d \in {"root", "dir"} |->
                   IF d = "root" THEN "a" :> ra @@ "b" :> rb ELSE da @@ "b" :> db],
    target |-> "l1" :> t1 @@ "l2" :> t2] :
   ra \in {"dir", "l1"}, rb \in {"l2", "file"},
   da \in {"a" :> "file", "a" :> "l1", <<>>}, db \in {"file", "l2"},
   t1 \in Targets, t2 \in Targets}

\* "/a", "/a/b", "b//a", "/b/b", "/" and "/a/./a/b".
MCPaths == {<<"", "a">>, <<"", "a", "b">>, <<"b", "", "a">>, <<"", "b", "b">>, <<"", "">>,
            <<"", "a", ".", "a", "b">>}
=============================================================================
