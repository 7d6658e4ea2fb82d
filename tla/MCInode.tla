------------------------------ MODULE MCInode -------------------------------
(* Instances of Inode. *)
EXTENDS Inode

CONSTANTS p1, p2

do(call, path) == [call |-> call, path |-> path, new |-> <<>>, rel |-> FALSE, mode |-> 0]
a == <<"a">>
b == <<"b">>
ab == <<"a", "b">>

\* p1 makes, enters and opens what p2 links, removes and changes the mode of.
Mixed ==
  p1 :> {do("mkdir", a), do("mkdir", ab), do("create", b), do("create", ab), do("close", a),
         do("chdir", ab), do("chdir", <<>>), [do("open", <<"..", ".">>) EXCEPT !.rel = TRUE]}
  @@ p2 :> {do("unlink", a), do("unlink", b), do("unlink", ab), do("unlink", <<>>),
            [do("link", b) EXCEPT !.new = ab], [do("link", b) EXCEPT !.new = b],
            [do("chmod", b) EXCEPT !.mode = 420], [do("chmod", a) EXCEPT !.mode = 512]}

\* The fields of a cache entry are read only if it is valid and referenced.
View == <<disk, [i \in Inums |-> IF i \in valid /\ ref[i] > 0 THEN <<inode[i]>> ELSE <<>>],
          ref, lost, lock, cwd, ofile, tx, at>>
=============================================================================
