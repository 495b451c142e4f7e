----------------------------- MODULE MCTaskApi -----------------------------
(* Instances of TaskApi for TLC. *)
EXTENDS TaskApi

Entry(dir, name) == [dir |-> dir, name |-> name, sh |-> TRUE, folder |-> FALSE]
Install == Entry(".", "install.sh")

\* No install.sh; no script, only a directory cmd/a.sh; one script beside a
\* script elsewhere; three scripts.
SomeBundles ==
    {<<Entry("cmd", "a.sh")>>,
     <<Install, [Entry("cmd", "a.sh") EXCEPT !.folder = TRUE]>>,
     <<Install, Entry("cmd", "a.sh"), Entry("lib", "b.sh")>>,
     <<Entry("cmd", "a.sh"), Install, Entry("cmd", "b.sh"), Entry("cmd", "c.sh")>>}
=============================================================================
