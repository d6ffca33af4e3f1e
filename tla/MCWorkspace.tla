---------------------------- MODULE MCWorkspace ----------------------------
(***************************************************************************)
(* A small workspace: two paths, of which the second may be missing, a     *)
(* link to the first or no file at all, two processes and three commands.  *)
(***************************************************************************)
EXTENDS Workspace

MCPaths == <<1, 2>>
MCContents == <<"a", "b">>
MCLayouts ==
  {File(1)} \X {File(2), File(1), Absent, Symlink, Special}
MCReplacements == {Absent}
Old(value) == [kind |-> "existing", bytes |-> Whole(value)]
Missing == [kind |-> "absent"]

(* A move that creates its destination, a copy between existing files that
   only reads its source, and a batch that changes nothing. *)
Create == [requires |-> <<Old("a"), Missing>>, targets |-> <<1, 2>>,
           result |-> <<Whole("a1"), Whole("b1")>>]
Copy == [requires |-> <<Old("a"), Old("b")>>, targets |-> <<2>>,
         result |-> <<Whole("a"), Whole("b2")>>]
NoOp == [requires |-> <<Old("a"), Old("b")>>, targets |-> <<>>, result |-> <<>>]

Reviewed == {<<<<1, Whole("a")>>, <<2, Whole("b")>>>>}
MCCommands ==
  {[kind |-> "inspect"], [kind |-> "list"], [kind |-> "complete", id |-> 1],
   [kind |-> "preview", batch |-> Create],
   [kind |-> "commit", batch |-> Create, expect |-> {}],
   [kind |-> "commit", batch |-> Copy, expect |-> Reviewed],
   [kind |-> "commit", batch |-> NoOp, expect |-> {}]}
MCEditedTo == {"a"}
Symmetry == Permutations(Procs)
=============================================================================
