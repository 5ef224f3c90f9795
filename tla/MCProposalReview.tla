--------------------------- MODULE MCProposalReview ---------------------------
(* Three patches of two files, the second on top of the first and the third  *)
(* beside it; two actions of an agent, a narrow grant, its replacement and a  *)
(* wide one.                                                                 *)
EXTENDS ProposalReview, TLC

CONSTANTS p1, p2, p3, f1, f2, a1, a2, narrow, again, wide, r1, r2

MCOp(f, c) == [file |-> f, before |-> c]
MCOps == (p1 :> <<MCOp(f1, Base), MCOp(f2, Absent)>>) @@ (p2 :> <<MCOp(f1, p1)>>)
           @@ (p3 :> <<MCOp(f1, Base)>>)
MCCovers == (narrow :> {a1}) @@ (again :> {a1}) @@ (wide :> {a1, a2})
MCScope == (narrow :> "project") @@ (again :> "project") @@ (wide :> "space")
MCRank == (narrow :> 1) @@ (again :> 1) @@ (wide :> 0)
MCMaxUses == (narrow :> 1) @@ (again :> 1) @@ (wide :> 1)
MCQueues == {{p1, p2, p3}, {a1, a2}, {p1, a1}}
MCSymmetry == Permutations({r1, r2})

=============================================================================
