------------------------ MODULE MCSubmissionPipeline ------------------------
(***************************************************************************)
(* Instances of SubmissionPipeline for TLC.                                *)
(***************************************************************************)
EXTENDS SubmissionInvariants, TLC

\* Members, Theaters and processes of one kind are interchangeable; used by the
\* runs that check safety only.
Symmetry ==
  Permutations(Members) \cup Permutations(Theaters) \cup Permutations(Clients)
    \cup Permutations(Workers) \cup Permutations(Resolvers)

\* Nothing reads placeholder and notices: states that differ in them only have the
\* same future, as far as a property that reads neither can tell.
Unwatched == <<member, catalog, storedUrl, jobVars, subVars, selection, procVars, events,
               crashes>>
=============================================================================
