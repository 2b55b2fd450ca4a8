----------------------------- MODULE MCBindingFile -----------------------------
(***************************************************************************)
(* Every set of files with MaxTotal lines at most between them: files that *)
(* include each other or themselves, files that do not exist, and in their *)
(* other lines every statement of BindingAst.                              *)
(***************************************************************************)
EXTENDS BindingFile

CONSTANT MaxTotal    \* bound on the lines of all files together

MCTypes == {"init", "preface"}
MCIdents == {"", "item"}

Lines(n) == BoundedSeq(Line, Min({n, MaxLines}))

MCInit == /\ \E n \in 0 .. MaxTotal :
               \/ text \in [{Root} -> Lines(n)]
               \/ \E f \in Files \ {Root} :
                    \E main \in Lines(n), rest \in Lines(MaxTotal - n) :
                      text = [g \in {Root, f} |-> IF g = f THEN rest ELSE main]
          /\ FileStart

MCSpec == MCInit /\ [][FileNext]_allvars /\ WF_allvars(Parse)
=============================================================================
