------------------------------ MODULE EagerFold ------------------------------
(***************************************************************************)
(* FoldLeft of SequencesExt, written so that TLC evaluates each partial    *)
(* result once: a step that names it several times would otherwise be      *)
(* evaluated several times per step when TLC decides whether an action is  *)
(* enabled.                                                                *)
(***************************************************************************)
EXTENDS SequencesExt

(* Op(acc, x) is the only element of the set.                              *)
FoldEager(Op(_, _), base, seq) ==
    FoldLeft(LAMBDA acc, x : CHOOSE v \in {Op(a, x) : a \in {acc}} : TRUE, base, seq)
=============================================================================
