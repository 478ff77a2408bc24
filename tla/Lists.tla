-------------------------------- MODULE Lists --------------------------------
(***************************************************************************)
(* The one operation of container/list that the module Sequences lacks.    *)
(* (SequencesExt offers RemoveFirst, but its definitions slow the provers  *)
(* down several times over in every module that reaches them.)             *)
(***************************************************************************)
EXTENDS Integers, Sequences, Functions

PositionOf(list, e) == CHOOSE i \in 1 .. Len(list) : list[i] = e

WithoutPosition(list, i) == SubSeq(list, 1, i - 1) \o SubSeq(list, i + 1, Len(list))

\* List.Remove: the list without e, which is in it at most once
Unlink(list, e) ==
    IF e \in Range(list) THEN WithoutPosition(list, PositionOf(list, e)) ELSE list
=============================================================================
