---------------------------- MODULE MCProtoBase ----------------------------
(* ProtoBase for TLC: fields that are empty, fill the buffer, or hold parts  *)
(* of a separator.                                                          *)
EXTENDS ProtoBase, TLC

MCFields == {<<>>, <<Other>>, <<LB, RB, CO, LB, Other>>,
             <<LB, LB, RB, Other>>, <<RB, CO, LB, RB, Other>>}
=============================================================================
