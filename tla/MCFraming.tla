----------------------------- MODULE MCFraming -----------------------------
(***************************************************************************)
(* Small instances of Framing: bytes of one bit, so a length of 4 bytes    *)
(* counts to 15; payloads of 0, 1, 3 and 7 bytes, the last one the longest *)
(* whose packet length still fits.                                         *)
(***************************************************************************)
EXTENDS FramingInvariant

SomePayloads == {<<>>, <<1>>, <<1, 0, 1>>, <<0, 0, 0, 1, 0, 0, 0>>}
=============================================================================
