---------------------------- MODULE MCFieldCodecs ----------------------------
(* Half a day before year 0.                                               *)
EXTENDS FieldCodecs

FirstTime == -2
=============================================================================
