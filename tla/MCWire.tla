------------------------------- MODULE MCWire -------------------------------
(* An instance of Wire: names of one to three bytes, values with and       *)
(* without zeros, three entries in a directory, seconds of two nanoseconds *)
(* and a range of four seconds.                                            *)
EXTENDS Wire

MCNames == {<<1>>, <<2, 1>>, <<1, 2, 2>>}
MCPayloads == {<<>>, <<0>>, <<1, 0, 2>>}
MCSizes == {8, 9, 13, 16}
MCInvalid == 9

=============================================================================
