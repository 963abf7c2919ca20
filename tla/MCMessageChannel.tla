-------------------------- MODULE MCMessageChannel --------------------------
(* Two keys, each used for two messages of different lengths, of three to   *)
(* one datagrams, the last of them full in one of the messages only.        *)
EXTENDS MessageChannel

MCMessage ==
  { [key |-> 0, data |-> <<1, 2, 3, 1, 2>>],
    [key |-> 0, data |-> <<2, 3, 2>>],
    [key |-> 1, data |-> <<3, 1, 1, 2>>],
    [key |-> 1, data |-> <<2>>] }

MCNoise == { <<>>, <<0, 1, 0, 0, 0, 3, 0, 0, 0>> }
=============================================================================
