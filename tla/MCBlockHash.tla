----------------------------- MODULE MCBlockHash -----------------------------
(* A small source chain, and somebody else who sends made-up blocks. *)
EXTENDS VerifiedBlockHash

ForeignMessages ==
    [sender : {"other"}, blockHeight : {MaxHeight}, blockHash : Hashes]
=============================================================================
