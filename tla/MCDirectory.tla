----------------------------- MODULE MCDirectory -----------------------------
(* Instances of Directory for TLC: a public and a private channel.         *)
EXTENDS Directory, TLC

CONSTANTS general, private

ChannelKinds == [c \in Channels |-> IF c = general THEN "public" ELSE "private"]
=============================================================================
