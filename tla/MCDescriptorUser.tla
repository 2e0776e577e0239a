-------------------------- MODULE MCDescriptorUser --------------------------
EXTENDS DescriptorUser

(* Whole, in pieces with empty ones at either end and between, and empty. *)
MCPayloads == { << <<1, 2, 3>> >>, << << >>, <<1>>, << >>, <<2, 3>>, << >> >>, << << >> >> }
MCReply == <<7, 8, 9>>
=============================================================================
