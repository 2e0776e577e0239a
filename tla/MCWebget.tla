------------------------------ MODULE MCWebget ------------------------------
EXTENDS Webget

MCRequest == << <<1, 2, 3, 4>> >>
MCPayloads == {MCRequest}
MCReply == <<5, 6, 7, 8>>
=============================================================================
