-------------------------- MODULE MCTelegramReply --------------------------
(* TLC instances of TelegramReply: messages of four bytes. *)
EXTENDS TelegramReply

CONSTANTS c1, c2

\* Lines that would fit into a message but for the newline, a blank one and one
\* that is cut in two.
MCTexts == {<<<<1>>, << >>, <<1, 2>>, <<2, 1, 1, 1>>>>}

\* A line whose cut falls into a character of two bytes.
MCUnfitTexts == {<<<<2, 1, 2>>>>}
=============================================================================
