------------------------------ MODULE MCSendLoop ------------------------------
(* SendLoop for TLC: the constants that a .cfg file cannot write.             *)
EXTENDS SendLoop

CONSTANTS Plain, Odd

(* Payloads that take 2, 4 and 6 bytes in a frame, and one too long for UDP. *)
MCCatalogs == {Plain, Odd}
MCPlain == << <<"a">>, <<"a", "n">>, <<"a", "a", "r", "a">> >>
MCOdd == << <<"n", "n", "n", "a">> >>
MCDivisor == [packed |-> 2, datagrams |-> 2, stream |-> 1, file |-> 1]
MCMaxEvents == [packed |-> 9, datagrams |-> 2, stream |-> 3, file |-> 2]
=============================================================================
