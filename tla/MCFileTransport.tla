--------------------------- MODULE MCFileTransport ---------------------------
(* FileTransport for TLC: p1 connects again and again under changing limits,
   p2 is another program with the same clock that writes between its files.  *)
EXTENDS FileTransport, TLC

CONSTANTS p1, p2

Given(a, b) == (p1 :> a) @@ (p2 :> b)

MCByteLimits == Given({2}, {0})
MCCountLimits == Given({0, 1}, {0})
MCTimed == Given({TRUE}, {FALSE})
MCMaxLogs == Given(2, 1)
MCMaxBytes == Given(2, 1)
MCMaxConnects == Given(2, 1)
MCMaxSends == Given(2, 1)
=============================================================================
