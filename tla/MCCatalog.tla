------------------------------ MODULE MCCatalog ------------------------------
EXTENDS Catalog
CONSTANTS p1, p2
Sample(zeros, value) == [id |-> Id(zeros, value)]
MCBundled == <<>>
\* Absent; unreadable; one id twice; hand-written ids with a gap; an id that
\* does not fit.
MCInitial == {None, Broken, <<Sample(3, 1), Sample(3, 1)>>, <<Sample(0, 1), Sample(3, 3)>>, <<Sample(0, 5)>>}
\* Two samples after a header; two columns.
MCCsvFiles == {<<Header, CR, LF, "a", LF, Quote, "b", LF, Quote>>, <<"a", Comma, "b">>}
=============================================================================
