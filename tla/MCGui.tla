-------------------------------- MODULE MCGui --------------------------------
EXTENDS Gui
\* "raw" holds data that tokenizing turns into "b"; a marker that is not well
\* formed grows each time.
MCAsTokens == [t \in {"", "a", "b", "raw", "odd", "odder"} |->
  CASE t = "raw" -> "b" [] t = "odd" -> "odder" [] OTHER -> t]
\* Two samples; one whose id does not fit in 64 bits; two of one id.
MCContents == {<<Entry(Id(3, 1), "odd"), Entry(Id(3, 2), "raw")>>, <<Entry(Id(0, 5), "raw")>>,
               <<Entry(Id(3, 1), "a"), Entry(Id(3, 1), "b")>>}
MCImported == <<"raw">>
=============================================================================
