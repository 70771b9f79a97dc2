------------------------------ MODULE CsvSource ------------------------------
(***************************************************************************)
(* The CSV reader behind the sample import (csv_sample_log_source.cpp):    *)
(* parse_csv as a fold over the characters of the file, and the rules of   *)
(* CsvSampleLogSource::load on the rows it yields.  A text is a sequence   *)
(* of symbols; the ones the reader tells apart are named here, the byte    *)
(* order mark and the header word count as one symbol each, and any other  *)
(* symbol is an ordinary character.                                        *)
(***************************************************************************)
EXTENDS Naturals, Sequences, SequencesExt

Quote == "quote"
Comma == "comma"
CR    == "CR"
LF    == "LF"
NUL   == "NUL"
Blank == "blank"
BOM   == "BOM"
Header == "sample"

(***************************************************************************)
(* The locals of parse_csv.  skip stands for the ++index that consumes the *)
(* second half of a doubled quote or of a CR LF pair; error for the throw. *)
(***************************************************************************)
Start == [rows |-> <<>>, row |-> <<>>, field |-> <<>>, quoted |-> FALSE,
          quote_closed |-> FALSE, row_started |-> FALSE, skip |-> FALSE,
          error |-> FALSE]

finish_field(s) ==
  [s EXCEPT !.row = Append(@, s.field), !.field = <<>>, !.quote_closed = FALSE]

\* Mutant: a row is there only when it holds a character.
finish_row_unless_empty(s) ==
  LET some == s.field # <<>> \/ s.row # <<>>
      row  == Append(s.row, s.field)
  IN  [s EXCEPT !.rows = IF some THEN Append(@, row) ELSE @,
                !.row = <<>>, !.field = <<>>,
                !.row_started = FALSE, !.quote_closed = FALSE]

finish_row(s) ==
  LET some == s.row_started \/ s.field # <<>> \/ s.row # <<>> \/ s.quote_closed
      row  == Append(s.row, s.field)
  IN  [s EXCEPT !.rows = IF some THEN Append(@, row) ELSE @,
                !.row = <<>>, !.field = <<>>,
                !.row_started = FALSE, !.quote_closed = FALSE]

(***************************************************************************)
(* One turn of the loop on the character v, with the next one in sight.    *)
(***************************************************************************)
scan_quoted(s, v, next) ==
  CASE v = Quote /\ next = Quote -> [s EXCEPT !.field = Append(@, Quote), !.skip = TRUE]
    [] v = Quote /\ next # Quote -> [s EXCEPT !.quoted = FALSE, !.quote_closed = TRUE]
    [] v = CR -> [s EXCEPT !.field = Append(@, LF), !.skip = (next = LF)]
    [] OTHER -> [s EXCEPT !.field = Append(@, v)]

scan_field(s, v) ==
  IF s.quote_closed \/ (v = Quote /\ s.field # <<>>) THEN [s EXCEPT !.error = TRUE]
  ELSE IF v = Quote THEN [s EXCEPT !.quoted = TRUE, !.row_started = TRUE]
  ELSE [s EXCEPT !.field = Append(@, v), !.row_started = TRUE]

scan_plain(s, v, next) ==
  CASE v = Comma -> [finish_field(s) EXCEPT !.row_started = TRUE]
    [] v \in {CR, LF} -> [finish_row(s) EXCEPT !.skip = (v = CR /\ next = LF)]
    [] OTHER -> scan_field(s, v)

scan(s, v, next) ==
  IF s.error THEN s
  ELSE IF s.skip THEN [s EXCEPT !.skip = FALSE]
  ELSE IF v = NUL THEN [s EXCEPT !.error = TRUE]
  ELSE IF s.quoted THEN scan_quoted(s, v, next) ELSE scan_plain(s, v, next)

(***************************************************************************)
(* The rows of a text, or error when the reader throws: a misplaced quote, *)
(* a NUL, or a quoted field that is never closed.                          *)
(***************************************************************************)
parse_csv(input) ==
  LET turn(s, i) == scan(s, input[i], IF i < Len(input) THEN input[i + 1] ELSE "")
      s == FoldLeft(turn, Start, [i \in 1..Len(input) |-> i])
  IN  IF s.error \/ s.quoted
      THEN [error |-> TRUE, rows |-> <<>>]
      ELSE [error |-> FALSE, rows |-> finish_row(s).rows]

is_optional_header(field) ==
  SelectSeq(field, LAMBDA c : c # Blank) = <<Header>>

(***************************************************************************)
(* CsvSampleLogSource::load: one column in every row, an optional header,  *)
(* no empty sample, and at least one sample.  <<>> stands for the throw,   *)
(* which is what the import service makes of an empty answer too.          *)
(***************************************************************************)
load_samples(text) ==
  LET body    == IF text # <<>> /\ Head(text) = BOM THEN Tail(text) ELSE text
      parsed  == parse_csv(body)
      rows    == parsed.rows
      fields  == [i \in 1..Len(rows) |-> rows[i][1]]
      samples == IF is_optional_header(fields[1]) THEN Tail(fields) ELSE fields
      refused == \/ parsed.error
                 \/ rows = <<>>
                 \/ \E i \in DOMAIN rows : Len(rows[i]) # 1
                 \/ \E i \in DOMAIN samples : samples[i] = <<>>
  IN  IF refused THEN <<>> ELSE samples

(***************************************************************************)
(* The reference: how a writer that follows the usual quoting rules turns  *)
(* rows of fields into a text.  A field is quoted when it has to be, or    *)
(* always; eol ends every line, the last one unless trim.  The only line   *)
(* break inside a field is LF, and it may be written as any of the three.  *)
(***************************************************************************)
Special == {Quote, Comma, CR, LF}
Eols    == {<<LF>>, <<CR>>, <<CR, LF>>}

WriteField(field, must, eol) ==
  LET encode(c) == CASE c = Quote -> <<Quote, Quote>>
                     [] c = LF    -> eol
                     [] OTHER     -> <<c>>
  IN  IF must \/ \E i \in DOMAIN field : field[i] \in Special
      THEN <<Quote>> \o FlattenSeq([i \in DOMAIN field |-> encode(field[i])]) \o <<Quote>>
      ELSE field

WriteRow(row, always, eol) ==
  LET must == always \/ row = << <<>> >>
      cell(i) == (IF i > 1 THEN <<Comma>> ELSE <<>>) \o WriteField(row[i], must, eol)
  IN  FlattenSeq([i \in DOMAIN row |-> cell(i)])

WriteCsv(rows, always, eol, trim) ==
  FlattenSeq([i \in DOMAIN rows |->
    WriteRow(rows[i], always, eol) \o (IF trim /\ i = Len(rows) THEN <<>> ELSE eol)])

Letters     == {"a", Quote, Comma, LF}
ShortFields == BoundedSeq(Letters, 1)
LongFields  == BoundedSeq(Letters, 2)
ShortRows   == {<<f>> : f \in ShortFields} \cup {<<f, g>> : f, g \in ShortFields}
LastRows    == {<<f>> : f \in ShortFields} \cup {<<f, f>> : f \in ShortFields}
CsvTables   == {<< <<f>> >> : f \in LongFields}
               \cup {<<r, t>> : r \in ShortRows, t \in LastRows}

\* Every table, in every quoting and line ending, is read as it was written.
CsvReadsBack ==
  \A rows \in CsvTables, always \in BOOLEAN, eol \in Eols, trim \in BOOLEAN :
    parse_csv(WriteCsv(rows, always, eol, trim)) = [error |-> FALSE, rows |-> rows]
=============================================================================
