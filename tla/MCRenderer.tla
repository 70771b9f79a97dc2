------------------------------ MODULE MCRenderer ------------------------------
(* Renderer for TLC: every text of up to two pieces, and of up to four where
   times, markers and mail addresses meet, longer ones that matter, and test
   cases that fit and do not.                                                *)
EXTENDS Renderer

MCTexts ==
    BoundedSeq(Pieces, 2)
    \cup BoundedSeq({"date", "clock", "mail", "TS", "DATE:", "end"}, 4)
    \cup BoundedSeq({"field", "x", "date", "mail", "EMAIL"}, 3)
    \cup {<<"TS", "ISO8601:", "date", "clock", "end", "mail">>,
          <<"TS", "OTHER:", "date", "end", "mail">>,
          <<"TS", "DATE:", "field", "date", "end", "x">>,
          <<"field", "TS", "DATE:", "date", "end", "x">>,
          <<"field", "mail", "field", "field", "DATE:", "date">>,
          <<"field", "arrow", "ip", "port", "field", "ip", "src", "ip">>,
          <<"src", "ip", "port", "arrow", "ip", "date">>,
          <<"ip", "port", "arrow", "ip", "port", "arrow", "ip">>}

MCTemplates ==
    {[sample |-> text, values |-> <<>>] : text \in MCTexts}
    \cup {[sample |-> <<"CASE", "date", "CASE">>, values |-> values] :
             values \in {<< <<"mail">> >>, << <<"mail">>, <<"date", "clock">> >>,
                         << <<"CASE">>, <<"clock">> >>}}
    \cup {[sample |-> <<"field", "CASE">>, values |-> << value >>] :
             value \in {<<"x">>, <<"mail">>, <<"field", "x">>}}
=============================================================================
