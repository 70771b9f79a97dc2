------------------------------ MODULE Renderer -------------------------------
(***************************************************************************)
(* LogRenderer and PreparedLog (application/log_renderer): the catalog      *)
(* replaces what must not be sent as recorded by tokens, once when a sample *)
(* is edited and again at every load and save; a template is compiled into  *)
(* segments; a worker renders its copy event by event through its caches.   *)
(*                                                                         *)
(* A text is a sequence of pieces.  What the patterns of the renderer and   *)
(* of the anonymizer tell apart is a piece each: "date", "clock" and "mail" *)
(* for a recorded time and a personal value that shows by its form, "src",  *)
(* "dst", "ip", "port" and "arrow" for addresses, "field" for the name of a *)
(* field of personal values, the markers, and the three parts of a          *)
(* {{TIMESTAMP:key:value}}.  Pieces stand apart as far as the patterns need *)
(* it, and close together in a marker.  A field ("src" and "dst" too)       *)
(* begins with a comma, and the piece behind "field", if it is no field, is *)
(* its value, in quotes; a token that begins a value is in the quotes with  *)
(* the piece behind it.  Two of the fifteen time formats stand for all, one *)
(* kind of personal value for those that show by their form and one for     *)
(* those that show by their field.                                          *)
(***************************************************************************)
EXTENDS Integers, Sequences, SequencesExt, FiniteSets

CONSTANTS
    Words,          \* pieces that no pattern knows, a person's name for one
    Templates,      \* [sample, values]: values for the token "CASE", <<>> for no test case
    Profiles,       \* synthetic profiles, 50 in the code
    Seconds,        \* seconds that a worker renders, 0 excluded: see README
    CacheLimit,     \* largest capacity_hint with a cache per profile
    MaxRounds,      \* bound: times the catalog tokenizes the stored template
    None

Keys == {"DATE:", "ISO8601:"}                           \* timestamp_style_keys
Markers == {"SRC_IP", "DST_IP", "EMAIL", "PERSON", "CASE"}
\* Pieces with a colon, and pieces that end in "}}".
Separators == Keys \cup {"OTHER:", "TS", "clock", "port"}
Closing == Markers \cup {"end"}
\* What is no value of a field, or one with braces in it.
Unvalued == Closing \cup {"TS", "field", "src", "dst"}
Pieces == Words \cup Separators \cup Unvalued \cup {"date", "mail", "ip", "arrow"}

ASSUME RendererAssumption ==
    /\ Templates \subseteq [sample : Seq(Pieces), values : Seq(Seq(Pieces))]
    /\ MaxRounds \in Nat /\ CacheLimit \in Nat
    /\ Seconds \subseteq Nat \ {0} /\ None \notin Seconds \cup Profiles

VARIABLES
    template,       \* history: as the user wrote it
    stored,         \* as the catalog holds it
    rounds,
    calendar,       \* calendar_time of the run: range mode
    ready,          \* the worker has its PreparedLog
    log,            \* which is this one
    event           \* what render() returned last, and for which second and profile

vars == <<template, stored, rounds, calendar, ready, log, event>>

-----------------------------------------------------------------------------
(* Tokenizing.                                                              *)

\* A value that its field gives away.
sensitive(text, i) == i > 1 /\ text[i - 1] = "field" /\ text[i] \notin Unvalued

\* Mutant: behind a field a value is looked for only if no field came before.
sanitize_first(text) ==
    [i \in DOMAIN text |-> IF sensitive(text, i) /\ \A j \in 1..(i - 2) : text[j] # "field" THEN "PERSON"
                           ELSE IF text[i] = "mail" THEN "EMAIL" ELSE text[i]]

\* replace_sensitive_fields goes first and leaves a value that holds a token.
sanitize(text) ==
    [i \in DOMAIN text |-> IF sensitive(text, i) THEN "PERSON"
                           ELSE IF text[i] = "mail" THEN "EMAIL" ELSE text[i]]

\* The addresses between the given pieces become the marker.
replace_capture(text, before, after, marker) ==
    [i \in DOMAIN text |->
        IF /\ text[i] = "ip"
           /\ IsSuffix(before, SubSeq(text, 1, i - 1))
           /\ IsPrefix(after, SubSeq(text, i + 1, Len(text)))
        THEN marker ELSE text[i]]

replace_addresses(text) ==
    LET one == replace_capture(text, <<"src">>, <<>>, "SRC_IP")
        two == replace_capture(one, <<"dst">>, <<>>, "DST_IP")
        three == replace_capture(two, <<>>, <<"port", "arrow">>, "SRC_IP")
    IN  replace_capture(three, <<"arrow">>, <<>>, "DST_IP")

Candidate(position, length, priority, kind, style, text) ==
    [position |-> position, length |-> length, priority |-> priority,
     kind |-> kind, style |-> style, text |-> text]

\* Where the marker that opens at i ends, 0 for nowhere: at the first closing
\* piece after the first colon.
marker_end(text, i) ==
    LET separator == SelectInSubSeq(text, i + 1, Len(text), LAMBDA p : p \in Separators)
    IN  IF separator = 0 THEN 0
        ELSE SelectInSubSeq(text, separator + 1, Len(text), LAMBDA p : p \in Closing)

\* The markers with a known key; one with another key is skipped as a whole.
timestamp_markers(text) ==
    LET value(i, e) == SubSeq(text, i + 2, IF text[e] = "end" THEN e - 1 ELSE e)
        scan(state, i) ==
            LET e == marker_end(text, i)
            IN  IF i < state.next \/ text[i] # "TS" \/ e = 0 THEN state
                ELSE [next |-> e + 1,
                      found |-> IF text[i + 1] \notin Keys THEN state.found
                                ELSE state.found \cup
                                     {Candidate(i, e - i + 1, -100, "Timestamp", text[i + 1], value(i, e))}]
    IN  FoldLeftDomain(scan, [next |-> 1, found |-> {}], text).found

timestamp_candidates(text) ==
    LET dates == {i \in DOMAIN text : text[i] = "date"}
        moments == {i \in dates : i < Len(text) /\ text[i + 1] = "clock"}
    IN  timestamp_markers(text)
        \cup {Candidate(i, 2, 0, "Timestamp", "ISO8601:", <<"date", "clock">>) : i \in moments}
        \cup {Candidate(i, 1, 11, "Timestamp", "DATE:", <<"date">>) : i \in dates}

\* The first of the sorted candidates of one position.
best(candidates) ==
    CHOOSE c \in candidates : \A d \in candidates :
        c.length > d.length \/ (c.length = d.length /\ c.priority <= d.priority)

\* The text cut into candidates that do not overlap and the pieces between.
cut(text, candidates) ==
    LET step(state, i) ==
            LET here == {c \in candidates : c.position = i}
                part == IF here = {} THEN Candidate(i, 1, 0, "Literal", "", <<text[i]>>)
                                     ELSE best(here)
            IN  IF i < state.cursor THEN state
                ELSE [cursor |-> i + part.length, parts |-> Append(state.parts, part)]
    IN  FoldLeftDomain(step, [cursor |-> 1, parts |-> <<>>], text).parts

tokenize_timestamps(text) ==
    LET original(c) == SubSeq(text, c.position, c.position + c.length - 1)
        token(c) == IF c.kind = "Literal" \/ original(c)[1] = "TS" THEN original(c)
                    ELSE <<"TS", c.style>> \o original(c) \o <<"end">>
    IN  FoldLeft(LAMBDA output, c : output \o token(c), <<>>, cut(text, timestamp_candidates(text)))

tokenize_text(text) == tokenize_timestamps(replace_addresses(sanitize(text)))

tokenize(item) == [sample |-> tokenize_text(item.sample),
                   values |-> [i \in DOMAIN item.values |-> tokenize_text(item.values[i])]]

-----------------------------------------------------------------------------
(* Compiling.                                                               *)

test_case_fits(item) ==
    item.values = <<>>
    \/ Len(item.values) = Cardinality({i \in DOMAIN item.sample : item.sample[i] = "CASE"})

\* The values in the order of the markers, each cleaned without the field it is
\* put behind.  With one token of a valid name; the values of several are
\* searched for the tokens that follow in the map.
expand_test_case(item) ==
    LET step(state, piece) ==
            IF item.values = <<>> \/ piece # "CASE" THEN [state EXCEPT !.result = Append(@, piece)]
            ELSE [used |-> state.used + 1,
                  result |-> state.result \o sanitize(item.values[state.used + 1])]
    IN  FoldLeft(step, [used |-> 0, result |-> <<>>], item.sample).result

compile_segments(text) ==
    LET all(marker, priority, kind) ==
            {Candidate(i, 1, priority, kind, "", <<marker>>) : i \in {j \in DOMAIN text : text[j] = marker}}
        parts == cut(text, timestamp_candidates(text)
                           \cup all("EMAIL", 100, "Privacy") \cup all("PERSON", 100, "Privacy")
                           \cup all("SRC_IP", 90, "SourceIp") \cup all("DST_IP", 90, "DestinationIp"))
    IN  [i \in DOMAIN parts |-> [kind |-> parts[i].kind, style |-> parts[i].style, text |-> parts[i].text]]

compile(item) == compile_segments(expand_test_case(tokenize(item)))

-----------------------------------------------------------------------------
(* A PreparedLog.                                                           *)

has(segments, kind) == \E i \in DOMAIN segments : segments[i].kind = kind
has_timestamp == has(log.segments, "Timestamp")
has_privacy == has(log.segments, "Privacy")
\* A segment counts one for its size.
cache_privacy_profiles == has_privacy /\ Len(log.segments) <= CacheLimit

\* What a segment becomes in an event.
Shown(segment, second, profile) ==
    [segment |-> segment,
     second |-> IF segment.kind = "Timestamp" THEN second ELSE 0,
     profile |-> IF segment.kind = "Privacy" THEN profile ELSE None]

Rendered(segments, second, profile) ==
    [i \in DOMAIN segments |-> Shown(segments[i], second, profile)]

\* The constructors and the copy of a PreparedLog, with initialize_cache.
PreparedLog(segments) ==
    [segments |-> segments,
     cached |-> IF has(segments, "Timestamp") \/ has(segments, "Privacy") THEN <<>>
                ELSE Rendered(segments, 0, None),
     cached_second |-> -1,
     cached_calendar_time |-> FALSE,
     timestamp_cache |-> [i \in DOMAIN segments |-> <<>>],
     privacy_cache |-> [k \in Profiles |-> [valid |-> FALSE, second |-> -1,
                                            calendar_time |-> FALSE, output |-> <<>>]]]

Init ==
    /\ template \in Templates /\ stored = template /\ rounds = 0
    /\ calendar \in BOOLEAN
    /\ ready = FALSE /\ log = None /\ event = None

(* The editor, a load or a save of the catalog stores the tokenized form.   *)
Tokenize ==
    /\ ~ready /\ rounds < MaxRounds
    /\ rounds' = rounds + 1
    /\ stored' = tokenize(stored)
    /\ UNCHANGED <<template, calendar, ready, log, event>>

Prepare ==
    /\ ~ready /\ test_case_fits(tokenize(stored))
    /\ ready' = TRUE
    /\ log' = PreparedLog(compile(stored))
    /\ UNCHANGED <<template, stored, rounds, calendar, event>>

Return(output, second, profile) ==
    event' = [output |-> output, second |-> second, profile |-> profile]

\* The caches as the guards of render() find them.
current(second) == log.cached_second = second /\ log.cached_calendar_time = calendar

\* Mutant: whatever the profile's cache holds is taken.
profile_current_always(second, profile) ==
    cache_privacy_profiles /\ log.privacy_cache[profile].valid

profile_current(second, profile) ==
    LET entry == log.privacy_cache[profile]
    IN  /\ cache_privacy_profiles /\ entry.valid
        /\ has_timestamp => entry.second = second /\ entry.calendar_time = calendar

RenderStatic ==
    /\ ready /\ ~has_timestamp /\ ~has_privacy
    /\ \E second \in Seconds : Return(log.cached, second, None)
    /\ UNCHANGED <<template, stored, rounds, calendar, ready, log>>

RenderCached(second) ==
    /\ ready /\ has_timestamp /\ ~has_privacy /\ current(second)
    /\ Return(log.cached, second, None)
    /\ UNCHANGED <<template, stored, rounds, calendar, ready, log>>

RenderProfile(second, profile) ==
    /\ ready /\ has_privacy /\ profile_current(second, profile)
    /\ Return(log.privacy_cache[profile].output, second, profile)
    /\ UNCHANGED <<template, stored, rounds, calendar, ready, log>>

\* The event made anew from a time stamp cache that is refreshed first when it
\* is behind; kept in the profile's cache or in cached_.
RenderAnew(second, profile) ==
    /\ ready
    /\ IF has_privacy THEN ~profile_current(second, profile)
                      ELSE has_timestamp /\ ~current(second) /\ profile = CHOOSE k \in Profiles : TRUE
    /\ LET now(i) == Shown(log.segments[i], second, None)
           stamps == IF has_privacy /\ has_timestamp /\ ~current(second)
                     THEN [i \in DOMAIN log.segments |->
                              IF log.segments[i].kind = "Timestamp" THEN now(i) ELSE <<>>]
                     ELSE log.timestamp_cache
           part(i) == IF log.segments[i].kind # "Timestamp" THEN Shown(log.segments[i], second, profile)
                      ELSE IF has_privacy THEN stamps[i] ELSE now(i)
           output == [i \in DOMAIN log.segments |-> part(i)]
           entry == [valid |-> TRUE, second |-> second, calendar_time |-> calendar, output |-> output]
       IN  /\ log' = [log EXCEPT !.timestamp_cache = stamps,
                                 !.cached_second = second,
                                 !.cached_calendar_time = calendar,
                                 !.cached = IF cache_privacy_profiles THEN @ ELSE output,
                                 !.privacy_cache[profile] = IF cache_privacy_profiles THEN entry ELSE @]
           /\ Return(output, second, profile)
    /\ UNCHANGED <<template, stored, rounds, calendar, ready>>

Next ==
    \/ Tokenize \/ Prepare \/ RenderStatic
    \/ \E second \in Seconds : RenderCached(second)
    \/ \E second \in Seconds, profile \in Profiles :
           RenderProfile(second, profile) \/ RenderAnew(second, profile)

Spec == Init /\ [][Next]_vars

-----------------------------------------------------------------------------
(* Time stamp tokens that the program itself could have written.            *)
WellFormed(text) ==
    \A i \in DOMAIN text : text[i] = "TS" =>
        \E e \in (i + 2)..Len(text) :
            /\ text[i + 1] \in Keys /\ text[e] = "end"
            /\ \A j \in (i + 2)..(e - 1) : text[j] \notin Closing \cup {"TS"}

\* Pieces that a segment holds as they were recorded.
Recorded(pieces) == {[kind |-> "Literal", style |-> "", text |-> <<piece>>] : piece \in pieces}

(* An event shows, for its second and its one profile, what the template
   means as its user wrote it: tokenizing it again at each load and save
   changes nothing (src/README.md:431), and no cache of render() is stale.    *)
RenderedFresh ==
    event # None /\ WellFormed(template.sample)
    /\ (\A i \in DOMAIN template.values : WellFormed(template.values[i]))
        => event.output = Rendered(compile(template), event.second, event.profile)

(* No recorded time, and no personal value that shows by its form, reaches an
   event as it was recorded, whatever tokens the text holds.  Nor does a value
   behind the name of its field, unless it begins with a token: the rest of
   that one, and what a test case puts behind a field, is sent as recorded.  *)
NothingRecordedSent ==
    event # None => \A i \in DOMAIN event.output :
        /\ event.output[i].segment \notin Recorded({"mail", "date"})
        /\ i > 1 /\ template.values = <<>> /\ event.output[i - 1].segment \in Recorded({"field"})
           => event.output[i].segment \notin Recorded(Pieces \ Unvalued)
=============================================================================
