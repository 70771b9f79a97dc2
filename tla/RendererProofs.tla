---------------------------- MODULE RendererProofs ----------------------------
(***************************************************************************)
(* Four things about rendering, for any values of the constants.             *)
(*                                                                          *)
(* - The caches of PreparedLog: what render() returns is what it would make *)
(*   anew (EventsFresh).                                                    *)
(* - The cache of compiled templates that the workers share (PrepCache).    *)
(* - Privacy: no event repeats a recorded date or personal value, whatever  *)
(*   the user wrote (RecordedCorrect).  Tokenizing and compiling are folds  *)
(*   over the text, so the proof goes by induction over its pieces.         *)
(* - Tokens: tokenizing a tokenized template again changes nothing, so an   *)
(*   event shows what the user wrote (FreshCorrect).                        *)
(***************************************************************************)
EXTENDS Renderer, PrepCache, SequenceTheorems, FiniteSetTheorems, WellFoundedInduction, TLAPS

(* The fields of the log and of its caches.                                 *)
Shape ==
    /\ log = [segments |-> log.segments, cached |-> log.cached,
              cached_second |-> log.cached_second,
              cached_calendar_time |-> log.cached_calendar_time,
              timestamp_cache |-> log.timestamp_cache,
              privacy_cache |-> log.privacy_cache]
    /\ log.privacy_cache = [k \in Profiles |-> log.privacy_cache[k]]

(* A cache in use holds what its second and its profile show.               *)
CachesFilled ==
    /\ ~has_privacy /\ (has_timestamp => log.cached_second \in Seconds) =>
           log.cached = Rendered(log.segments, log.cached_second, None)
    /\ has_privacy /\ log.cached_second \in Seconds =>
           \A i \in DOMAIN log.segments : log.segments[i].kind = "Timestamp" =>
               log.timestamp_cache[i] = Shown(log.segments[i], log.cached_second, None)
    /\ \A k \in Profiles : log.privacy_cache[k].valid =>
           log.privacy_cache[k].output = Rendered(log.segments, log.privacy_cache[k].second, k)

EventFresh ==
    event # None => event.output = Rendered(log.segments, event.second, event.profile)

IInv == /\ ready \in BOOLEAN
        /\ ~ready => event = None
        /\ ready => Shape /\ CachesFilled /\ EventFresh

-----------------------------------------------------------------------------
(* Without a time stamp the second does not show, without a personal value
   the profile does not.                                                     *)
LEMMA SecondHidden ==
    ASSUME NEW segments, ~has(segments, "Timestamp"), NEW s, NEW t, NEW k
    PROVE  Rendered(segments, s, k) = Rendered(segments, t, k)
BY DEF Rendered, Shown, has

LEMMA ProfileHidden ==
    ASSUME NEW segments, ~has(segments, "Privacy"), NEW s, NEW k, NEW l
    PROVE  Rendered(segments, s, k) = Rendered(segments, s, l)
BY DEF Rendered, Shown, has

LEMMA PrepareKeeps == ASSUME IInv, Prepare PROVE IInv'
<1> DEFINE segments == compile(stored)
<1>1. log' = PreparedLog(segments) /\ ready' = TRUE /\ event' = None
    BY DEF Prepare, IInv
<1>2. Shape'
    <2> HIDE DEF segments
    <2> QED BY <1>1 DEF Shape, PreparedLog
<1>3. CachesFilled'
    <2> HIDE DEF segments
    <2>1. log'.segments = segments /\ log'.cached_second = -1 /\ -1 \notin Seconds
        BY <1>1, RendererAssumption DEF PreparedLog
    <2>2. \A k \in Profiles : log'.privacy_cache[k].valid = FALSE
        BY <1>1 DEF PreparedLog
    <2>3. ASSUME ~has(segments, "Timestamp"), ~has(segments, "Privacy")
          PROVE  log'.cached = Rendered(segments, -1, None)
        BY <1>1, <2>3, SecondHidden DEF PreparedLog
    <2> QED BY <2>1, <2>2, <2>3 DEF CachesFilled, has_privacy, has_timestamp
<1> QED BY <1>1, <1>2, <1>3 DEF IInv, EventFresh

LEMMA CachedKeeps ==
    ASSUME IInv, NEW s, NEW k,
           RenderStatic \/ (s \in Seconds /\ RenderCached(s)) \/ (k \in Profiles /\ RenderProfile(s, k))
    PROVE  IInv'
<1>1. ready /\ ready' = ready /\ log' = log /\ Shape /\ CachesFilled
    BY DEF RenderStatic, RenderCached, RenderProfile, IInv
<1>2. Shape' /\ CachesFilled'
    BY <1>1 DEF Shape, CachesFilled, has_privacy, has_timestamp
<1>3. EventFresh'
    <2>1. CASE RenderStatic
        <3>1. PICK t \in Seconds : Return(log.cached, t, None)
            BY <2>1 DEF RenderStatic
        <3>2. log.cached = Rendered(log.segments, log.cached_second, None)
              /\ ~has(log.segments, "Timestamp")
            BY <1>1, <2>1 DEF RenderStatic, CachesFilled, has_timestamp
        <3> QED BY <1>1, <3>1, <3>2, SecondHidden DEF EventFresh, Return
    <2>2. CASE s \in Seconds /\ RenderCached(s)
        BY <1>1, <2>2 DEF RenderCached, CachesFilled, current, EventFresh, Return
    <2>3. CASE k \in Profiles /\ RenderProfile(s, k)
        <3>1. log.privacy_cache[k].output = Rendered(log.segments, log.privacy_cache[k].second, k)
            BY <1>1, <2>3 DEF RenderProfile, profile_current, CachesFilled
        <3>2. has_timestamp => log.privacy_cache[k].second = s
            BY <2>3 DEF RenderProfile, profile_current
        <3>3. log.privacy_cache[k].output = Rendered(log.segments, s, k)
            BY <3>1, <3>2, SecondHidden DEF has_timestamp
        <3> QED BY <1>1, <2>3, <3>3 DEF RenderProfile, EventFresh, Return
    <2> QED BY <2>1, <2>2, <2>3
<1> QED BY <1>1, <1>2, <1>3 DEF IInv

LEMMA AnewKeeps ==
    ASSUME IInv, NEW s \in Seconds, NEW k \in Profiles, RenderAnew(s, k)
    PROVE  IInv'
<1> DEFINE now(i) == Shown(log.segments[i], s, None)
           stamps == IF has_privacy /\ has_timestamp /\ ~current(s)
                     THEN [i \in DOMAIN log.segments |->
                              IF log.segments[i].kind = "Timestamp" THEN now(i) ELSE <<>>]
                     ELSE log.timestamp_cache
           part(i) == IF log.segments[i].kind # "Timestamp" THEN Shown(log.segments[i], s, k)
                      ELSE IF has_privacy THEN stamps[i] ELSE now(i)
           output == [i \in DOMAIN log.segments |-> part(i)]
           entry == [valid |-> TRUE, second |-> s, calendar_time |-> calendar, output |-> output]
<1>0. ready /\ Shape /\ CachesFilled /\ ready' = ready
    BY DEF RenderAnew, IInv
<1>1. /\ log' = [log EXCEPT !.timestamp_cache = stamps,
                            !.cached_second = s,
                            !.cached_calendar_time = calendar,
                            !.cached = IF cache_privacy_profiles THEN @ ELSE output,
                            !.privacy_cache[k] = IF cache_privacy_profiles THEN entry ELSE @]
      /\ Return(output, s, k)
    BY DEF RenderAnew
\* The time stamps are those of the second.
<1>2. ASSUME NEW i \in DOMAIN log.segments, log.segments[i].kind = "Timestamp", has_privacy
      PROVE  stamps[i] = now(i)
    <2>1. has_timestamp
        BY <1>2 DEF has_timestamp, has
    <2>2. CASE current(s)
        <3>1. stamps = log.timestamp_cache /\ log.cached_second = s
            BY <2>2 DEF current
        <3> QED BY <1>0, <1>2, <3>1 DEF CachesFilled
    <2>3. CASE ~current(s)
        BY <1>2, <2>1, <2>3
    <2> QED BY <2>2, <2>3
<1>3. output = Rendered(log.segments, s, k)
    <2>1. ASSUME NEW i \in DOMAIN log.segments
          PROVE  part(i) = Shown(log.segments[i], s, k)
        <3>1. CASE log.segments[i].kind # "Timestamp"
            BY <3>1
        <3>2. CASE log.segments[i].kind = "Timestamp"
            <4>1. now(i) = Shown(log.segments[i], s, k)
                BY <3>2 DEF Shown
            <4>2. CASE has_privacy
                <5>1. stamps[i] = now(i)
                    BY <1>2, <3>2, <4>2
                <5> HIDE DEF stamps, now
                <5>2. part(i) = stamps[i]
                    BY <3>2, <4>2
                <5> QED BY <4>1, <5>1, <5>2
            <4>3. CASE ~has_privacy
                <5> HIDE DEF stamps, now
                <5>1. part(i) = now(i)
                    BY <3>2, <4>3
                <5> QED BY <4>1, <5>1
            <4> QED BY <4>2, <4>3
        <3> QED BY <3>1, <3>2
    <2> QED BY <2>1 DEF Rendered
<1> HIDE DEF output, stamps
<1>4. /\ log'.segments = log.segments /\ log'.cached_second = s
      /\ log'.timestamp_cache = stamps
      /\ log'.cached = IF cache_privacy_profiles THEN log.cached ELSE output
      /\ log'.privacy_cache = [log.privacy_cache EXCEPT ![k] =
                                  IF cache_privacy_profiles THEN entry ELSE @]
    BY <1>0, <1>1 DEF Shape
<1>5. Shape'
    BY <1>0, <1>1, <1>4 DEF Shape
<1>6. CachesFilled'
    <2>1. has_privacy' = has_privacy /\ has_timestamp' = has_timestamp
        BY <1>4 DEF has_privacy, has_timestamp
    <2>2. ~has_privacy => log'.cached = Rendered(log.segments, s, None)
        <3>1. ~has_privacy => ~cache_privacy_profiles
            BY DEF cache_privacy_profiles
        <3> QED BY <1>3, <1>4, <3>1, ProfileHidden DEF has_privacy
    <2>3. \A i \in DOMAIN log.segments : log.segments[i].kind = "Timestamp" /\ has_privacy =>
              log'.timestamp_cache[i] = Shown(log.segments[i], s, None)
        BY <1>2, <1>4
    <2>4. ASSUME NEW l \in Profiles, log'.privacy_cache[l].valid
          PROVE  log'.privacy_cache[l].output
                     = Rendered(log.segments, log'.privacy_cache[l].second, l)
        <3>1. CASE l = k /\ cache_privacy_profiles
            BY <1>0, <1>3, <1>4, <3>1 DEF Shape
        <3>2. CASE ~(l = k /\ cache_privacy_profiles)
            <4>1. log'.privacy_cache[l] = log.privacy_cache[l]
                BY <1>0, <1>4, <3>2 DEF Shape
            <4> QED BY <1>0, <2>4, <4>1 DEF CachesFilled
        <3> QED BY <3>1, <3>2
    <2> QED BY <1>4, <2>1, <2>2, <2>3, <2>4 DEF CachesFilled
<1>7. EventFresh'
    BY <1>1, <1>3, <1>4 DEF EventFresh, Return
<1> QED BY <1>0, <1>5, <1>6, <1>7 DEF IInv

-----------------------------------------------------------------------------
(* The invariant holds at first and after every step.                       *)
THEOREM Inductive == Spec => []IInv
<1>1. Init => IInv
    BY DEF Init, IInv
<1>2. IInv /\ [Next]_vars => IInv'
    <2> SUFFICES ASSUME IInv, [Next]_vars PROVE IInv'
        OBVIOUS
    <2>1. CASE UNCHANGED vars \/ Tokenize
        BY <2>1 DEF vars, Tokenize, IInv, Shape, CachesFilled, EventFresh,
                    has_privacy, has_timestamp
    <2>2. CASE Prepare
        BY <2>2, PrepareKeeps
    <2>3. CASE RenderStatic
        BY <2>3, CachedKeeps
    <2>4. ASSUME NEW s \in Seconds, RenderCached(s)
          PROVE  IInv'
        BY <2>4, CachedKeeps
    <2>5. ASSUME NEW s \in Seconds, NEW k \in Profiles, RenderProfile(s, k) \/ RenderAnew(s, k)
          PROVE  IInv'
        BY <2>5, CachedKeeps, AnewKeeps
    <2> QED BY <2>1, <2>2, <2>3, <2>4, <2>5 DEF Next
<1> QED BY <1>1, <1>2, PTL DEF Spec

(* Whichever of its caches render() takes, the event is what rendering the
   log's segments anew for that second and that profile would give.          *)
THEOREM EventsFresh == Spec => [](ready => EventFresh)
<1>1. IInv => (ready => EventFresh)
    BY DEF IInv
<1> QED BY <1>1, Inductive, PTL
-----------------------------------------------------------------------------
(* Natural numbers.                                                         *)

(* A set of natural numbers has a least one, which is Min.                  *)
LEMMA LeastNumber ==
    ASSUME NEW T \in SUBSET Nat, T # {}
    PROVE  Min(T) \in T /\ \A k \in T : Min(T) <= k
<1>1. PICK m \in T : \A k \in T : ~(<<k, m>> \in OpToRel(<, Nat))
    BY NatLessThanWellFounded, WFMin
<1>2. \A k \in T : ~(k < m)
    BY <1>1 DEF OpToRel
<1>3. \A k \in T : m <= k
    BY <1>2
<1> QED BY <1>3 DEF Min

(* What holds of 0 and of each successor holds of every natural number.     *)
LEMMA Naturals ==
    ASSUME NEW T, 0 \in T, \A n \in Nat : n \in T => n + 1 \in T
    PROVE  Nat \subseteq T
<1> SUFFICES ASSUME Nat \ T # {} PROVE FALSE
    OBVIOUS
<1> DEFINE m == Min(Nat \ T)
<1>1. m \in Nat \ T /\ \A k \in Nat \ T : m <= k
    BY LeastNumber
<1> HIDE DEF m
<1>2. m # 0 /\ m - 1 \in Nat
    BY <1>1
<1>3. m - 1 \in T
    BY <1>1, <1>2
<1> QED BY <1>1, <1>2, <1>3

(* A bounded set of natural numbers has a largest one, which is Max.        *)
LEMMA LargestNumber ==
    ASSUME NEW T \in SUBSET Nat, T # {}, NEW bound \in Nat, \A k \in T : k <= bound
    PROVE  Max(T) \in T /\ \A k \in T : Max(T) >= k
<1> DEFINE gaps == {bound - k : k \in T}
           g == Min(gaps)
<1>0. \A k \in T : k \in Nat /\ bound - k \in Nat
    OBVIOUS
<1>1. gaps \in SUBSET Nat /\ gaps # {}
    BY <1>0
<1>2. g \in gaps /\ \A h \in gaps : g <= h
    <2> HIDE DEF gaps
    <2> QED BY <1>1, LeastNumber
<1> HIDE DEF g
<1>3. PICK m \in T : g = bound - m
    BY <1>2
<1>4. ASSUME NEW k \in T
      PROVE  m >= k
    <2>1. g <= bound - k
        BY <1>2
    <2> QED BY <1>0, <1>3, <2>1
<1> QED BY <1>3, <1>4 DEF Max

(* Without its largest member a set of numbers ends one earlier.             *)
LEMMA Removed ==
    ASSUME NEW k \in Nat, NEW s \in SUBSET (1..(k + 1)), s # {}
    PROVE  Max(s) \in s /\ s \ {Max(s)} \in SUBSET (1..k)
<1> DEFINE m == Max(s)
<1>1. s \in SUBSET Nat /\ k + 1 \in Nat /\ \A i \in s : i <= k + 1
    OBVIOUS
<1>2. m \in s /\ \A i \in s : m >= i
    BY <1>1, LargestNumber
<1> HIDE DEF m
<1>3. ASSUME NEW i \in s \ {m}
      PROVE  i \in 1..k
    <2>1. i \in Nat /\ i >= 1 /\ i <= m /\ i # m /\ m <= k + 1
        BY <1>1, <1>2
    <2>2. m \in Nat
        BY <1>1, <1>2
    <2> QED BY <2>1, <2>2
<1>4. m \in s /\ s \ {m} \in SUBSET (1..k)
    BY <1>2, <1>3
<1> QED BY <1>4 DEF m

(* The largest member of numbers up to n, and the others.                   *)
LEMMA LargestMember ==
    ASSUME NEW n \in Nat, NEW s \in SUBSET (1..n), s # {}
    PROVE  Max(s) \in 1..n /\ Max(s) \in s /\ s \ {Max(s)} \in SUBSET (1..n)
<1>1. s \in SUBSET Nat /\ \A i \in s : i <= n
    OBVIOUS
<1>2. Max(s) \in s
    BY <1>1, LargestNumber
<1> QED BY <1>2

(* The numbers up to k and up to the one before it.                          *)
LEMMA Longest ==
    ASSUME NEW k \in Nat, k # 0
    PROVE  1..k # {} /\ Max(1..k) = k /\ (1..k) \ {k} = 1..(k - 1)
<1> DEFINE s == 1..k
           m == Max(s)
<1>1. s \in SUBSET Nat /\ s # {} /\ k \in s /\ \A i \in s : i <= k
    OBVIOUS
<1>2. m \in s /\ \A i \in s : m >= i
    <2> HIDE DEF s
    <2> QED BY <1>1, LargestNumber
<1>3. (1..k) \ {k} = 1..(k - 1)
    OBVIOUS
<1> HIDE DEF m
<1>4. m = k
    BY <1>1, <1>2
<1> QED BY <1>1, <1>3, <1>4 DEF m

-----------------------------------------------------------------------------
(* Folds: functions that step through the subsets of 1..n.                   *)

Stepped(g, s, base, step) ==
    g[s] = IF s = {} THEN base ELSE step[<<Max(s), g[s \ {Max(s)}]>>]
Solves(g, k, base, step) == \A s \in SUBSET (1..k) : Stepped(g, s, base, step)

(* The recursive functions that step through the subsets of 1..n exist: this
   one has the values that a step given as a function yields.               *)
LEMMA FoldExists ==
    ASSUME NEW n \in Nat, NEW V, NEW base \in V, NEW step \in [(1..n) \X V -> V]
    PROVE  \E g \in [SUBSET (1..n) -> V] : Solves(g, n, base, step)
<1> DEFINE Found(k) == \E g \in [SUBSET (1..n) -> V] : Solves(g, k, base, step)
           T == {k \in Nat : k <= n => Found(k)}
<1>1. 0 \in T
    <2> DEFINE g == [s \in SUBSET (1..n) |-> base]
    <2>1. Solves(g, 0, base, step) /\ g \in [SUBSET (1..n) -> V]
        BY DEF Solves, Stepped
    <2> QED BY <2>1
<1> HIDE DEF Found
<1>2. ASSUME NEW k \in Nat, k \in T, k + 1 <= n
      PROVE  Found(k + 1)
    <2>0. Found(k)
        BY <1>2
    <2>1. PICK g \in [SUBSET (1..n) -> V] : Solves(g, k, base, step)
        BY <2>0 DEF Found
    <2> DEFINE h == [s \in SUBSET (1..n) |->
                        IF s \in SUBSET (1..k) THEN g[s] ELSE IF Max(s) \in 1..n
                        THEN step[<<Max(s), g[s \ {Max(s)}]>>] ELSE base]
    <2>2. h \in [SUBSET (1..n) -> V]
        OBVIOUS
    <2>3. ASSUME NEW s \in SUBSET (1..(k + 1)), s # {}
          PROVE  Max(s) \in s /\ Max(s) \in 1..n /\ s \ {Max(s)} \in SUBSET (1..k)
        <3>1. Max(s) \in s /\ s \ {Max(s)} \in SUBSET (1..k)
            BY <2>3, Removed
        <3>2. Max(s) \in 1..(k + 1)
            BY <3>1
        <3>3. 1..(k + 1) \subseteq 1..n
            BY <1>2
        <3> QED BY <3>1, <3>2, <3>3
    <2>4. ASSUME NEW s \in SUBSET (1..(k + 1))
          PROVE  Stepped(h, s, base, step)
        <3>0. s \in SUBSET (1..n)
            BY <1>2
        <3>1. CASE s = {}
            <4>1. h[s] = g[s] /\ g[s] = base
                BY <2>1, <3>1 DEF Solves, Stepped
            <4> QED BY <3>1, <4>1 DEF Stepped
        <3>2. CASE s # {}
            <4>1. Max(s) \in 1..n /\ s \ {Max(s)} \in SUBSET (1..k) /\ s \ {Max(s)} \in SUBSET (1..n)
                BY <1>2, <2>3, <3>2
            <4>2. h[s \ {Max(s)}] = g[s \ {Max(s)}]
                BY <4>1
            <4>3. h[s] = step[<<Max(s), g[s \ {Max(s)}]>>]
                <5>1. CASE s \in SUBSET (1..k)
                    BY <2>1, <3>0, <3>2, <5>1 DEF Solves, Stepped
                <5>2. CASE s \notin SUBSET (1..k)
                    BY <3>0, <4>1, <5>2
                <5> QED BY <5>1, <5>2
            <4> HIDE DEF h
            <4> QED BY <3>2, <4>2, <4>3 DEF Stepped
        <3> QED BY <3>1, <3>2
    <2>5. Solves(h, k + 1, base, step)
        BY <2>4 DEF Solves
    <2> HIDE DEF h
    <2> QED BY <2>2, <2>5 DEF Found
<1>3. \A k \in Nat : k \in T => k + 1 \in T
    BY <1>2
<1>4. n \in T
    <2> HIDE DEF T
    <2> QED BY <1>1, <1>3, Naturals
<1>5. Found(n)
    BY <1>4
<1> QED BY <1>5 DEF Found

(* What holds of the value for a set if it does without the largest member.  *)
LEMMA FoldInvariant ==
    ASSUME NEW n \in Nat, NEW h, NEW I,
           \A s \in SUBSET (1..n) :
               s = {} \/ h[s \ {Max(s)}] \in I[s \ {Max(s)}] => h[s] \in I[s]
    PROVE  \A s \in SUBSET (1..n) : h[s] \in I[s]
<1> DEFINE Good(s) == h[s] \in I[s]
           T == {k \in Nat : \A s \in SUBSET (1..n) : s \subseteq 1..k => Good(s)}
<1>0. \A s \in SUBSET (1..n) : s = {} \/ Good(s \ {Max(s)}) => Good(s)
    OBVIOUS
<1> HIDE DEF Good
<1>1. 0 \in T
    <2>1. ASSUME NEW s \in SUBSET (1..n), s \subseteq 1..0
          PROVE  Good(s)
        <3>1. s = {}
            BY <2>1
        <3> QED BY <1>0, <3>1
    <2> QED BY <2>1
<1>2. ASSUME NEW k \in Nat, k \in T
      PROVE  k + 1 \in T
    <2>1. ASSUME NEW s \in SUBSET (1..n), s \subseteq 1..(k + 1)
          PROVE  Good(s)
        <3>1. CASE s = {}
            BY <1>0, <3>1
        <3>2. CASE s # {}
            <4>1. s \ {Max(s)} \in SUBSET (1..k)
                BY <2>1, <3>2, Removed
            <4>2. Good(s \ {Max(s)})
                BY <1>2, <4>1
            <4> QED BY <1>0, <4>2
        <3> QED BY <3>1, <3>2
    <2> QED BY <2>1
<1>3. n \in T
    <2> HIDE DEF T
    <2> QED BY <1>1, <1>2, Naturals
<1> QED BY <1>3 DEF Good

(* A fold over a set of places has a value in V at each subset of them, and
   keeps what the base has and each step passes on.                          *)
LEMMA FoldIn ==
    ASSUME NEW n \in Nat, NEW V, NEW base \in V, NEW step \in [(1..n) \X V -> V],
           NEW I, base \in I[{}],
           \A s \in SUBSET (1..n) : s # {} =>
               \A v \in I[s \ {Max(s)}] : step[<<Max(s), v>>] \in I[s]
    PROVE  \E g \in [SUBSET (1..n) -> V] :
               Solves(g, n, base, step) /\ \A s \in SUBSET (1..n) : g[s] \in I[s]
<1>1. PICK g \in [SUBSET (1..n) -> V] : Solves(g, n, base, step)
    BY FoldExists
<1>2. ASSUME NEW s \in SUBSET (1..n), s = {} \/ g[s \ {Max(s)}] \in I[s \ {Max(s)}]
      PROVE  g[s] \in I[s]
    <2>1. CASE s = {}
        BY <1>1, <2>1 DEF Solves, Stepped
    <2>2. CASE s # {}
        BY <1>1, <1>2, <2>2 DEF Solves, Stepped
    <2> QED BY <2>1, <2>2
<1>3. \A s \in SUBSET (1..n) : g[s] \in I[s]
    BY <1>2, FoldInvariant
<1> QED BY <1>1, <1>3


-----------------------------------------------------------------------------
(* What tokenizing yields holds no personal value.                          *)

Clean == Pieces \ {"mail"}
Kinds == {"Timestamp", "Privacy", "SourceIp", "DestinationIp"}

(* Candidates in a text of n pieces, and those for a time stamp.             *)
Candidates(n) ==
    {c \in [position : 1..n, length : 1..n, priority : {-100, 0, 11, 90, 100}, kind : Kinds,
            style : Keys \cup {""}, text : Seq(Pieces)] : c.position + c.length - 1 <= n}
Stamps(n) == {c \in Candidates(n) : c.kind = "Timestamp" /\ c.style \in Keys}

LEMMA CandidateType ==
    ASSUME NEW n \in Nat, NEW c \in Candidates(n)
    PROVE  /\ c.position \in 1..n /\ c.length \in 1..n /\ c.position + c.length - 1 <= n
           /\ c.priority \in {-100, 0, 11, 90, 100} /\ c.kind \in Kinds
BY DEF Candidates

LEMMA CleanPieces ==
    /\ Clean \subseteq Pieces /\ Keys \subseteq Clean /\ Markers \subseteq Clean
    /\ {"TS", "end"} \subseteq Clean /\ {"date", "clock"} \subseteq Pieces
BY DEF Clean, Pieces, Separators, Unvalued, Closing, Keys, Markers

LEMMA SanitizeCleans ==
    ASSUME NEW text \in Seq(Pieces)
    PROVE  sanitize(text) \in Seq(Clean)
<1> DEFINE other(i) == IF sensitive(text, i) THEN "PERSON"
                       ELSE IF text[i] = "mail" THEN "EMAIL" ELSE text[i]
<1>1. Len(text) \in Nat /\ DOMAIN text = 1..Len(text) /\ \A i \in 1..Len(text) : text[i] \in Pieces
    OBVIOUS
<1>2. \A i \in 1..Len(text) : other(i) \in Clean
    <2>1. "PERSON" \in Clean /\ "EMAIL" \in Clean
        BY CleanPieces DEF Markers
    <2> QED BY <1>1, <2>1 DEF Clean
<1>3. sanitize(text) = [i \in 1..Len(text) |-> other(i)]
    BY <1>1 DEF sanitize
<1> HIDE DEF other
<1>4. sanitize(text) \in [1..Len(text) -> Clean]
    BY <1>2, <1>3
<1> QED BY <1>1, <1>4, SeqDef

LEMMA CaptureClean ==
    ASSUME NEW text \in Seq(Clean), NEW before, NEW after, NEW marker \in Markers
    PROVE  replace_capture(text, before, after, marker) \in Seq(Clean)
<1> DEFINE here(i) == /\ text[i] = "ip"
                      /\ IsSuffix(before, SubSeq(text, 1, i - 1))
                      /\ IsPrefix(after, SubSeq(text, i + 1, Len(text)))
<1>1. Len(text) \in Nat /\ DOMAIN text = 1..Len(text) /\ \A i \in 1..Len(text) : text[i] \in Clean
    OBVIOUS
<1>2. replace_capture(text, before, after, marker)
          = [i \in 1..Len(text) |-> IF here(i) THEN marker ELSE text[i]]
    BY <1>1 DEF replace_capture
<1> HIDE DEF here
<1>3. \A i \in 1..Len(text) : (IF here(i) THEN marker ELSE text[i]) \in Clean
    BY <1>1, CleanPieces
<1>4. replace_capture(text, before, after, marker) \in [1..Len(text) -> Clean]
    BY <1>2, <1>3
<1> QED BY <1>1, <1>4, SeqDef

LEMMA AddressesClean ==
    ASSUME NEW text \in Seq(Clean)
    PROVE  replace_addresses(text) \in Seq(Clean)
<1> DEFINE one == replace_capture(text, <<"src">>, <<>>, "SRC_IP")
           two == replace_capture(one, <<"dst">>, <<>>, "DST_IP")
           three == replace_capture(two, <<>>, <<"port", "arrow">>, "SRC_IP")
<1>0. "SRC_IP" \in Markers /\ "DST_IP" \in Markers
    BY DEF Markers
<1>1. one \in Seq(Clean)
    BY <1>0, CaptureClean
<1> HIDE DEF one
<1>2. two \in Seq(Clean)
    BY <1>0, <1>1, CaptureClean
<1> HIDE DEF two
<1>3. three \in Seq(Clean)
    BY <1>0, <1>2, CaptureClean
<1> HIDE DEF three
<1>4. replace_capture(three, <<"arrow">>, <<>>, "DST_IP") \in Seq(Clean)
    BY <1>0, <1>3, CaptureClean
<1> QED BY <1>4 DEF replace_addresses, one, two, three

(* The first piece of a set from a place on.                                *)
First(text, from, S) ==
    LET I == {j \in from..Len(text) : text[j] \in S} IN IF I # {} THEN Min(I) ELSE 0

LEMMA FirstIn ==
    ASSUME NEW text, Len(text) \in Nat, NEW from \in Nat, NEW S
    PROVE  First(text, from, S) \in {0} \cup from..Len(text)
<1> DEFINE I == {j \in from..Len(text) : text[j] \in S}
<1>1. I \in SUBSET Nat /\ I \subseteq from..Len(text)
    OBVIOUS
<1>2. I # {} => Min(I) \in I
    <2> HIDE DEF I
    <2> QED BY <1>1, LeastNumber
<1> QED BY <1>1, <1>2 DEF First

LEMMA MarkerEndIs ==
    ASSUME NEW text, NEW i
    PROVE  marker_end(text, i) =
               IF First(text, i + 1, Separators) = 0 THEN 0
               ELSE First(text, First(text, i + 1, Separators) + 1, Closing)
BY DEF marker_end, SelectInSubSeq, First

LEMMA MarkerEndIn ==
    ASSUME NEW text, Len(text) \in Nat, NEW i \in Nat, marker_end(text, i) # 0
    PROVE  marker_end(text, i) \in (i + 2)..Len(text)
<1> DEFINE s == First(text, i + 1, Separators)
           e == First(text, s + 1, Closing)
<1>1. s \in {0} \cup (i + 1)..Len(text) /\ s # 0
    BY FirstIn, MarkerEndIs
<1> HIDE DEF s
<1>2. s \in Nat /\ s >= i + 1
    BY <1>1
<1>3. e \in {0} \cup (s + 1)..Len(text)
    BY <1>2, FirstIn
<1>4. marker_end(text, i) = e /\ e # 0
    BY <1>1, MarkerEndIs DEF s
<1> HIDE DEF e
<1> QED BY <1>2, <1>3, <1>4

-----------------------------------------------------------------------------
(* Markers of a time stamp.                                                 *)

Stamp(text, i, e) ==
    Candidate(i, e - i + 1, -100, "Timestamp", text[i + 1],
              SubSeq(text, i + 2, IF text[e] = "end" THEN e - 1 ELSE e))

Scanned(text, state, i) ==
    IF i < state.next \/ text[i] # "TS" \/ marker_end(text, i) = 0 THEN state
    ELSE [next |-> marker_end(text, i) + 1,
          found |-> IF text[i + 1] \notin Keys THEN state.found
                    ELSE state.found \cup {Stamp(text, i, marker_end(text, i))}]

Indices(text) == [i \in DOMAIN text |-> i]

ScanBody(g, text, s) ==
    IF s = {} THEN [next |-> 1, found |-> {}]
    ELSE LET x == Max(s) IN Scanned(text, g[s \ {x}], Indices(text)[x])
ScanFold(text) ==
    CHOOSE g : g = [s \in SUBSET DOMAIN Indices(text) |-> ScanBody(g, text, s)]

LEMMA MarkersAre ==
    ASSUME NEW text
    PROVE  timestamp_markers(text) = ScanFold(text)[DOMAIN Indices(text)].found
BY DEF timestamp_markers, FoldLeftDomain, FoldLeft, MapThenFoldSet, ScanFold, ScanBody,
       Scanned, Stamp, Indices

LEMMA CandidateIn ==
    ASSUME NEW n \in Nat, NEW p \in 1..n, NEW l \in 1..n, p + l - 1 <= n,
           NEW priority \in {-100, 0, 11, 90, 100}, NEW kind \in Kinds,
           NEW style \in Keys \cup {""}, NEW text \in Seq(Pieces)
    PROVE  /\ Candidate(p, l, priority, kind, style, text) \in Candidates(n)
           /\ kind = "Timestamp" /\ style \in Keys =>
                  Candidate(p, l, priority, kind, style, text) \in Stamps(n)
BY DEF Candidate, Stamps, Candidates

LEMMA StampIn ==
    ASSUME NEW text \in Seq(Pieces), NEW i \in 1..Len(text), NEW e \in (i + 2)..Len(text),
           text[i + 1] \in Keys
    PROVE  Stamp(text, i, e) \in Stamps(Len(text))
<1> DEFINE n == Len(text)
           last == IF text[e] = "end" THEN e - 1 ELSE e
           value == SubSeq(text, i + 2, last)
<1>1. n \in Nat /\ i \in Nat /\ e \in Nat /\ i >= 1 /\ e >= i + 2 /\ e <= n
      /\ \A j \in 1..n : text[j] \in Pieces
    OBVIOUS
<1>2. value \in Seq(Pieces)
    <2>1. last \in Int /\ last <= n /\ i + 2 \in Int
        BY <1>1
    <2> HIDE DEF last
    <2>2. \A j \in (i + 2)..last : text[j] \in Pieces
        BY <1>1, <2>1
    <2> QED BY <2>1, <2>2, SubSeqProperties
<1> HIDE DEF value, n
<1>3. i \in 1..n /\ e - i + 1 \in 1..n /\ i + (e - i + 1) - 1 <= n
    BY <1>1
<1>4. -100 \in {-100, 0, 11, 90, 100} /\ "Timestamp" \in Kinds
    BY DEF Kinds
<1> DEFINE length == e - i + 1
           key == text[i + 1]
<1>5. Stamp(text, i, e) = Candidate(i, length, -100, "Timestamp", key, value)
    BY DEF Stamp, value
<1>6. length \in 1..n /\ i + length - 1 <= n /\ key \in Keys
    BY <1>3
<1> HIDE DEF length, key
<1> DEFINE low == -100
           kind == "Timestamp"
<1>7. low \in {-100, 0, 11, 90, 100} /\ kind \in Kinds /\ kind = "Timestamp"
      /\ Stamp(text, i, e) = Candidate(i, length, low, kind, key, value)
    BY <1>4, <1>5
<1> HIDE DEF low, kind
<1>8. Candidate(i, length, low, kind, key, value) \in Stamps(n)
    BY <1>2, <1>3, <1>6, <1>7 DEF Candidate, Stamps, Candidates
<1> QED BY <1>7, <1>8 DEF n

LEMMA ScannedIn ==
    ASSUME NEW text \in Seq(Pieces), NEW i \in 1..Len(text),
           NEW v \in [next : Nat, found : SUBSET Stamps(Len(text))]
    PROVE  Scanned(text, v, i) \in [next : Nat, found : SUBSET Stamps(Len(text))]
<1> DEFINE e == marker_end(text, i)
           new == Stamp(text, i, e)
<1>1. CASE i < v.next \/ text[i] # "TS" \/ e = 0
    BY <1>1 DEF Scanned
<1>2. CASE ~(i < v.next \/ text[i] # "TS" \/ e = 0)
    <2>1. Len(text) \in Nat /\ i \in Nat
        OBVIOUS
    <2>2. e \in (i + 2)..Len(text)
        BY <1>2, <2>1, MarkerEndIn
    <2>3. Scanned(text, v, i) = [next |-> e + 1, found |-> IF text[i + 1] \notin Keys THEN v.found
                                                          ELSE v.found \cup {new}]
        BY <1>2 DEF Scanned
    <2> HIDE DEF e
    <2>4. text[i + 1] \in Keys => new \in Stamps(Len(text))
        BY <2>2, StampIn
    <2>5. e + 1 \in Nat
        BY <2>1, <2>2
    <2> HIDE DEF new
    <2> QED BY <2>3, <2>4, <2>5
<1> QED BY <1>1, <1>2

(* The fold of timestamp_markers, step by step.                             *)
Scans(f, text) ==
    /\ f[0] = [next |-> 1, found |-> {}]
    /\ \A k \in 1..Len(text) : f[k] = Scanned(text, f[k - 1], k)

LEMMA ScanWalk ==
    ASSUME NEW text \in Seq(Pieces)
    PROVE  \E f : Scans(f, text) /\ timestamp_markers(text) = f[Len(text)].found
<1> DEFINE n == Len(text)
           V == [next : Nat, found : SUBSET Stamps(n)]
           base == [next |-> 1, found |-> {}]
           step == [p \in (1..n) \X V |-> Scanned(text, p[2], p[1])]
           h == ScanFold(text)
<1>1. n \in Nat /\ DOMAIN text = 1..n /\ Indices(text) = [i \in 1..n |-> i]
    BY DEF Indices
<1>2. base \in V
    OBVIOUS
<1>3. \A i \in 1..n : \A v \in V : Scanned(text, v, i) \in V
    BY ScannedIn
<1> HIDE DEF V, base, n
<1>4. step \in [(1..n) \X V -> V]
    BY <1>3
<1>5. \E g \in [SUBSET (1..n) -> V] : Solves(g, n, base, step)
    <2> HIDE DEF step
    <2> QED BY <1>1, <1>2, <1>4, FoldExists
<1>6. PICK g \in [SUBSET (1..n) -> V] : Solves(g, n, base, step)
    BY <1>5
<1>7. ASSUME NEW s \in SUBSET (1..n)
      PROVE  g[s] = ScanBody(g, text, s)
    <2>1. CASE s = {}
        BY <1>6, <2>1 DEF Solves, Stepped, ScanBody, base
    <2>2. CASE s # {}
        <3> DEFINE x == Max(s)
        <3>1. x \in 1..n /\ s \ {x} \in SUBSET (1..n)
            BY <1>1, <2>2, LargestMember
        <3> HIDE DEF x
        <3>2. g[s] = step[<<x, g[s \ {x}]>>]
            BY <1>6, <2>2 DEF Solves, Stepped, x
        <3>3. step[<<x, g[s \ {x}]>>] = Scanned(text, g[s \ {x}], x)
            BY <3>1
        <3>4. Indices(text)[x] = x
            BY <1>1, <3>1
        <3> HIDE DEF step
        <3> QED BY <2>2, <3>2, <3>3, <3>4 DEF ScanBody, x
    <2> QED BY <2>1, <2>2
<1>8. h = [s \in SUBSET (1..n) |-> ScanBody(h, text, s)]
    <2>1. g = [s \in SUBSET DOMAIN Indices(text) |-> ScanBody(g, text, s)]
        BY <1>1, <1>7
    <2>2. h = [s \in SUBSET DOMAIN Indices(text) |-> ScanBody(h, text, s)]
        BY <2>1 DEF ScanFold
    <2> QED BY <1>1, <2>2
<1> HIDE DEF h
<1> DEFINE f == [k \in 0..n |-> h[1..k]]
<1>9. f[0] = base
    BY <1>1, <1>8 DEF ScanBody, base
<1>10. ASSUME NEW k \in 1..n
       PROVE  f[k] = Scanned(text, f[k - 1], k)
    <2>1. k \in Nat /\ k # 0 /\ k - 1 \in 0..n /\ k \in 0..n /\ 1..k \in SUBSET (1..n)
        BY <1>1
    <2>2. 1..k # {} /\ Max(1..k) = k /\ (1..k) \ {k} = 1..(k - 1)
        BY <2>1, Longest
    <2>3. h[1..k] = ScanBody(h, text, 1..k)
        BY <1>8, <2>1
    <2> QED BY <1>1, <2>1, <2>2, <2>3 DEF ScanBody
<1>11. f[n] = h[1..n]
    BY <1>1
<1> HIDE DEF f
<1>12. Scans(f, text)
    BY <1>9, <1>10 DEF Scans, base, n
<1>13. timestamp_markers(text) = f[n].found
    BY <1>1, <1>11, MarkersAre DEF h
<1> QED BY <1>12, <1>13 DEF n

LEMMA MarkersIn ==
    ASSUME NEW text \in Seq(Pieces)
    PROVE  timestamp_markers(text) \subseteq Stamps(Len(text))
<1> DEFINE n == Len(text)
           V == [next : Nat, found : SUBSET Stamps(n)]
<1>1. n \in Nat /\ [next |-> 1, found |-> {}] \in V
    OBVIOUS
<1>2. PICK f : Scans(f, text) /\ timestamp_markers(text) = f[n].found
    BY ScanWalk
<1>3. \A i \in 1..n : \A v \in V : Scanned(text, v, i) \in V
    BY ScannedIn
<1> HIDE DEF V
<1> DEFINE T == {k \in Nat : k <= n => f[k] \in V}
<1>4. 0 \in T
    BY <1>1, <1>2 DEF Scans
<1> HIDE DEF n
<1>5. ASSUME NEW k \in Nat, k \in T
      PROVE  k + 1 \in T
    <2>1. CASE k + 1 <= n
        <3>1. k + 1 \in 1..n /\ k <= n /\ (k + 1) - 1 = k
            BY <1>1, <2>1
        <3>2. f[k + 1] = Scanned(text, f[k], k + 1)
            BY <1>2, <3>1 DEF Scans, n
        <3> QED BY <1>3, <1>5, <3>1, <3>2
    <2>2. CASE ~(k + 1 <= n)
        BY <2>2
    <2> QED BY <2>1, <2>2
<1>6. n \in T
    <2> HIDE DEF T
    <2> QED BY <1>1, <1>4, <1>5, Naturals
<1> QED BY <1>1, <1>2, <1>6 DEF V, n

LEMMA TimestampsIn ==
    ASSUME NEW text \in Seq(Pieces)
    PROVE  /\ timestamp_candidates(text) \subseteq Stamps(Len(text))
           /\ \A i \in DOMAIN text : text[i] = "date" =>
                  \E c \in timestamp_candidates(text) : c.position = i
<1> DEFINE n == Len(text)
           dates == {i \in DOMAIN text : text[i] = "date"}
           moments == {i \in dates : i < n /\ text[i + 1] = "clock"}
           long(i) == Candidate(i, 2, 0, "Timestamp", "ISO8601:", <<"date", "clock">>)
           short(i) == Candidate(i, 1, 11, "Timestamp", "DATE:", <<"date">>)
<1>1. n \in Nat /\ DOMAIN text = 1..n
    OBVIOUS
<1>2. timestamp_candidates(text)
          = timestamp_markers(text) \cup {long(i) : i \in moments} \cup {short(i) : i \in dates}
    BY DEF timestamp_candidates
<1>3. /\ "Timestamp" \in Kinds /\ "ISO8601:" \in Keys /\ "DATE:" \in Keys
      /\ <<"date", "clock">> \in Seq(Pieces) /\ <<"date">> \in Seq(Pieces)
    <2>1. "date" \in Pieces /\ "clock" \in Pieces
        BY CleanPieces
    <2>2. <<"date", "clock">> \in Seq(Pieces) /\ <<"date">> \in Seq(Pieces)
        BY <2>1
    <2> QED BY <2>2 DEF Kinds, Keys
<1>4. ASSUME NEW i \in moments
      PROVE  long(i) \in Stamps(n)
    <2> DEFINE kind == "Timestamp"
               key == "ISO8601:"
               value == <<"date", "clock">>
    <2>1. i \in 1..n /\ 2 \in 1..n /\ i + 2 - 1 <= n
        BY <1>1
    <2>2. kind \in Kinds /\ key \in Keys /\ value \in Seq(Pieces) /\ kind = "Timestamp"
        BY <1>3
    <2> HIDE DEF n, kind, key, value
    <2>3. Candidate(i, 2, 0, kind, key, value) \in Stamps(n)
        BY <2>1, <2>2 DEF Candidate, Stamps, Candidates
    <2> QED BY <2>3 DEF kind, key, value
<1>5. ASSUME NEW i \in dates
      PROVE  short(i) \in Stamps(n)
    <2> DEFINE kind == "Timestamp"
               key == "DATE:"
               value == <<"date">>
    <2>1. i \in 1..n /\ 1 \in 1..n /\ i + 1 - 1 <= n
        BY <1>1
    <2>2. kind \in Kinds /\ key \in Keys /\ value \in Seq(Pieces) /\ kind = "Timestamp"
        BY <1>3
    <2> HIDE DEF n, kind, key, value
    <2>3. Candidate(i, 1, 11, kind, key, value) \in Stamps(n)
        BY <2>1, <2>2 DEF Candidate, Stamps, Candidates
    <2> QED BY <2>3 DEF kind, key, value
<1>6. timestamp_candidates(text) \subseteq Stamps(n)
    <2>1. timestamp_markers(text) \subseteq Stamps(n)
        BY MarkersIn
    <2> HIDE DEF n, long, short, moments, dates
    <2> QED BY <1>2, <1>4, <1>5, <2>1
<1>7. ASSUME NEW i \in DOMAIN text, text[i] = "date"
      PROVE  \E c \in timestamp_candidates(text) : c.position = i
    <2>1. i \in dates /\ short(i) \in timestamp_candidates(text)
        BY <1>2, <1>7
    <2>2. short(i).position = i
        BY DEF Candidate
    <2> QED BY <2>1, <2>2
<1> QED BY <1>6, <1>7

(* Of candidates there is always a first.                                   *)
LEMMA BestIn ==
    ASSUME NEW n \in Nat, NEW C \in SUBSET Candidates(n), C # {}
    PROVE  best(C) \in C
<1> DEFINE lengths == {c.length : c \in C}
           longest == Max(lengths)
           ranks == {c.priority + 100 : c \in {d \in C : d.length = longest}}
           rank == Min(ranks)
<1>1. \A c \in C : c.length \in Nat /\ c.length <= n /\ c.priority \in Int /\ c.priority + 100 \in Nat
    <2> SUFFICES ASSUME NEW c \in C
                 PROVE  c.length \in Nat /\ c.length <= n /\ c.priority \in Int /\ c.priority + 100 \in Nat
        OBVIOUS
    <2>1. c.length \in 1..n /\ c.priority \in {-100, 0, 11, 90, 100}
        BY CandidateType
    <2> QED BY <2>1
<1>2. longest \in lengths /\ \A l \in lengths : longest >= l
    <2>1. lengths \in SUBSET Nat /\ lengths # {} /\ \A l \in lengths : l <= n
        BY <1>1
    <2> HIDE DEF lengths
    <2> QED BY <2>1, LargestNumber
<1> HIDE DEF longest
<1>3. rank \in ranks /\ \A r \in ranks : rank <= r
    <2>1. ranks \in SUBSET Nat /\ ranks # {}
        BY <1>1, <1>2
    <2> HIDE DEF ranks
    <2> QED BY <2>1, LeastNumber
<1> HIDE DEF rank
<1>4. PICK c \in C : c.length = longest /\ c.priority + 100 = rank
    BY <1>3
<1>5. ASSUME NEW d \in C
      PROVE  c.length > d.length \/ (c.length = d.length /\ c.priority <= d.priority)
    <2>1. c.length \in Nat /\ d.length \in Nat /\ c.priority \in Int /\ d.priority \in Int
        BY <1>1
    <2>2. c.length >= d.length
        BY <1>2, <1>4
    <2>3. d.length = longest => c.priority + 100 <= d.priority + 100
        BY <1>3, <1>4
    <2> QED BY <1>4, <2>1, <2>2, <2>3
<1> QED BY <1>5 DEF best

-----------------------------------------------------------------------------
(* A text cut into candidates and the pieces where there is none.           *)

Literal(text, i) == Candidate(i, 1, 0, "Literal", "", <<text[i]>>)
Part(text, C, i) ==
    IF {c \in C : c.position = i} = {} THEN Literal(text, i) ELSE best({c \in C : c.position = i})
PartsOf(text, C) == C \cup {Literal(text, i) : i \in {j \in DOMAIN text : \A c \in C : c.position # j}}

CutAt(text, C, state, i) ==
    IF i < state.cursor THEN state
    ELSE [cursor |-> i + Part(text, C, i).length, parts |-> Append(state.parts, Part(text, C, i))]

CutBody(g, text, C, s) ==
    IF s = {} THEN [cursor |-> 1, parts |-> <<>>]
    ELSE LET x == Max(s) IN CutAt(text, C, g[s \ {x}], Indices(text)[x])
CutFold(text, C) ==
    CHOOSE g : g = [s \in SUBSET DOMAIN Indices(text) |-> CutBody(g, text, C, s)]

LEMMA CutIs ==
    ASSUME NEW text, NEW C
    PROVE  cut(text, C) = CutFold(text, C)[DOMAIN Indices(text)].parts
BY DEF cut, FoldLeftDomain, FoldLeft, MapThenFoldSet, CutFold, CutBody, CutAt, Part, Literal, Indices

LEMMA CutAtIn ==
    ASSUME NEW n \in Nat, NEW text \in Seq(Pieces), n = Len(text), NEW C \in SUBSET Candidates(n),
           NEW i \in 1..n, NEW v \in [cursor : Nat, parts : Seq(PartsOf(text, C))]
    PROVE  CutAt(text, C, v, i) \in [cursor : Nat, parts : Seq(PartsOf(text, C))]
<1> DEFINE part == Part(text, C, i)
           here == {c \in C : c.position = i}
<1>1. part \in PartsOf(text, C) /\ part.length \in Nat
    <2>1. CASE here = {}
        <3>1. part = Literal(text, i) /\ i \in DOMAIN text /\ \A c \in C : c.position # i
            BY <2>1 DEF Part
        <3>2. Literal(text, i).length = 1
            BY DEF Literal, Candidate
        <3> QED BY <3>1, <3>2 DEF PartsOf
    <2>2. CASE here # {}
        <3>1. here \in SUBSET Candidates(n) /\ part = best(here)
            BY <2>2 DEF Part
        <3>2. part \in here
            BY <2>2, <3>1, BestIn
        <3>3. part \in C /\ part \in Candidates(n)
            BY <3>1, <3>2
        <3>4. part.length \in 1..n
            BY <3>3, CandidateType
        <3> HIDE DEF part
        <3> QED BY <3>3, <3>4 DEF PartsOf
    <2> QED BY <2>1, <2>2
<1> DEFINE S == PartsOf(text, C)
<1>2. CutAt(text, C, v, i) = IF i < v.cursor THEN v
          ELSE [cursor |-> i + part.length, parts |-> Append(v.parts, part)]
    BY DEF CutAt
<1> HIDE DEF S, part
<1>3. v \in [cursor : Nat, parts : Seq(S)] /\ part \in S
    BY <1>1 DEF S
<1>4. Append(v.parts, part) \in Seq(S)
    BY <1>3
<1>5. i + part.length \in Nat
    BY <1>1
<1>6. CutAt(text, C, v, i) \in [cursor : Nat, parts : Seq(S)]
    BY <1>2, <1>3, <1>4, <1>5
<1> QED BY <1>6 DEF S

(* The fold of cut, step by step.                                           *)
Cuts(f, text, C) ==
    /\ f[0] = [cursor |-> 1, parts |-> <<>>]
    /\ \A k \in 1..Len(text) : f[k] = CutAt(text, C, f[k - 1], k)

LEMMA CutWalk ==
    ASSUME NEW text \in Seq(Pieces), NEW C \in SUBSET Candidates(Len(text))
    PROVE  \E f : /\ Cuts(f, text, C) /\ cut(text, C) = f[Len(text)].parts
                  /\ \A k \in 0..Len(text) : f[k] \in [cursor : Nat, parts : Seq(PartsOf(text, C))]
<1> DEFINE n == Len(text)
           V == [cursor : Nat, parts : Seq(PartsOf(text, C))]
           base == [cursor |-> 1, parts |-> <<>>]
           step == [p \in (1..n) \X V |-> CutAt(text, C, p[2], p[1])]
           h == CutFold(text, C)
<1>1. n \in Nat /\ DOMAIN text = 1..n /\ Indices(text) = [i \in 1..n |-> i]
    BY DEF Indices
<1>2. base \in V
    OBVIOUS
<1>3. \A i \in 1..n : \A v \in V : CutAt(text, C, v, i) \in V
    BY <1>1, CutAtIn
<1> HIDE DEF V, base, n
<1>4. step \in [(1..n) \X V -> V]
    BY <1>3
<1>5. \E g \in [SUBSET (1..n) -> V] : Solves(g, n, base, step)
    <2> HIDE DEF step
    <2> QED BY <1>1, <1>2, <1>4, FoldExists
<1>6. PICK g \in [SUBSET (1..n) -> V] : Solves(g, n, base, step)
    BY <1>5
<1>7. ASSUME NEW s \in SUBSET (1..n)
      PROVE  g[s] = CutBody(g, text, C, s)
    <2>1. CASE s = {}
        BY <1>6, <2>1 DEF Solves, Stepped, CutBody, base
    <2>2. CASE s # {}
        <3> DEFINE x == Max(s)
        <3>1. x \in 1..n /\ s \ {x} \in SUBSET (1..n)
            BY <1>1, <2>2, LargestMember
        <3> HIDE DEF x
        <3>2. g[s] = step[<<x, g[s \ {x}]>>]
            BY <1>6, <2>2 DEF Solves, Stepped, x
        <3>3. step[<<x, g[s \ {x}]>>] = CutAt(text, C, g[s \ {x}], x)
            BY <3>1
        <3>4. Indices(text)[x] = x
            BY <1>1, <3>1
        <3> HIDE DEF step
        <3> QED BY <2>2, <3>2, <3>3, <3>4 DEF CutBody, x
    <2> QED BY <2>1, <2>2
<1>8. h = [s \in SUBSET (1..n) |-> CutBody(h, text, C, s)]
    <2>1. g = [s \in SUBSET DOMAIN Indices(text) |-> CutBody(g, text, C, s)]
        BY <1>1, <1>7
    <2>2. h = [s \in SUBSET DOMAIN Indices(text) |-> CutBody(h, text, C, s)]
        BY <2>1 DEF CutFold
    <2> QED BY <1>1, <2>2
<1> HIDE DEF h
<1> DEFINE f == [k \in 0..n |-> h[1..k]]
<1>9. f[0] = base
    BY <1>1, <1>8 DEF CutBody, base
<1>10. ASSUME NEW k \in 1..n
       PROVE  f[k] = CutAt(text, C, f[k - 1], k)
    <2>1. k \in Nat /\ k # 0 /\ k - 1 \in 0..n /\ k \in 0..n /\ 1..k \in SUBSET (1..n)
        BY <1>1
    <2>2. 1..k # {} /\ Max(1..k) = k /\ (1..k) \ {k} = 1..(k - 1)
        BY <2>1, Longest
    <2>3. h[1..k] = CutBody(h, text, C, 1..k)
        BY <1>8, <2>1
    <2> QED BY <1>1, <2>1, <2>2, <2>3 DEF CutBody
<1>11. f[n] = h[1..n]
    BY <1>1
<1>12. \A k \in 0..n : f[k] \in V
    <2> DEFINE T == {k \in Nat : k <= n => f[k] \in V}
    <2> HIDE DEF f
    <2>1. 0 \in T
        BY <1>2, <1>9
    <2>2. ASSUME NEW k \in Nat, k \in T
          PROVE  k + 1 \in T
        <3>1. CASE k + 1 <= n
            <4>1. k + 1 \in 1..n /\ k <= n /\ (k + 1) - 1 = k
                BY <1>1, <3>1
            <4> QED BY <1>3, <1>10, <2>2, <4>1
        <3>2. CASE ~(k + 1 <= n)
            BY <3>2
        <3> QED BY <3>1, <3>2
    <2>3. Nat \subseteq T
        <3> HIDE DEF T
        <3> QED BY <2>1, <2>2, Naturals
    <2> QED BY <1>1, <2>3
<1> HIDE DEF f
<1>13. Cuts(f, text, C)
    BY <1>9, <1>10 DEF Cuts, base, n
<1>14. cut(text, C) = f[n].parts
    BY <1>1, <1>11, CutIs DEF h
<1> QED BY <1>12, <1>13, <1>14 DEF n, V

LEMMA CutIn ==
    ASSUME NEW text \in Seq(Pieces), NEW C \in SUBSET Candidates(Len(text))
    PROVE  cut(text, C) \in Seq(PartsOf(text, C))
<1> DEFINE n == Len(text)
           S == Seq(PartsOf(text, C))
<1>1. PICK f : cut(text, C) = f[n].parts /\ \A k \in 0..n : f[k] \in [cursor : Nat, parts : S]
    BY CutWalk
<1>2. n \in 0..n
    OBVIOUS
<1> HIDE DEF S, n
<1>3. f[n].parts \in S
    BY <1>1, <1>2
<1> QED BY <1>1, <1>3 DEF S

-----------------------------------------------------------------------------
(* The tokens and the pieces between, put together.                         *)

Original(text, c) == SubSeq(text, c.position, c.position + c.length - 1)
Token(text, c) ==
    IF c.kind = "Literal" \/ Original(text, c)[1] = "TS" THEN Original(text, c)
    ELSE <<"TS", c.style>> \o Original(text, c) \o <<"end">>

JoinBody(g, text, parts, s) ==
    IF s = {} THEN <<>> ELSE LET x == Max(s) IN g[s \ {x}] \o Token(text, parts[x])
JoinFold(text, parts) ==
    CHOOSE g : g = [s \in SUBSET DOMAIN parts |-> JoinBody(g, text, parts, s)]

LEMMA JoinIs ==
    ASSUME NEW text
    PROVE  tokenize_timestamps(text)
               = JoinFold(text, cut(text, timestamp_candidates(text)))
                     [DOMAIN cut(text, timestamp_candidates(text))]
BY DEF tokenize_timestamps, FoldLeft, MapThenFoldSet, JoinFold, JoinBody, Token, Original

LEMMA TokenClean ==
    ASSUME NEW text \in Seq(Clean), NEW C \in SUBSET Stamps(Len(text)), NEW c \in PartsOf(text, C)
    PROVE  Token(text, c) \in Seq(Clean)
<1> DEFINE n == Len(text)
           original == Original(text, c)
<1>1. n \in Nat /\ DOMAIN text = 1..n /\ \A i \in 1..n : text[i] \in Clean
    OBVIOUS
<1>2. /\ c.position \in 1..n /\ c.length \in 1..n /\ c.position + c.length - 1 <= n
      /\ c.kind = "Literal" \/ c.style \in Keys
    <2>1. CASE c \in C
        <3>1. c \in Candidates(n) /\ c.style \in Keys
            BY <2>1 DEF Stamps
        <3> QED BY <1>1, <3>1, CandidateType
    <2>2. CASE c \notin C
        <3>1. PICK i \in 1..n : c = Literal(text, i)
            BY <1>1, <2>2 DEF PartsOf
        <3>2. c.position = i /\ c.length = 1 /\ c.kind = "Literal"
            BY <3>1 DEF Literal, Candidate
        <3> QED BY <1>1, <3>2
    <2> QED BY <2>1, <2>2
<1> DEFINE last == c.position + c.length - 1
<1>3. original \in Seq(Clean)
    <2>1. last \in Int /\ last <= n /\ c.position \in Int /\ c.position >= 1
        BY <1>1, <1>2
    <2>2. original = SubSeq(text, c.position, last)
        BY DEF Original
    <2> HIDE DEF last, n
    <2>3. \A j \in c.position..last : text[j] \in Clean
        BY <1>1, <2>1
    <2>4. SubSeq(text, c.position, last) \in Seq(Clean)
        BY <2>1, <2>3, SubSeqProperties
    <2> QED BY <2>2, <2>4
<1> HIDE DEF original
<1>4. c.kind # "Literal" => <<"TS", c.style>> \in Seq(Clean) /\ <<"end">> \in Seq(Clean)
    <2>1. "TS" \in Clean /\ "end" \in Clean /\ (c.kind # "Literal" => c.style \in Clean)
        BY <1>2, CleanPieces
    <2> QED BY <2>1
<1>5. c.kind # "Literal" => <<"TS", c.style>> \o original \o <<"end">> \in Seq(Clean)
    <2> SUFFICES ASSUME c.kind # "Literal"
                 PROVE  <<"TS", c.style>> \o original \o <<"end">> \in Seq(Clean)
        OBVIOUS
    <2> DEFINE opening == <<"TS", c.style>>
               closing == <<"end">>
    <2>1. opening \in Seq(Clean) /\ closing \in Seq(Clean)
        BY <1>4
    <2> HIDE DEF opening, closing
    <2>2. opening \o original \in Seq(Clean)
        BY <1>3, <2>1, ConcatProperties
    <2>3. (opening \o original) \o closing \in Seq(Clean)
        BY <2>1, <2>2, ConcatProperties
    <2> QED BY <2>3 DEF opening, closing
<1> QED BY <1>3, <1>5 DEF Token, original

LEMMA CleanText == ASSUME NEW text \in Seq(Clean) PROVE text \in Seq(Pieces)
BY CleanPieces, SeqMonotonic

(* The tokens joined, step by step.                                         *)
Joins(f, text, parts) ==
    /\ f[0] = <<>>
    /\ \A k \in 1..Len(parts) : f[k] = f[k - 1] \o Token(text, parts[k])

LEMMA JoinWalk ==
    ASSUME NEW text \in Seq(Clean)
    PROVE  LET parts == cut(text, timestamp_candidates(text))
           IN  \E f : /\ Joins(f, text, parts) /\ tokenize_timestamps(text) = f[Len(parts)]
                      /\ \A k \in 0..Len(parts) : f[k] \in Seq(Clean)
<1> DEFINE C == timestamp_candidates(text)
           parts == cut(text, C)
           n == Len(parts)
           V == Seq(Clean)
           step == [p \in (1..n) \X V |-> p[2] \o Token(text, parts[p[1]])]
           h == JoinFold(text, parts)
<1>0. text \in Seq(Pieces) /\ C \in SUBSET Stamps(Len(text)) /\ C \in SUBSET Candidates(Len(text))
    <2>1. text \in Seq(Pieces)
        BY CleanText
    <2>2. C \subseteq Stamps(Len(text))
        BY <2>1, TimestampsIn
    <2> QED BY <2>1, <2>2 DEF Stamps
<1> HIDE DEF C
<1>1. parts \in Seq(PartsOf(text, C))
    BY <1>0, CutIn
<1> HIDE DEF parts
<1>2. n \in Nat /\ DOMAIN parts = 1..n /\ \A i \in 1..n : parts[i] \in PartsOf(text, C)
    BY <1>1
<1>3. \A i \in 1..n : \A v \in V : v \o Token(text, parts[i]) \in V
    <2> SUFFICES ASSUME NEW i \in 1..n, NEW v \in V PROVE v \o Token(text, parts[i]) \in V
        OBVIOUS
    <2> DEFINE token == Token(text, parts[i])
    <2>1. token \in Seq(Clean)
        BY <1>0, <1>2, TokenClean
    <2> HIDE DEF token
    <2>2. v \o token \in Seq(Clean)
        BY <2>1, ConcatProperties
    <2> QED BY <2>2 DEF token
<1>4. <<>> \in V
    OBVIOUS
<1> HIDE DEF V, n
<1>5. step \in [(1..n) \X V -> V]
    BY <1>3
<1>6. \E g \in [SUBSET (1..n) -> V] : Solves(g, n, <<>>, step)
    <2> HIDE DEF step
    <2> QED BY <1>2, <1>4, <1>5, FoldExists
<1>7. PICK g \in [SUBSET (1..n) -> V] : Solves(g, n, <<>>, step)
    BY <1>6
<1>8. ASSUME NEW s \in SUBSET (1..n)
      PROVE  g[s] = JoinBody(g, text, parts, s)
    <2>1. CASE s = {}
        BY <1>7, <2>1 DEF Solves, Stepped, JoinBody
    <2>2. CASE s # {}
        <3> DEFINE x == Max(s)
        <3>1. x \in 1..n /\ s \ {x} \in SUBSET (1..n)
            BY <1>2, <2>2, LargestMember
        <3> HIDE DEF x
        <3>2. g[s] = step[<<x, g[s \ {x}]>>]
            BY <1>7, <2>2 DEF Solves, Stepped, x
        <3>3. step[<<x, g[s \ {x}]>>] = g[s \ {x}] \o Token(text, parts[x])
            BY <3>1
        <3> HIDE DEF step
        <3> QED BY <2>2, <3>2, <3>3 DEF JoinBody, x
    <2> QED BY <2>1, <2>2
<1>9. h = [s \in SUBSET (1..n) |-> JoinBody(h, text, parts, s)]
    <2>1. g = [s \in SUBSET DOMAIN parts |-> JoinBody(g, text, parts, s)]
        BY <1>2, <1>8
    <2>2. h = [s \in SUBSET DOMAIN parts |-> JoinBody(h, text, parts, s)]
        BY <2>1 DEF JoinFold
    <2> QED BY <1>2, <2>2
<1> HIDE DEF h
<1> DEFINE f == [k \in 0..n |-> h[1..k]]
<1>10. f[0] = <<>>
    BY <1>2, <1>9 DEF JoinBody
<1>11. ASSUME NEW k \in 1..n
       PROVE  f[k] = f[k - 1] \o Token(text, parts[k])
    <2>1. k \in Nat /\ k # 0 /\ k - 1 \in 0..n /\ k \in 0..n /\ 1..k \in SUBSET (1..n)
        BY <1>2
    <2>2. 1..k # {} /\ Max(1..k) = k /\ (1..k) \ {k} = 1..(k - 1)
        BY <2>1, Longest
    <2>3. h[1..k] = JoinBody(h, text, parts, 1..k)
        BY <1>9, <2>1
    <2> QED BY <2>1, <2>2, <2>3 DEF JoinBody
<1>12. f[n] = h[1..n]
    BY <1>2
<1>13. \A k \in 0..n : f[k] \in V
    <2> DEFINE T == {k \in Nat : k <= n => f[k] \in V}
    <2> HIDE DEF f
    <2>1. 0 \in T
        BY <1>4, <1>10
    <2>2. ASSUME NEW k \in Nat, k \in T
          PROVE  k + 1 \in T
        <3>1. CASE k + 1 <= n
            <4>1. k + 1 \in 1..n /\ k <= n /\ (k + 1) - 1 = k
                BY <1>2, <3>1
            <4> DEFINE v == f[k]
                       token == Token(text, parts[k + 1])
            <4>2. f[k + 1] = v \o token /\ v \in V
                BY <1>11, <2>2, <4>1
            <4> HIDE DEF v
            <4>3. v \o token \in V
                BY <1>3, <4>1, <4>2
            <4>4. f[k + 1] \in V
                BY <4>2, <4>3
            <4> QED BY <4>4
        <3>2. CASE ~(k + 1 <= n)
            BY <3>2
        <3> QED BY <3>1, <3>2
    <2>3. Nat \subseteq T
        <3> HIDE DEF T
        <3> QED BY <2>1, <2>2, Naturals
    <2> QED BY <1>2, <2>3
<1> HIDE DEF f
<1>14. Joins(f, text, parts)
    BY <1>10, <1>11 DEF Joins, n
<1>15. tokenize_timestamps(text) = f[n]
    BY <1>2, <1>12, JoinIs DEF h, parts, C
<1> QED BY <1>13, <1>14, <1>15 DEF n, V, parts, C

LEMMA TimestampsClean ==
    ASSUME NEW text \in Seq(Clean)
    PROVE  tokenize_timestamps(text) \in Seq(Clean)
<1> DEFINE parts == cut(text, timestamp_candidates(text))
           n == Len(parts)
<1>1. parts \in Seq(PartsOf(text, timestamp_candidates(text)))
    <2>1. text \in Seq(Pieces)
        BY CleanText
    <2>2. timestamp_candidates(text) \in SUBSET Candidates(Len(text))
        BY <2>1, TimestampsIn DEF Stamps
    <2> QED BY <2>1, <2>2, CutIn
<1>2. n \in 0..n
    BY <1>1
<1>3. PICK f : tokenize_timestamps(text) = f[n] /\ \A k \in 0..n : f[k] \in Seq(Clean)
    BY JoinWalk
<1> HIDE DEF n
<1> QED BY <1>2, <1>3

LEMMA TextClean ==
    ASSUME NEW text \in Seq(Pieces)
    PROVE  tokenize_text(text) \in Seq(Clean)
BY SanitizeCleans, AddressesClean, TimestampsClean DEF tokenize_text

LEMMA ItemClean ==
    ASSUME NEW item \in [sample : Seq(Pieces), values : Seq(Seq(Pieces))]
    PROVE  tokenize(item) \in [sample : Seq(Clean), values : Seq(Seq(Clean))]
<1> DEFINE n == Len(item.values)
           values == [i \in DOMAIN item.values |-> tokenize_text(item.values[i])]
<1>1. n \in Nat /\ DOMAIN item.values = 1..n /\ \A i \in 1..n : item.values[i] \in Seq(Pieces)
    OBVIOUS
<1> HIDE DEF n
<1>2. \A i \in 1..n : tokenize_text(item.values[i]) \in Seq(Clean)
    BY <1>1, TextClean
<1> DEFINE S == Seq(Clean)
<1>3. values \in Seq(S)
    <2> HIDE DEF S
    <2>1. \A i \in 1..n : tokenize_text(item.values[i]) \in S
        BY <1>2 DEF S
    <2>2. values \in [1..n -> S]
        BY <1>1, <2>1
    <2> QED BY <1>1, <2>2, SeqDef
<1>4. tokenize_text(item.sample) \in Seq(Clean)
    BY TextClean
<1>5. tokenize(item) = [sample |-> tokenize_text(item.sample), values |-> values]
    BY DEF tokenize
<1> HIDE DEF values
<1> QED BY <1>3, <1>4, <1>5

LEMMA CleanItem ==
    [sample : Seq(Clean), values : Seq(Seq(Clean))] \subseteq [sample : Seq(Pieces), values : Seq(Seq(Pieces))]
<1>1. Seq(Clean) \subseteq Seq(Pieces)
    BY CleanText
<1>2. Seq(Seq(Clean)) \subseteq Seq(Seq(Pieces))
    <2> DEFINE A == Seq(Clean)
               B == Seq(Pieces)
    <2>1. A \subseteq B
        BY <1>1
    <2> HIDE DEF A, B
    <2>2. Seq(A) \subseteq Seq(B)
        BY <2>1, SeqMonotonic
    <2> QED BY <2>2 DEF A, B
<1> QED BY <1>1, <1>2

-----------------------------------------------------------------------------
(* The values of the test case in their places.                             *)

Cases(item, s) == {j \in s : item.sample[j] = "CASE"}
Passed(item, s) == Cardinality(Cases(item, s))

PassesOn(item, n, s, x) ==
    /\ Passed(item, s \ {x}) \in Nat
    /\ item.sample[x] = "CASE" => /\ Passed(item, s) = Passed(item, s \ {x}) + 1
                                 /\ Passed(item, s \ {x}) + 1 \in 1..Passed(item, 1..n)
    /\ item.sample[x] # "CASE" => Passed(item, s) = Passed(item, s \ {x})

(* As many values are used as markers were passed, and there is one for each. *)
LEMMA CasesPassed ==
    ASSUME NEW item, NEW n \in Nat, NEW s \in SUBSET (1..n), NEW x \in s
    PROVE  PassesOn(item, n, s, x)
<1> DEFINE all == Cases(item, 1..n)
           here == Cases(item, s)
           before == Cases(item, s \ {x})
<1>1. IsFiniteSet(all)
    <2>1. IsFiniteSet(1..n)
        BY FS_Interval
    <2>2. all \in SUBSET (1..n)
        BY DEF Cases
    <2> HIDE DEF all
    <2> QED BY <2>1, <2>2, FS_Subset
<1>2. here \in SUBSET all /\ before \in SUBSET all
      /\ before = here \ {x} /\ (x \in here <=> item.sample[x] = "CASE")
    BY DEF Cases
<1> HIDE DEF all, here, before
<1>3. IsFiniteSet(here) /\ IsFiniteSet(before) /\ Cardinality(here) <= Cardinality(all)
    BY <1>1, <1>2, FS_Subset
<1>4. Cardinality(here) \in Nat /\ Cardinality(before) \in Nat /\ Cardinality(all) \in Nat
    BY <1>1, <1>3, FS_CardinalityType
<1>5. Cardinality(before) = IF x \in here THEN Cardinality(here) - 1 ELSE Cardinality(here)
    BY <1>2, <1>3, FS_RemoveElement
<1> DEFINE count == Cardinality(all)
           h == Cardinality(here)
           b == Cardinality(before)
<1>6. (x \in here => h = b + 1 /\ b + 1 \in 1..count) /\ (x \notin here => h = b)
    <2>1. h \in Nat /\ b \in Nat /\ count \in Nat /\ h <= count
        BY <1>3, <1>4
    <2>2. (x \in here => b = h - 1) /\ (x \notin here => b = h)
        BY <1>5
    <2> HIDE DEF h, b, count
    <2> QED BY <2>1, <2>2
<1>7. Passed(item, s) = h /\ Passed(item, s \ {x}) = b /\ Passed(item, 1..n) = count
    BY DEF Passed, here, before, all
<1> HIDE DEF h, b, count
<1>8. b \in Nat
    BY <1>4 DEF b
<1> QED BY <1>2, <1>6, <1>7, <1>8 DEF PassesOn

Expanded(item, state, piece) ==
    IF item.values = <<>> \/ piece # "CASE" THEN [state EXCEPT !.result = Append(@, piece)]
    ELSE [used |-> state.used + 1,
          result |-> state.result \o sanitize(item.values[state.used + 1])]

(* There is a value for the piece if it asks for one.                       *)
HasValue(item, v, piece) ==
    item.values = <<>> \/ piece # "CASE" \/ v.used + 1 \in DOMAIN item.values
UsedNext(item, v, w, piece) ==
    item.values # <<>> => w.used = IF piece = "CASE" THEN v.used + 1 ELSE v.used

ExpandBody(g, item, s) ==
    IF s = {} THEN [used |-> 0, result |-> <<>>]
    ELSE LET x == Max(s) IN Expanded(item, g[s \ {x}], item.sample[x])
ExpandFold(item) ==
    CHOOSE g : g = [s \in SUBSET DOMAIN item.sample |-> ExpandBody(g, item, s)]

LEMMA ExpandIs ==
    ASSUME NEW item
    PROVE  expand_test_case(item) = ExpandFold(item)[DOMAIN item.sample].result
BY DEF expand_test_case, FoldLeft, MapThenFoldSet, ExpandFold, ExpandBody, Expanded

(* One piece on, with a value at hand where one is asked for.               *)
LEMMA ExpandedIn ==
    ASSUME NEW item \in [sample : Seq(Clean), values : Seq(Seq(Clean))], NEW piece \in Clean,
           NEW v \in [used : Nat, result : Seq(Clean)], HasValue(item, v, piece)
    PROVE  /\ Expanded(item, v, piece) \in [used : Nat, result : Seq(Clean)]
           /\ UsedNext(item, v, Expanded(item, v, piece), piece)
<1>1. CASE item.values = <<>> \/ piece # "CASE"
    <2>1. Append(v.result, piece) \in Seq(Clean)
        OBVIOUS
    <2> DEFINE w == Append(v.result, piece)
    <2>2. Expanded(item, v, piece) = [v EXCEPT !.result = w]
        BY <1>1 DEF Expanded
    <2> HIDE DEF w
    <2>3. Expanded(item, v, piece) = [used |-> v.used, result |-> w]
        BY <2>2
    <2>4. Expanded(item, v, piece) \in [used : Nat, result : Seq(Clean)]
        BY <2>1, <2>3 DEF w
    <2>5. Expanded(item, v, piece).used = v.used
        BY <2>3
    <2> QED BY <1>1, <2>4, <2>5 DEF UsedNext
<1>2. CASE ~(item.values = <<>> \/ piece # "CASE")
    <2> DEFINE k == v.used + 1
               value == sanitize(item.values[k])
               result == v.result \o value
    <2>1. k \in DOMAIN item.values /\ k \in Nat
        BY <1>2 DEF HasValue
    <2>2. Expanded(item, v, piece) = [used |-> k, result |-> result]
        BY <1>2 DEF Expanded
    <2>3. item.values[k] \in Seq(Pieces)
        <3>1. item.values[k] \in Seq(Clean)
            BY <2>1
        <3> QED BY <3>1, CleanText
    <2> HIDE DEF k
    <2>4. value \in Seq(Clean)
        BY <2>3, SanitizeCleans
    <2> HIDE DEF value
    <2>5. result \in Seq(Clean)
        BY <2>4, ConcatProperties
    <2> HIDE DEF result
    <2>6. Expanded(item, v, piece) \in [used : Nat, result : Seq(Clean)]
        BY <2>1, <2>2, <2>5
    <2>7. Expanded(item, v, piece).used = k /\ piece = "CASE"
        BY <1>2, <2>2
    <2> QED BY <2>6, <2>7 DEF k, UsedNext
<1> QED BY <1>1, <1>2

LEMMA ExpandClean ==
    ASSUME NEW item \in [sample : Seq(Clean), values : Seq(Seq(Clean))], test_case_fits(item)
    PROVE  expand_test_case(item) \in Seq(Clean)
<1> DEFINE n == Len(item.sample)
           V == [used : Nat, result : Seq(Clean)]
           base == [used |-> 0, result |-> <<>>]
           cased == item.values # <<>>
           fits(v, i) == HasValue(item, v, item.sample[i])
           step == [p \in (1..n) \X V |->
                       IF fits(p[2], p[1]) THEN Expanded(item, p[2], item.sample[p[1]]) ELSE p[2]]
           passed(s) == Passed(item, s)
           I == [s \in SUBSET (1..n) |-> {v \in V : cased => v.used = passed(s)}]
           h == ExpandFold(item)
<1>1. /\ n \in Nat /\ DOMAIN item.sample = 1..n /\ \A i \in 1..n : item.sample[i] \in Clean
      /\ DOMAIN item.values = 1..Len(item.values) /\ Len(item.values) \in Nat
    OBVIOUS
<1>2. base \in V
    OBVIOUS
<1>3. ASSUME NEW i \in 1..n, NEW v \in V, fits(v, i)
      PROVE  /\ Expanded(item, v, item.sample[i]) \in V
             /\ UsedNext(item, v, Expanded(item, v, item.sample[i]), item.sample[i])
    BY <1>1, <1>3, ExpandedIn
<1>4. cased => Len(item.values) = passed(1..n)
    BY <1>1 DEF test_case_fits, Cases, Passed
<1>5. ASSUME NEW s \in SUBSET (1..n), s # {}, NEW v \in I[s \ {Max(s)}]
      PROVE  /\ Max(s) \in 1..n /\ s \ {Max(s)} \in SUBSET (1..n) /\ fits(v, Max(s)) /\ v \in V
             /\ Expanded(item, v, item.sample[Max(s)]) \in I[s]
    <2> DEFINE x == Max(s)
    <2>1. x \in 1..n /\ s \ {x} \in SUBSET (1..n) /\ x \in s
        BY <1>1, <1>5, LargestMember
    <2>2. v \in I[s \ {x}]
        BY <1>5
    <2> HIDE DEF x
    <2>3. v \in V /\ (cased => v.used = passed(s \ {x}))
        BY <2>1, <2>2
    <2>4. cased => /\ passed(s \ {x}) \in Nat
                   /\ item.sample[x] = "CASE" =>
                          passed(s) = passed(s \ {x}) + 1 /\ passed(s \ {x}) + 1 \in 1..Len(item.values)
                   /\ item.sample[x] # "CASE" => passed(s) = passed(s \ {x})
        <3>1. n \in Nat /\ s \in SUBSET (1..n) /\ x \in s
            BY <1>1, <2>1
        <3> HIDE DEF n
        <3>2. PassesOn(item, n, s, x)
            BY <3>1, CasesPassed
        <3> QED BY <1>4, <3>2 DEF PassesOn
    <2> HIDE DEF V, passed
    <2>5. fits(v, x)
        BY <1>1, <2>3, <2>4 DEF HasValue
    <2>6. /\ Expanded(item, v, item.sample[x]) \in V
          /\ UsedNext(item, v, Expanded(item, v, item.sample[x]), item.sample[x])
        BY <1>3, <2>1, <2>3, <2>5
    <2> DEFINE w == Expanded(item, v, item.sample[x])
    <2> HIDE DEF w, fits
    <2>7. w \in V /\ (cased => w.used = passed(s))
        BY <2>3, <2>4, <2>6 DEF w, UsedNext
    <2>8. w \in I[s]
        BY <2>7
    <2> QED BY <2>1, <2>3, <2>5, <2>8 DEF x, w
<1>6. base \in I[{}]
    <2>1. passed({}) = 0
        BY FS_EmptySet DEF Cases, Passed
    <2> HIDE DEF passed
    <2> QED BY <1>2, <2>1
<1> HIDE DEF V, base, n, I, fits
<1>7. step \in [(1..n) \X V -> V]
    BY <1>3
<1>8. \A s \in SUBSET (1..n) : s # {} =>
          \A v \in I[s \ {Max(s)}] : step[<<Max(s), v>>] \in I[s]
    <2> SUFFICES ASSUME NEW s \in SUBSET (1..n), s # {}, NEW v \in I[s \ {Max(s)}]
                 PROVE  step[<<Max(s), v>>] \in I[s]
        OBVIOUS
    <2>1. Max(s) \in 1..n /\ fits(v, Max(s)) /\ v \in V
          /\ Expanded(item, v, item.sample[Max(s)]) \in I[s]
        BY <1>5
    <2>2. step[<<Max(s), v>>] = Expanded(item, v, item.sample[Max(s)])
        BY <2>1
    <2> QED BY <2>1, <2>2
<1>9. \E g \in [SUBSET (1..n) -> V] :
          Solves(g, n, base, step) /\ \A s \in SUBSET (1..n) : g[s] \in I[s]
    <2> HIDE DEF step
    <2> QED BY <1>1, <1>2, <1>6, <1>7, <1>8, FoldIn
<1>10. PICK g \in [SUBSET (1..n) -> V] :
          Solves(g, n, base, step) /\ \A s \in SUBSET (1..n) : g[s] \in I[s]
    BY <1>9
<1>11. ASSUME NEW s \in SUBSET (1..n)
       PROVE  g[s] = ExpandBody(g, item, s)
    <2>1. CASE s = {}
        BY <1>10, <2>1 DEF Solves, Stepped, ExpandBody, base
    <2>2. CASE s # {}
        <3> DEFINE x == Max(s)
        <3>1. x \in 1..n /\ s \ {x} \in SUBSET (1..n)
            BY <1>1, <2>2, LargestMember
        <3>2. g[s \ {x}] \in I[s \ {x}]
            BY <1>10, <3>1
        <3>3. fits(g[s \ {x}], x) /\ g[s \ {x}] \in V
            BY <1>5, <2>2, <3>2
        <3> HIDE DEF x
        <3>4. g[s] = step[<<x, g[s \ {x}]>>]
            BY <1>10, <2>2 DEF Solves, Stepped, x
        <3>5. step[<<x, g[s \ {x}]>>] = Expanded(item, g[s \ {x}], item.sample[x])
            BY <3>1, <3>3
        <3> HIDE DEF step
        <3> QED BY <2>2, <3>4, <3>5 DEF ExpandBody, x
    <2> QED BY <2>1, <2>2
<1>12. h = [s \in SUBSET (1..n) |-> ExpandBody(h, item, s)]
    <2>1. g = [s \in SUBSET DOMAIN item.sample |-> ExpandBody(g, item, s)]
        BY <1>1, <1>11
    <2>2. h = [s \in SUBSET DOMAIN item.sample |-> ExpandBody(h, item, s)]
        BY <2>1 DEF ExpandFold
    <2> QED BY <1>1, <2>2
<1> HIDE DEF h
<1>13. ASSUME NEW s \in SUBSET (1..n), s = {} \/ h[s \ {Max(s)}] \in I[s \ {Max(s)}]
       PROVE  h[s] \in I[s]
    <2>1. CASE s = {}
        BY <1>6, <1>12, <2>1 DEF ExpandBody, base
    <2>2. CASE s # {}
        <3>1. Expanded(item, h[s \ {Max(s)}], item.sample[Max(s)]) \in I[s]
            BY <1>5, <1>13, <2>2
        <3>2. h[s] = Expanded(item, h[s \ {Max(s)}], item.sample[Max(s)])
            BY <1>12, <2>2 DEF ExpandBody
        <3> QED BY <3>1, <3>2
    <2> QED BY <2>1, <2>2
<1>14. h[1..n] \in V
    <2>1. \A s \in SUBSET (1..n) : h[s] \in I[s]
        BY <1>1, <1>13, FoldInvariant
    <2> QED BY <2>1 DEF I
<1> QED BY <1>1, <1>14, ExpandIs DEF V, h, n

-----------------------------------------------------------------------------
(* Segments.                                                                *)

Leftovers == Recorded({"mail", "date"})

MarkersOf(text, marker, priority, kind) ==
    {Candidate(i, 1, priority, kind, "", <<marker>>) : i \in {j \in DOMAIN text : text[j] = marker}}
AllCandidates(text) ==
    timestamp_candidates(text)
    \cup MarkersOf(text, "EMAIL", 100, "Privacy") \cup MarkersOf(text, "PERSON", 100, "Privacy")
    \cup MarkersOf(text, "SRC_IP", 90, "SourceIp") \cup MarkersOf(text, "DST_IP", 90, "DestinationIp")

LEMMA MarkersOfIn ==
    ASSUME NEW text \in Seq(Pieces), NEW marker \in Markers,
           NEW priority \in {90, 100}, NEW kind \in Kinds
    PROVE  MarkersOf(text, marker, priority, kind) \subseteq Candidates(Len(text))
<1> SUFFICES ASSUME NEW i \in DOMAIN text
             PROVE  Candidate(i, 1, priority, kind, "", <<marker>>) \in Candidates(Len(text))
    BY DEF MarkersOf
<1> DEFINE n == Len(text)
           value == <<marker>>
<1>1. n \in Nat /\ i \in 1..n /\ 1 \in 1..n /\ i + 1 - 1 <= n
    OBVIOUS
<1>2. value \in Seq(Pieces)
    <2>1. marker \in Pieces
        BY CleanPieces
    <2> QED BY <2>1
<1>3. priority \in {-100, 0, 11, 90, 100}
    OBVIOUS
<1> HIDE DEF n, value
<1>4. Candidate(i, 1, priority, kind, "", value) \in Candidates(n)
    BY <1>1, <1>2, <1>3 DEF Candidate, Candidates
<1> QED BY <1>4 DEF n, value

LEMMA AllIn ==
    ASSUME NEW text \in Seq(Pieces)
    PROVE  AllCandidates(text) \subseteq Candidates(Len(text))
<1>1. timestamp_candidates(text) \subseteq Candidates(Len(text))
    BY TimestampsIn DEF Stamps
<1>2. /\ MarkersOf(text, "EMAIL", 100, "Privacy") \subseteq Candidates(Len(text))
      /\ MarkersOf(text, "PERSON", 100, "Privacy") \subseteq Candidates(Len(text))
      /\ MarkersOf(text, "SRC_IP", 90, "SourceIp") \subseteq Candidates(Len(text))
      /\ MarkersOf(text, "DST_IP", 90, "DestinationIp") \subseteq Candidates(Len(text))
    <2>1. /\ "EMAIL" \in Markers /\ "PERSON" \in Markers /\ "SRC_IP" \in Markers /\ "DST_IP" \in Markers
          /\ "Privacy" \in Kinds /\ "SourceIp" \in Kinds /\ "DestinationIp" \in Kinds
        BY DEF Markers, Kinds
    <2> QED BY <2>1, MarkersOfIn
<1> QED BY <1>1, <1>2 DEF AllCandidates

(* A segment that repeats a piece of the text repeats no date, for a date is
   always found, and no personal value, for there is none left.              *)
LEMMA SegmentsClean ==
    ASSUME NEW text \in Seq(Clean), NEW i \in DOMAIN compile_segments(text)
    PROVE  compile_segments(text)[i] \notin Leftovers
<1> DEFINE C == AllCandidates(text)
           parts == cut(text, C)
<1>1. text \in Seq(Pieces)
    BY CleanText
<1>2. compile_segments(text)
          = [k \in DOMAIN parts |-> [kind |-> parts[k].kind, style |-> parts[k].style,
                                     text |-> parts[k].text]]
    BY DEF compile_segments, AllCandidates, MarkersOf
<1>3. parts \in Seq(PartsOf(text, C)) /\ C \in SUBSET Candidates(Len(text))
    BY <1>1, AllIn, CutIn
<1>4. \A k \in DOMAIN text : text[k] = "date" => \E c \in C : c.position = k
    BY <1>1, TimestampsIn DEF AllCandidates
<1> HIDE DEF C, parts
<1> DEFINE part == parts[i]
           segment == [kind |-> part.kind, style |-> part.style, text |-> part.text]
<1>5. compile_segments(text)[i] = segment
    BY <1>2
<1>6. part \in PartsOf(text, C)
    BY <1>2, <1>3
<1> HIDE DEF part
<1>9. segment.kind = part.kind /\ segment.text = part.text
    OBVIOUS
<1>10. ASSUME NEW r \in Leftovers
       PROVE  r.kind = "Literal" /\ (r.text = <<"mail">> \/ r.text = <<"date">>)
    <2>1. PICK piece \in {"mail", "date"} :
              r = [kind |-> "Literal", style |-> "", text |-> <<piece>>]
        BY DEF Leftovers, Recorded
    <2>2. r.kind = "Literal" /\ r.text = <<piece>>
        BY <2>1
    <2> QED BY <2>2
<1> HIDE DEF segment
<1>7. CASE part \in C
    <2>1. part.kind \in Kinds
        BY <1>3, <1>7, CandidateType
    <2>2. segment.kind # "Literal"
        BY <1>9, <2>1 DEF Kinds
    <2> QED BY <1>5, <1>10, <2>2
<1>8. CASE part \notin C
    <2>1. PICK k \in DOMAIN text : part = Literal(text, k) /\ \A c \in C : c.position # k
        BY <1>6, <1>8 DEF PartsOf
    <2>2. text[k] # "date" /\ text[k] # "mail"
        <3>1. text[k] \in Clean
            OBVIOUS
        <3> QED BY <1>4, <2>1, <3>1 DEF Clean
    <2> DEFINE piece == text[k]
    <2>3. segment.text = <<piece>>
        BY <1>9, <2>1 DEF Literal, Candidate
    <2> HIDE DEF piece
    <2>4. <<piece>> # <<"date">> /\ <<piece>> # <<"mail">>
        BY <2>2 DEF piece
    <2> QED BY <1>5, <1>10, <2>3, <2>4
<1> QED BY <1>7, <1>8

-----------------------------------------------------------------------------
(* A text is tokenized from front to back: what holds of no output before the
   first piece, and goes on holding when the token of a part is appended and
   the part is passed, holds of the whole output behind the last piece.       *)

Behind(parts, k) == IF k = 0 THEN 1 ELSE parts[k].position + parts[k].length

Tiles(text, C, state) ==
    /\ \A k \in 1..Len(state.parts) :
          /\ state.parts[k].position \in 1..Len(text)
          /\ state.parts[k].position = Behind(state.parts, k - 1)
          /\ state.parts[k] = Part(text, C, state.parts[k].position)
    /\ Behind(state.parts, Len(state.parts)) = state.cursor

(* The part of a text at a place lies within the text.                     *)
LEMMA PartAt ==
    ASSUME NEW text \in Seq(Pieces), NEW C \in SUBSET Candidates(Len(text)), NEW i \in 1..Len(text)
    PROVE  /\ Part(text, C, i).position = i /\ Part(text, C, i).length \in 1..Len(text)
           /\ i + Part(text, C, i).length <= Len(text) + 1
<1> DEFINE n == Len(text)
           here == {c \in C : c.position = i}
           part == Part(text, C, i)
<1>1. n \in Nat /\ i \in 1..n
    OBVIOUS
<1>2. CASE here = {}
    <2>1. part = Literal(text, i)
        BY <1>2 DEF Part
    <2>2. Literal(text, i).position = i /\ Literal(text, i).length = 1
        BY DEF Literal, Candidate
    <2> QED BY <1>1, <2>1, <2>2
<1>3. CASE here # {}
    <2>1. here \in SUBSET Candidates(n) /\ part = best(here)
        BY <1>3 DEF Part
    <2>2. part \in here
        BY <1>1, <1>3, <2>1, BestIn
    <2>3. part \in Candidates(n) /\ part.position = i
        BY <2>1, <2>2
    <2> HIDE DEF part, n
    <2>4. part.length \in 1..n /\ part.position + part.length - 1 <= n
        BY <1>1, <2>3, CandidateType
    <2> QED BY <1>1, <2>3, <2>4 DEF part, n
<1> QED BY <1>2, <1>3

(* The parts of a text stand end to end.                                   *)
LEMMA CutTiles ==
    ASSUME NEW text \in Seq(Pieces), NEW C \in SUBSET Candidates(Len(text))
    PROVE  LET parts == cut(text, C)
           IN  Tiles(text, C, [cursor |-> Len(text) + 1, parts |-> parts])
<1> DEFINE n == Len(text)
           P == PartsOf(text, C)
           S == Seq(P)
           V == [cursor : Nat, parts : S]
<1>1. n \in Nat
    OBVIOUS
<1>2. PICK f : Cuts(f, text, C) /\ cut(text, C) = f[n].parts /\ \A k \in 0..n : f[k] \in V
    BY CutWalk
<1> DEFINE Good(k) == Tiles(text, C, f[k]) /\ f[k].cursor \in (k + 1)..(n + 1)
           T == {k \in Nat : k <= n => Good(k)}
<1>3. \A i \in 1..n : /\ Part(text, C, i).position = i /\ Part(text, C, i).length \in 1..n
                      /\ i + Part(text, C, i).length <= n + 1
    BY PartAt
<1> HIDE DEF n, P
<1>4. 0 \in T
    <2>1. f[0] = [cursor |-> 1, parts |-> <<>>]
        BY <1>2 DEF Cuts
    <2>2. f[0].cursor = 1 /\ Len(f[0].parts) = 0
        BY <2>1
    <2>3. Tiles(text, C, f[0])
        BY <2>2 DEF Tiles, Behind
    <2> QED BY <1>1, <2>2, <2>3
<1>5. ASSUME NEW k \in Nat, k \in T
      PROVE  k + 1 \in T
    <2>1. CASE k + 1 <= n
        <3> DEFINE i == k + 1
                   v == f[k]
                   w == f[i]
                   part == Part(text, C, i)
        <3>1. i \in 1..n /\ k <= n /\ k \in 0..n /\ i - 1 = k
            BY <1>1, <2>1
        <3>2. Good(k) /\ v \in V
            BY <1>2, <1>5, <3>1
        <3>3. w = CutAt(text, C, v, i)
            BY <1>2, <3>1 DEF Cuts, n
        <3>4. v.parts \in S /\ v.cursor \in Nat
            BY <3>2
        <3>5. CASE i < v.cursor
            <4>1. w = v
                BY <3>3, <3>5 DEF CutAt
            <4> QED BY <1>1, <3>1, <3>2, <3>5, <4>1
        <3>6. CASE ~(i < v.cursor)
            <4>1. v.cursor = i
                BY <3>1, <3>2, <3>6
            <4>2. w = [cursor |-> i + part.length, parts |-> Append(v.parts, part)]
                BY <3>3, <3>6 DEF CutAt
            <4>3. part.position = i /\ part.length \in 1..n /\ i + part.length <= n + 1
                BY <1>3, <3>1
            <4> DEFINE m == Len(v.parts)
                       more == Append(v.parts, part)
            <4>4. m \in Nat /\ Len(more) = m + 1 /\ more[m + 1] = part
                  /\ \A j \in 1..m : more[j] = v.parts[j]
                <5> DEFINE a == v.parts
                <5>1. a \in Seq(P)
                    BY <3>4
                <5> HIDE DEF a, part
                <5> QED BY <5>1
            <4>5. w.parts = more /\ w.cursor = i + part.length
                BY <4>2
            <4> HIDE DEF more, m, v, w, part, i
            <4>6. /\ \A j \in 1..m : v.parts[j].position \in 1..n
                                     /\ v.parts[j].position = Behind(v.parts, j - 1)
                                     /\ v.parts[j] = Part(text, C, v.parts[j].position)
                  /\ Behind(v.parts, m) = i
                BY <3>2, <4>1 DEF Tiles, m, v, n
            <4>7. \A j \in 0..m : Behind(more, j) = Behind(v.parts, j)
                BY <4>4 DEF Behind
            <4>8. ASSUME NEW j \in 1..(m + 1)
                  PROVE  /\ more[j].position \in 1..n
                         /\ more[j].position = Behind(more, j - 1)
                         /\ more[j] = Part(text, C, more[j].position)
                <5>1. CASE j \in 1..m
                    <6>1. j - 1 \in 0..m
                        BY <4>4, <5>1
                    <6> QED BY <4>4, <4>6, <4>7, <5>1, <6>1
                <5>2. CASE j = m + 1
                    <6>1. more[j] = part /\ j - 1 = m /\ m \in 0..m
                        BY <4>4, <5>2
                    <6>2. part = Part(text, C, i)
                        BY DEF part, i
                    <6> QED BY <3>1, <4>3, <4>6, <4>7, <6>1, <6>2
                <5> QED BY <4>4, <5>1, <5>2
            <4>9. Behind(more, m + 1) = i + part.length
                BY <4>3, <4>4 DEF Behind
            <4>10. Tiles(text, C, w)
                BY <4>4, <4>5, <4>8, <4>9 DEF Tiles, n
            <4>11. w.cursor \in (i + 1)..(n + 1)
                BY <1>1, <3>1, <4>3, <4>5
            <4> QED BY <4>10, <4>11 DEF i, w
        <3> QED BY <3>5, <3>6
    <2>2. CASE ~(k + 1 <= n)
        BY <2>2
    <2> QED BY <2>1, <2>2
<1>6. n \in T
    <2> HIDE DEF T
    <2> QED BY <1>1, <1>4, <1>5, Naturals
<1>7. Tiles(text, C, f[n]) /\ f[n].cursor = n + 1
    BY <1>1, <1>6
<1>8. Tiles(text, C, [cursor |-> n + 1, parts |-> f[n].parts])
    BY <1>7 DEF Tiles
<1> QED BY <1>2, <1>8 DEF n

LEMMA TokenizeBy ==
    ASSUME NEW text \in Seq(Clean), NEW G, << <<>>, 1 >> \in G,
           \A i \in 1..Len(text) : \A output \in Seq(Clean) : <<output, i>> \in G =>
               LET part == Part(text, timestamp_candidates(text), i)
               IN  <<output \o Token(text, part), i + part.length>> \in G
    PROVE  <<tokenize_timestamps(text), Len(text) + 1>> \in G
<1> DEFINE C == timestamp_candidates(text)
           parts == cut(text, C)
           n == Len(text)
           m == Len(parts)
           R == Seq(Clean)
           Extends(i) == \A output \in R : <<output, i>> \in G =>
                          <<output \o Token(text, Part(text, C, i)), i + Part(text, C, i).length>> \in G
<1>1. text \in Seq(Pieces) /\ C \in SUBSET Candidates(n)
    <2>1. text \in Seq(Pieces)
        BY CleanText
    <2> QED BY <2>1, TimestampsIn DEF Stamps
<1>2. m \in Nat
    <2>1. parts \in Seq(PartsOf(text, C))
        BY <1>1, CutIn
    <2> HIDE DEF parts
    <2> QED BY <2>1
<1>3. Tiles(text, C, [cursor |-> n + 1, parts |-> parts])
    BY <1>1, CutTiles
<1>4. PICK f : /\ Joins(f, text, parts) /\ tokenize_timestamps(text) = f[m]
               /\ \A k \in 0..m : f[k] \in R
    BY JoinWalk
<1>5. \A i \in 1..n : Extends(i)
    OBVIOUS
<1> HIDE DEF C, parts, n, m, R, Extends
<1>6. /\ \A k \in 1..m : /\ parts[k].position \in 1..n
                         /\ parts[k].position = Behind(parts, k - 1)
                         /\ parts[k] = Part(text, C, parts[k].position)
      /\ Behind(parts, m) = n + 1
    BY <1>3 DEF Tiles, m, n
<1> DEFINE T == {k \in Nat : k <= m => <<f[k], Behind(parts, k)>> \in G}
<1>7. 0 \in T
    BY <1>4 DEF Joins, Behind
<1>8. ASSUME NEW k \in Nat, k \in T
      PROVE  k + 1 \in T
    <2>1. CASE k + 1 <= m
        <3> DEFINE part == parts[k + 1]
                   i == part.position
        <3>1. k + 1 \in 1..m /\ k <= m /\ k \in 0..m /\ (k + 1) - 1 = k /\ k + 1 # 0
            BY <1>2, <2>1
        <3>2. i \in 1..n /\ i = Behind(parts, k) /\ part = Part(text, C, i)
            BY <1>6, <3>1
        <3>3. f[k + 1] = f[k] \o Token(text, part) /\ f[k] \in R
            BY <1>4, <3>1 DEF Joins, m
        <3>4. Behind(parts, k + 1) = i + part.length
            BY <3>1 DEF Behind
        <3>5. <<f[k], i>> \in G
            BY <1>8, <3>1, <3>2
        <3>6. Extends(i)
            BY <1>5, <3>2
        <3> HIDE DEF part, i
        <3>7. <<f[k] \o Token(text, part), i + part.length>> \in G
            BY <3>2, <3>3, <3>5, <3>6 DEF Extends
        <3> DEFINE output == f[k + 1]
                   next == Behind(parts, k + 1)
        <3>8. output = f[k] \o Token(text, part) /\ next = i + part.length
            BY <3>3, <3>4
        <3> HIDE DEF output, next
        <3>9. <<output, next>> \in G
            BY <3>7, <3>8
        <3> QED BY <3>9 DEF output, next
    <2>2. CASE ~(k + 1 <= m)
        BY <2>2
    <2> QED BY <2>1, <2>2
<1>9. m \in T
    <2> HIDE DEF T
    <2> QED BY <1>2, <1>7, <1>8, Naturals
<1> QED BY <1>2, <1>4, <1>6, <1>9 DEF n

-----------------------------------------------------------------------------
(* Texts in which every marker of a time stamp has a known key and an end, and
   none begins inside another: what the patterns find in them.               *)

Marked(text, i, e) ==
    /\ e \in (i + 2)..Len(text)
    /\ text[i] = "TS" /\ text[i + 1] \in Keys /\ text[e] \in Closing
    /\ \A j \in (i + 2)..(e - 1) : text[j] \notin Closing /\ text[j] # "TS"
Closed(text) == \A i \in 1..Len(text) : text[i] = "TS" => \E e \in Nat : Marked(text, i, e)

(* Which pieces differ, as far as the proofs of markers need it.           *)
LEMMA Symbols ==
    /\ Keys \subseteq Separators /\ "TS" \notin Keys /\ "TS" \notin Closing /\ "end" \in Closing
    /\ "date" \notin Closing /\ "clock" \notin Closing /\ "date" \notin Keys
    /\ "date" # "TS" /\ "clock" # "TS" /\ "end" # "TS" /\ "end" # "date"
    /\ "DATE:" \in Keys /\ "ISO8601:" \in Keys /\ Markers \subseteq Closing
    /\ Keys \cap Closing = {} /\ "TS" \notin Markers
BY DEF Keys, Separators, Closing, Markers

(* The first member of S from a place on.                                  *)
LEMMA FirstIs ==
    ASSUME NEW text, NEW from \in Nat, NEW S, Len(text) \in Nat, NEW e \in from..Len(text),
           text[e] \in S, \A j \in from..(e - 1) : text[j] \notin S
    PROVE  First(text, from, S) = e
<1> DEFINE I == {j \in from..Len(text) : text[j] \in S}
<1>1. e \in I /\ I \in SUBSET Nat /\ I # {}
    OBVIOUS
<1>2. \A j \in I : j >= e
    OBVIOUS
<1>3. Min(I) = e
    <2> HIDE DEF I
    <2>1. Min(I) \in I /\ \A k \in I : Min(I) <= k
        BY <1>1, LeastNumber
    <2> DEFINE m == Min(I)
    <2> HIDE DEF m
    <2>2. m \in I /\ m <= e /\ m >= e /\ m \in Nat /\ e \in Nat
        BY <1>1, <1>2, <2>1 DEF m
    <2>3. m = e
        BY <2>2
    <2> QED BY <2>3 DEF m
<1> QED BY <1>1, <1>3 DEF First

(* A marker with a known key ends where marker_end finds its end.          *)
LEMMA MarkerEnd ==
    ASSUME NEW text, Len(text) \in Nat, NEW i \in Nat, NEW e, Marked(text, i, e)
    PROVE  marker_end(text, i) = e
<1>1. First(text, i + 1, Separators) = i + 1
    <2>1. i + 1 \in (i + 1)..Len(text) /\ i + 1 \in Nat /\ (i + 1)..((i + 1) - 1) = {}
        BY DEF Marked
    <2>2. text[i + 1] \in Separators
        BY Symbols DEF Marked
    <2> QED BY <2>1, <2>2, FirstIs
<1>2. First(text, (i + 1) + 1, Closing) = e
    <2>1. (i + 1) + 1 = i + 2 /\ i + 2 \in Nat
        OBVIOUS
    <2>2. First(text, i + 2, Closing) = e
        BY <2>1, FirstIs DEF Marked
    <2> QED BY <2>1, <2>2
<1>3. i + 1 # 0
    OBVIOUS
<1> QED BY <1>1, <1>2, <1>3, MarkerEndIs

LEMMA StampPosition ==
    ASSUME NEW text, NEW i, NEW e
    PROVE  /\ Stamp(text, i, e).position = i /\ Stamp(text, i, e).length = e - i + 1
           /\ Stamp(text, i, e).kind = "Timestamp"
BY DEF Stamp, Candidate

(* The markers found are those there are.                                    *)
LEMMA MarkersFound ==
    ASSUME NEW text \in Seq(Pieces), Closed(text)
    PROVE  /\ \A i \in 1..Len(text) : text[i] = "TS" =>
                 Stamp(text, i, marker_end(text, i)) \in timestamp_markers(text)
           /\ \A c \in timestamp_markers(text) :
                 /\ c.position \in 1..Len(text) /\ text[c.position] = "TS"
                 /\ c = Stamp(text, c.position, marker_end(text, c.position))
<1> DEFINE n == Len(text)
           Own(i) == Stamp(text, i, marker_end(text, i))
           Real(c) == /\ c.position \in 1..n /\ text[c.position] = "TS"
                      /\ c = Own(c.position)
           Good(k, v) == /\ v.next \in Nat
                         /\ \A c \in v.found : Real(c)
                         /\ \A i \in 1..n : text[i] = "TS" /\ i <= k => Own(i) \in v.found
                         /\ \A i \in 1..n : text[i] = "TS" /\ i > k => v.next <= i
<1>1. n \in Nat
    OBVIOUS
<1>2. PICK f : Scans(f, text) /\ timestamp_markers(text) = f[n].found
    BY ScanWalk
<1>3. ASSUME NEW i \in 1..n, text[i] = "TS"
      PROVE  \E e \in Nat : Marked(text, i, e) /\ marker_end(text, i) = e
    <2>1. PICK e \in Nat : Marked(text, i, e)
        BY <1>3 DEF Closed
    <2> QED BY <1>1, <2>1, MarkerEnd
<1> HIDE DEF n, Own
<1>4. \A i : Own(i).position = i
    BY StampPosition DEF Own
<1> DEFINE T == {k \in Nat : k <= n => Good(k, f[k])}
<1>5. 0 \in T
    <2>1. f[0].next = 1 /\ f[0].found = {}
        BY <1>2 DEF Scans
    <2>2. Good(0, f[0])
        BY <1>1, <2>1
    <2> QED BY <2>2
<1>6. ASSUME NEW k \in Nat, k \in T
      PROVE  k + 1 \in T
    <2>1. CASE k + 1 <= n
        <3> DEFINE i == k + 1
                   v == f[k]
                   w == f[i]
        <3>1. i \in 1..n /\ k <= n /\ i - 1 = k
            BY <1>1, <2>1
        <3>2. Good(k, v)
            BY <1>6, <3>1
        <3>3. w = Scanned(text, v, i)
            BY <1>2, <3>1 DEF Scans, n
        <3>4. CASE text[i] # "TS"
            <4>1. w = v
                BY <3>3, <3>4 DEF Scanned
            <4>2. \A j \in 1..n : text[j] = "TS" => (j <= i <=> j <= k)
                BY <1>1, <3>1, <3>4
            <4> HIDE DEF v, w
            <4>3. Good(i, w)
                BY <1>1, <3>1, <3>2, <4>1, <4>2
            <4> QED BY <4>3 DEF w
        <3>5. CASE text[i] = "TS"
            <4>1. PICK e \in Nat : Marked(text, i, e) /\ marker_end(text, i) = e
                BY <1>3, <3>1, <3>5
            <4>2. v.next <= i /\ v.next \in Nat /\ e # 0 /\ text[i + 1] \in Keys
                BY <3>1, <3>2, <3>5, <4>1 DEF Marked
            <4>3. w.next = e + 1 /\ w.found = v.found \cup {Own(i)}
                <5>1. ~(i < v.next)
                    BY <3>1, <4>2
                <5>2. w = [next |-> e + 1, found |-> v.found \cup {Stamp(text, i, e)}]
                    BY <3>3, <3>5, <4>1, <4>2, <5>1 DEF Scanned
                <5>3. Stamp(text, i, e) = Own(i)
                    BY <4>1 DEF Own
                <5> HIDE DEF w, v, i
                <5> QED BY <5>2, <5>3
            <4>4. Real(Own(i))
                BY <1>4, <3>1, <3>5
            <4>5. ASSUME NEW j \in 1..n, text[j] = "TS", j > i
                  PROVE  e + 1 <= j
                <5>1. j # i + 1
                    BY <4>2, <4>5, Symbols
                <5>2. j # e
                    BY <4>1, <4>5, Symbols DEF Marked
                <5>3. j \notin (i + 2)..(e - 1)
                    BY <4>1, <4>5 DEF Marked
                <5> QED BY <1>1, <3>1, <4>1, <4>5, <5>1, <5>2, <5>3
            <4> HIDE DEF v, w, Real
            <4>6. \A c \in w.found : Real(c)
                BY <3>2, <4>3, <4>4
            <4>7. \A j \in 1..n : text[j] = "TS" /\ j <= i => Own(j) \in w.found
                BY <1>1, <3>1, <3>2, <4>3
            <4>8. \A j \in 1..n : text[j] = "TS" /\ j > i => w.next <= j
                BY <4>3, <4>5
            <4>9. Good(i, w)
                BY <4>3, <4>6, <4>7, <4>8
            <4> QED BY <4>9 DEF w
        <3> QED BY <3>4, <3>5
    <2>2. CASE ~(k + 1 <= n)
        BY <2>2
    <2> QED BY <2>1, <2>2
<1>7. n \in T
    <2> HIDE DEF T
    <2> QED BY <1>1, <1>5, <1>6, Naturals
<1>8. Good(n, f[n])
    BY <1>1, <1>7
<1>9. \A i \in 1..n : text[i] = "TS" => Own(i) \in timestamp_markers(text)
    BY <1>1, <1>2, <1>8
<1> QED BY <1>2, <1>8, <1>9 DEF n, Own


(* What follows a place in such a text, as its token: a piece, a marker, or a
   recorded time in a marker of its own.                                     *)

Single(text, i, block, next) ==
    text[i] \notin {"TS", "date"} /\ block = <<text[i]>> /\ next = i + 1
Whole(text, i, block, next) ==
    \E e \in Nat : Marked(text, i, e) /\ block = SubSeq(text, i, e) /\ next = e + 1
Wrap(style, time) == <<"TS", style>> \o time \o <<"end">>
Wrapped(text, i, block, next) ==
    /\ next \in (i + 1)..(Len(text) + 1)
    /\ text[i] = "date"
    /\ \A j \in i..(next - 1) : text[j] \in {"date", "clock"}
    /\ \E style \in Keys : block = Wrap(style, SubSeq(text, i, next - 1))
Block(text, i, block, next) ==
    Single(text, i, block, next) \/ Whole(text, i, block, next) \/ Wrapped(text, i, block, next)

Long(i) == Candidate(i, 2, 0, "Timestamp", "ISO8601:", <<"date", "clock">>)
Short(i) == Candidate(i, 1, 11, "Timestamp", "DATE:", <<"date">>)

(* The fields of the candidates of a recorded time.                        *)
LEMMA DateShapes ==
    ASSUME NEW i
    PROVE  /\ Long(i).position = i /\ Long(i).length = 2 /\ Long(i).style \in Keys
           /\ Long(i).kind = "Timestamp"
           /\ Short(i).position = i /\ Short(i).length = 1 /\ Short(i).style \in Keys
           /\ Short(i).kind = "Timestamp"
BY DEF Long, Short, Candidate, Keys

(* The fields of a piece that no candidate covers.                         *)
LEMMA LiteralIs ==
    ASSUME NEW text, NEW i
    PROVE  /\ Literal(text, i).position = i /\ Literal(text, i).length = 1
           /\ Literal(text, i).kind = "Literal"
BY DEF Literal, Candidate

(* A candidate is of a marker or of a recorded time.                       *)
LEMMA CandidatesAre ==
    ASSUME NEW text, NEW c \in timestamp_candidates(text)
    PROVE  \/ c \in timestamp_markers(text)
           \/ \E i \in DOMAIN text : /\ text[i] = "date"
                                     /\ c = Short(i) \/ (c = Long(i) /\ i < Len(text)
                                                          /\ text[i + 1] = "clock")
BY DEF timestamp_candidates, Long, Short

(* The candidates of a place.                                                *)
LEMMA CandidatesAt ==
    ASSUME NEW text \in Seq(Pieces), Closed(text), NEW i \in 1..Len(text),
           NEW c \in timestamp_candidates(text), c.position = i
    PROVE  \/ text[i] = "TS" /\ c = Stamp(text, i, marker_end(text, i))
           \/ text[i] = "date" /\ (c = Short(i) \/ (c = Long(i) /\ i < Len(text)
                                                      /\ text[i + 1] = "clock"))
<1>1. CASE c \in timestamp_markers(text)
    <2>1. text[c.position] = "TS" /\ c = Stamp(text, c.position, marker_end(text, c.position))
        BY <1>1, MarkersFound
    <2> QED BY <2>1
<1>2. CASE c \notin timestamp_markers(text)
    <2>1. PICK j \in DOMAIN text : /\ text[j] = "date"
                                   /\ c = Short(j) \/ (c = Long(j) /\ j < Len(text)
                                                        /\ text[j + 1] = "clock")
        BY <1>2, CandidatesAre
    <2>2. j = i
        BY <2>1, DateShapes
    <2> QED BY <2>1, <2>2
<1> QED BY <1>1, <1>2

(* A sequence of one piece.                                                *)
LEMMA OnePiece ==
    ASSUME NEW S, NEW text \in Seq(S), NEW i \in 1..Len(text)
    PROVE  SubSeq(text, i, i) = <<text[i]>>
<1> DEFINE s == SubSeq(text, i, i)
           t == <<text[i]>>
<1>1. i \in Int /\ \A j \in i..i : text[j] \in S
    BY ElementOfSeq
<1>2. s \in Seq(S) /\ Len(s) = 1 /\ s[1] = text[i]
    <2>1. i <= i /\ i - i + 1 = 1 /\ i + 1 - 1 = i /\ 1 \in 1..(i - i + 1)
        BY <1>1
    <2> QED BY <1>1, <2>1, SubSeqProperties
<1>3. t \in Seq(S) /\ Len(t) = 1 /\ t[1] = text[i]
    <2>1. text[i] \in S
        BY ElementOfSeq
    <2> QED BY <2>1
<1> HIDE DEF s, t
<1>4. s = t
    <2>1. Len(s) = Len(t) /\ \A j \in 1..Len(s) : s[j] = t[j]
        BY <1>2, <1>3
    <2> QED BY <1>2, <1>3, <2>1, SeqEqual
<1> QED BY <1>4 DEF s, t

(* The token of every part is one of the three blocks.                     *)
LEMMA TokenAt ==
    ASSUME NEW text \in Seq(Clean), Closed(text), NEW i \in 1..Len(text)
    PROVE  LET part == Part(text, timestamp_candidates(text), i)
           IN  Block(text, i, Token(text, part), i + part.length)
<1> DEFINE C == timestamp_candidates(text)
           n == Len(text)
           here == {c \in C : c.position = i}
           part == Part(text, C, i)
<1>1. text \in Seq(Pieces) /\ n \in Nat /\ DOMAIN text = 1..n
    BY CleanText
<1>2. C \in SUBSET Candidates(n) /\ timestamp_markers(text) \subseteq C
      /\ \A j \in DOMAIN text : text[j] = "date" => \E c \in C : c.position = j
    BY <1>1, TimestampsIn DEF Stamps, timestamp_candidates
<1>3. here # {} => part \in C /\ part.position = i
    <2> SUFFICES ASSUME here # {} PROVE part \in here
        OBVIOUS
    <2>1. best(here) \in here
        BY <1>1, <1>2, BestIn
    <2>2. part = best(here)
        BY DEF Part
    <2> QED BY <2>1, <2>2
<1>4. here = {} => part = Literal(text, i)
    BY DEF Part
<1>5. \A c \in C : c.position = i =>
          \/ text[i] = "TS" /\ c = Stamp(text, i, marker_end(text, i))
          \/ text[i] = "date" /\ (c = Short(i) \/ (c = Long(i) /\ i < n /\ text[i + 1] = "clock"))
    BY <1>1, CandidatesAt
<1>6. ASSUME NEW c
      PROVE  Original(text, c) = SubSeq(text, c.position, c.position + c.length - 1)
    BY DEF Original
<1> HIDE DEF part, C
<1>7. CASE text[i] = "TS"
    <2>1. PICK e \in Nat : Marked(text, i, e)
        BY <1>1, <1>7 DEF Closed
    <2>2. marker_end(text, i) = e /\ e \in (i + 2)..n
        BY <1>1, <2>1, MarkerEnd DEF Marked
    <2>3. here # {}
        <3>1. Stamp(text, i, e) \in C
            BY <1>1, <1>2, <1>7, <2>2, MarkersFound
        <3> QED BY <3>1, StampPosition
    <2>4. part = Stamp(text, i, e)
        BY <1>3, <1>5, <1>7, <2>2, <2>3
    <2>5. part.position = i /\ part.length = e - i + 1 /\ part.kind = "Timestamp"
        BY <2>4, StampPosition
    <2>6. i + part.length = e + 1 /\ i + part.length - 1 = e
        BY <2>2, <2>5
    <2>7. Original(text, part) = SubSeq(text, i, e)
        BY <1>6, <2>5, <2>6
    <2>8. SubSeq(text, i, e)[1] = "TS"
        BY <1>1, <1>7, <2>2
    <2>9. Token(text, part) = SubSeq(text, i, e)
        BY <2>7, <2>8 DEF Token
    <2> DEFINE token == Token(text, part)
               next == i + part.length
    <2>10. token = SubSeq(text, i, e) /\ next = e + 1
        BY <2>6, <2>9
    <2> HIDE DEF token, next
    <2>11. Whole(text, i, token, next)
        BY <2>1, <2>10 DEF Whole
    <2> QED BY <2>11 DEF Block, token, next, part, C
<1>8. CASE text[i] = "date"
    <2>1. here # {}
        BY <1>1, <1>2, <1>8
    <2>2. part = Short(i) \/ (part = Long(i) /\ i < n /\ text[i + 1] = "clock")
        BY <1>3, <1>5, <1>8, <2>1
    <2>3. part.position = i /\ part.kind # "Literal" /\ part.style \in Keys
        BY <2>2, DateShapes
    <2>4. part.length \in 1..2 /\ i + part.length - 1 \in i..n
          /\ \A j \in i..(i + part.length - 1) : text[j] \in {"date", "clock"}
        <3>1. CASE part = Short(i)
            <4>1. part.length = 1
                BY <3>1, DateShapes
            <4>2. i + part.length - 1 = i
                BY <4>1
            <4> QED BY <1>1, <1>8, <4>1, <4>2
        <3>2. CASE part = Long(i) /\ i < n /\ text[i + 1] = "clock"
            <4>1. part.length = 2
                BY <3>2, DateShapes
            <4>2. i + part.length - 1 = i + 1 /\ i..(i + 1) = {i, i + 1}
                BY <4>1
            <4> QED BY <1>1, <1>8, <3>2, <4>1, <4>2
        <3> QED BY <2>2, <3>1, <3>2
    <2> DEFINE token == Token(text, part)
               original == Original(text, part)
               style == part.style
               last == i + part.length - 1
               next == i + part.length
    <2>5. original = SubSeq(text, i, last)
        BY <1>6, <2>3
    <2>6. original[1] # "TS"
        <3>1. SubSeq(text, i, last)[1] = text[i]
            <4>1. last \in i..n
                BY <2>4
            <4> HIDE DEF last
            <4> QED BY <1>1, <4>1
        <3> HIDE DEF original, last
        <3> QED BY <1>8, <2>5, <3>1
    <2>7. token = Wrap(style, original)
        BY <2>3, <2>6 DEF Token, Wrap
    <2>8. next \in (i + 1)..(n + 1) /\ last = next - 1
        BY <1>1, <2>4
    <2>9. \A j \in i..last : text[j] \in {"date", "clock"}
        BY <2>4
    <2> HIDE DEF token, original, style, last, next
    <2>10. Wrapped(text, i, token, next)
        <3>1. style \in Keys
            BY <2>3 DEF style
        <3> QED BY <1>8, <2>5, <2>7, <2>8, <2>9, <3>1 DEF Wrapped, n
    <2> QED BY <2>10 DEF Block, token, next, part, C
<1>9. CASE text[i] \notin {"TS", "date"}
    <2>1. here = {}
        BY <1>5, <1>9
    <2>2. part = Literal(text, i)
        BY <1>4, <2>1
    <2>3. part.position = i /\ part.kind = "Literal" /\ part.length = 1 /\ i + part.length - 1 = i
        BY <2>2, LiteralIs
    <2>4. Original(text, part) = SubSeq(text, i, i)
        BY <1>6, <2>3
    <2>5. SubSeq(text, i, i) = <<text[i]>>
        BY OnePiece
    <2>6. Token(text, part) = <<text[i]>>
        BY <2>3, <2>4, <2>5 DEF Token
    <2> DEFINE token == Token(text, part)
               next == i + part.length
    <2>7. token = <<text[i]>> /\ next = i + 1
        BY <2>3, <2>6
    <2> HIDE DEF token, next
    <2>8. Single(text, i, token, next)
        BY <1>9, <2>7 DEF Single
    <2> QED BY <2>8 DEF Block, token, next, part, C
<1> QED BY <1>7, <1>8, <1>9

(* So what holds of no output and goes on holding with each block
   appended holds of the whole output.                                     *)
LEMMA TokenizeBlocks ==
    ASSUME NEW text \in Seq(Clean), Closed(text), NEW G, << <<>>, 1 >> \in G,
           \A i \in 1..Len(text) : \A output \in Seq(Clean) : \A block, next :
               <<output, i>> \in G /\ Block(text, i, block, next) => <<output \o block, next>> \in G
    PROVE  <<tokenize_timestamps(text), Len(text) + 1>> \in G
<1>1. ASSUME NEW i \in 1..Len(text), NEW output \in Seq(Clean), <<output, i>> \in G
      PROVE  LET part == Part(text, timestamp_candidates(text), i)
             IN  <<output \o Token(text, part), i + part.length>> \in G
    <2> DEFINE part == Part(text, timestamp_candidates(text), i)
    <2>1. Block(text, i, Token(text, part), i + part.length)
        BY TokenAt
    <2> HIDE DEF part
    <2>2. <<output \o Token(text, part), i + part.length>> \in G
        BY <1>1, <2>1
    <2> QED BY <2>2 DEF part
<1> QED BY <1>1, TokenizeBy

LEMMA SymbolsMore ==
    /\ "clock" \notin Keys /\ "date" # "clock" /\ "date" # "end"
    /\ \A s \in {"mail", "ip"} : s # "TS" /\ s \notin Keys /\ s \notin Closing /\ s # "date"
    /\ \A s \in Markers : s # "date" /\ s # "mail" /\ s # "ip" /\ s # "TS"
    /\ \A s \in Keys : s # "TS" /\ s # "date"
    /\ \A s \in Closing : s # "TS" /\ s # "date"
BY DEF Keys, Markers, Closing

Wraps(block, style, time) ==
    /\ block \in Seq(Clean) /\ Len(block) = Len(time) + 3
    /\ block[1] = "TS" /\ block[2] = style /\ block[Len(time) + 3] = "end"
    /\ \A j \in 3..(Len(time) + 2) : block[j] = time[j - 2]

(* The pieces of a wrapped time.                                           *)
LEMMA WrapIs ==
    ASSUME NEW style \in Keys, NEW time \in Seq(Clean)
    PROVE  Wraps(Wrap(style, time), style, time)
<1> DEFINE a == <<"TS", style>>
           z == <<"end">>
           n == Len(time)
           b == a \o time
           w == b \o z
<1>1. /\ a \in Seq(Clean) /\ Len(a) = 2 /\ a[1] = "TS" /\ a[2] = style
      /\ z \in Seq(Clean) /\ Len(z) = 1 /\ z[1] = "end"
    <2>1. "TS" \in Clean /\ "end" \in Clean /\ style \in Clean
        BY CleanPieces
    <2> QED BY <2>1
<1>2. n \in Nat
    OBVIOUS
<1> HIDE DEF a, z
<1>3. /\ b \in Seq(Clean) /\ Len(b) = Len(a) + n
      /\ \A i \in 1..(Len(a) + n) : b[i] = IF i <= Len(a) THEN a[i] ELSE time[i - Len(a)]
    BY <1>1, ConcatProperties
<1> HIDE DEF b, n
<1>4. Len(b) = n + 2 /\ \A i \in 1..(n + 2) : b[i] = IF i <= 2 THEN a[i] ELSE time[i - 2]
    BY <1>1, <1>2, <1>3
<1>5. /\ w \in Seq(Clean) /\ Len(w) = Len(b) + Len(z)
      /\ \A i \in 1..(Len(b) + Len(z)) : w[i] = IF i <= Len(b) THEN b[i] ELSE z[i - Len(b)]
    <2>1. b \in Seq(Clean) /\ z \in Seq(Clean)
        BY <1>1, <1>3
    <2> QED BY <2>1, ConcatProperties
<1> HIDE DEF w
<1>6. Len(w) = n + 3 /\ (\A i \in 1..(n + 2) : w[i] = b[i]) /\ w[n + 3] = z[1]
    <2>1. Len(b) + Len(z) = n + 3 /\ Len(b) = n + 2
        BY <1>1, <1>2, <1>4
    <2>2. Len(w) = n + 3 /\ \A i \in 1..(n + 3) : w[i] = IF i <= n + 2 THEN b[i] ELSE z[i - (n + 2)]
        BY <1>5, <2>1
    <2> DEFINE k == n + 3
    <2>3. k \in 1..(n + 3) /\ ~(k <= n + 2) /\ k - (n + 2) = 1
        BY <1>2
    <2> HIDE DEF k
    <2>4. w[k] = z[1]
        BY <2>2, <2>3
    <2>5. \A i \in 1..(n + 2) : i \in 1..(n + 3) /\ i <= n + 2
        BY <1>2
    <2> QED BY <2>2, <2>4, <2>5 DEF k
<1>7. w[1] = "TS" /\ w[2] = style
    BY <1>1, <1>2, <1>4, <1>6
<1>8. w[n + 3] = "end"
    BY <1>1, <1>6
<1>9. \A j \in 3..(n + 2) : w[j] = time[j - 2]
    BY <1>2, <1>4, <1>6
<1>10. w = Wrap(style, time)
    BY DEF Wrap, w, b, a, z
<1> QED BY <1>5, <1>6, <1>7, <1>8, <1>9, <1>10 DEF n, Wraps

(* The pieces of a block.                                                    *)
Copied(text, i, block, e) ==
    /\ e \in i..Len(text) /\ Len(block) = e - i + 1
    /\ \A j \in 1..(e - i + 1) : block[j] = text[i + j - 1]
Stamped(block) ==
    /\ Len(block) \in Nat /\ Len(block) >= 4 /\ block[1] = "TS" /\ block[2] \in Keys
    /\ block[Len(block)] = "end"
    /\ \A j \in 3..(Len(block) - 1) : block[j] \in {"date", "clock"}

(* The pieces of a block, and where the next one begins.                   *)
LEMMA BlockIs ==
    ASSUME NEW text \in Seq(Clean), NEW i \in 1..Len(text), NEW block, NEW next,
           Block(text, i, block, next)
    PROVE  /\ block \in Seq(Clean) /\ next \in (i + 1)..(Len(text) + 1)
           /\ \/ Single(text, i, block, next) /\ Copied(text, i, block, i)
              \/ /\ Marked(text, i, next - 1) /\ Copied(text, i, block, next - 1)
                 /\ block = SubSeq(text, i, next - 1)
              \/ /\ \A j \in i..(next - 1) : text[j] \in {"date", "clock"}
                 /\ Wrapped(text, i, block, next) /\ Stamped(block)
<1> DEFINE n == Len(text)
<1>1. n \in Nat /\ i \in Int /\ \A j \in 1..n : text[j] \in Clean
    OBVIOUS
<1>2. ASSUME NEW e \in i..n
      PROVE  /\ SubSeq(text, i, e) \in Seq(Clean) /\ Copied(text, i, SubSeq(text, i, e), e)
             /\ Len(SubSeq(text, i, e)) = e - i + 1
    <2>1. e \in Int /\ i <= e /\ \A j \in i..e : text[j] \in Clean
        BY <1>1
    <2> HIDE DEF n
    <2>2. /\ SubSeq(text, i, e) \in Seq(Clean) /\ Len(SubSeq(text, i, e)) = e - i + 1
          /\ \A j \in 1..(e - i + 1) : SubSeq(text, i, e)[j] = text[i + j - 1]
        BY <1>1, <2>1, SubSeqProperties
    <2> QED BY <1>2, <2>2 DEF Copied, n
<1>3. CASE Single(text, i, block, next)
    <2>1. block = SubSeq(text, i, i) /\ next = i + 1
        BY <1>3, OnePiece DEF Single
    <2>2. i \in i..n
        BY <1>1
    <2> QED BY <1>1, <1>2, <1>3, <2>1, <2>2
<1>4. CASE Whole(text, i, block, next)
    <2>1. PICK e \in Nat : Marked(text, i, e) /\ block = SubSeq(text, i, e) /\ next = e + 1
        BY <1>4 DEF Whole
    <2>2. e \in i..n /\ next - 1 = e /\ next \in (i + 1)..(n + 1)
        BY <1>1, <2>1 DEF Marked
    <2> QED BY <1>2, <2>1, <2>2
<1>5. CASE Wrapped(text, i, block, next)
    <2> DEFINE e == next - 1
               time == SubSeq(text, i, e)
    <2>1. PICK style \in Keys : block = Wrap(style, time)
        BY <1>5 DEF Wrapped
    <2>2. e \in i..n /\ next \in (i + 1)..(n + 1) /\ e - i + 1 \in Nat \ {0}
        BY <1>1, <1>5 DEF Wrapped
    <2>3. \A j \in i..e : text[j] \in {"date", "clock"}
        BY <1>5 DEF Wrapped
    <2>4. /\ time \in Seq(Clean) /\ Len(time) = e - i + 1
          /\ \A j \in 1..(e - i + 1) : time[j] = text[i + j - 1]
        BY <1>2, <2>2 DEF Copied
    <2> DEFINE m == Len(time)
    <2> HIDE DEF time, e
    <2>5. /\ block \in Seq(Clean) /\ Len(block) = m + 3
          /\ block[1] = "TS" /\ block[2] = style /\ block[m + 3] = "end"
          /\ \A j \in 3..(m + 2) : block[j] = time[j - 2]
        <3>1. time \in Seq(Clean)
            BY <2>4
        <3>2. Wraps(block, style, time)
            BY <2>1, <3>1, WrapIs
        <3> QED BY <3>2 DEF Wraps
    <2>6. \A j \in 1..m : time[j] \in {"date", "clock"}
        <3>1. m = e - i + 1 /\ e \in Int
            BY <1>1, <2>2, <2>4
        <3>2. \A j \in 1..m : time[j] = text[i + j - 1] /\ i + j - 1 \in i..e
            BY <1>1, <2>4, <3>1
        <3> HIDE DEF m
        <3> QED BY <2>3, <3>2
    <2>7. m \in Nat \ {0}
        BY <2>2, <2>4
    <2> HIDE DEF m
    <2>8. \A j \in 3..(m + 2) : block[j] \in {"date", "clock"}
        BY <2>5, <2>6, <2>7
    <2>9. Stamped(block)
        BY <2>5, <2>7, <2>8 DEF Stamped
    <2> QED BY <1>5, <2>2, <2>3, <2>5, <2>9 DEF e
<1> QED BY <1>3, <1>4, <1>5 DEF Block

-----------------------------------------------------------------------------
(* A tokenized text is settled: every recorded time lies in a marker, and no
   marker begins inside another.  Such a text is tokenized to itself.        *)

Settled(text) ==
    /\ Closed(text)
    /\ \A j \in 1..Len(text) : text[j] = "date" =>
          \E i \in 1..j : \E e \in Nat : Marked(text, i, e) /\ j <= e

(* A marker stays one when text is appended.                               *)
LEMMA MarkedLeft ==
    ASSUME NEW S, NEW a \in Seq(S), NEW b \in Seq(S), NEW i \in 1..Len(a), NEW e, Marked(a, i, e)
    PROVE  Marked(a \o b, i, e)
<1> DEFINE c == a \o b
           n == Len(a)
<1>1. /\ n \in Nat /\ Len(b) \in Nat /\ Len(c) = n + Len(b)
      /\ \A j \in 1..(n + Len(b)) : c[j] = IF j <= n THEN a[j] ELSE b[j - n]
    BY ConcatProperties
<1> HIDE DEF c
<1>2. \A j \in 1..n : c[j] = a[j]
    BY <1>1
<1>3. e \in (i + 2)..n /\ i \in 1..n
    BY DEF Marked
<1>4. i + 1 \in 1..n /\ e \in 1..n /\ e \in (i + 2)..Len(c) /\ \A j \in (i + 2)..(e - 1) : j \in 1..n
    BY <1>1, <1>3
<1> HIDE DEF n
<1> QED BY <1>2, <1>3, <1>4 DEF Marked, c

(* A marker stays one, further on, when text is put before it.             *)
LEMMA MarkedRight ==
    ASSUME NEW S, NEW a \in Seq(S), NEW b \in Seq(S), NEW i \in 1..Len(b), NEW e, Marked(b, i, e)
    PROVE  Marked(a \o b, Len(a) + i, Len(a) + e)
<1> DEFINE c == a \o b
           n == Len(a)
           m == Len(b)
<1>1. /\ n \in Nat /\ m \in Nat /\ Len(c) = n + m
      /\ \A j \in 1..(n + m) : c[j] = IF j <= n THEN a[j] ELSE b[j - n]
    BY ConcatProperties
<1> HIDE DEF c
<1>2. e \in (i + 2)..m /\ i \in 1..m
    BY DEF Marked
<1>3. /\ b[i] = "TS" /\ b[i + 1] \in Keys /\ b[e] \in Closing
      /\ \A j \in (i + 2)..(e - 1) : b[j] \notin Closing /\ b[j] # "TS"
    BY DEF Marked
<1> HIDE DEF n, m
<1>4. \A j \in 1..m : c[n + j] = b[j]
    <2> SUFFICES ASSUME NEW j \in 1..m PROVE c[n + j] = b[j]
        OBVIOUS
    <2>1. n + j \in 1..(n + m) /\ ~(n + j <= n) /\ n + j - n = j
        BY <1>1
    <2> QED BY <1>1, <2>1
<1>5. /\ i + 1 \in 1..m /\ e \in 1..m /\ n + e \in (n + i + 2)..Len(c)
      /\ (n + i) + 1 = n + (i + 1)
    BY <1>1, <1>2
<1>6. ASSUME NEW j \in (n + i + 2)..(n + e - 1)
      PROVE  c[j] \notin Closing /\ c[j] # "TS"
    <2>1. j - n \in (i + 2)..(e - 1) /\ j - n \in 1..m /\ n + (j - n) = j
        BY <1>1, <1>2
    <2> QED BY <1>3, <1>4, <2>1
<1>7. c[n + i] = "TS" /\ c[n + (i + 1)] \in Keys /\ c[n + e] \in Closing
    BY <1>2, <1>3, <1>4, <1>5
<1> QED BY <1>5, <1>6, <1>7 DEF Marked, c, n

(* Two settled texts make a settled one.                                   *)
LEMMA SettledTogether ==
    ASSUME NEW S, NEW a \in Seq(S), NEW b \in Seq(S), Settled(a), Settled(b)
    PROVE  Settled(a \o b)
<1> DEFINE c == a \o b
           n == Len(a)
           m == Len(b)
<1>1. /\ n \in Nat /\ m \in Nat /\ Len(c) = n + m
      /\ \A j \in 1..(n + m) : c[j] = IF j <= n THEN a[j] ELSE b[j - n]
    BY ConcatProperties
<1>2. \A i \in 1..n : \A e \in Nat : Marked(a, i, e) => Marked(c, i, e)
    BY MarkedLeft
<1>3. \A i \in 1..m : \A e \in Nat : Marked(b, i, e) => Marked(c, n + i, n + e)
    BY MarkedRight
<1>4. /\ \A i \in 1..n : a[i] = "TS" => \E e \in Nat : Marked(a, i, e)
      /\ \A i \in 1..m : b[i] = "TS" => \E e \in Nat : Marked(b, i, e)
      /\ \A j \in 1..n : a[j] = "date" => \E i \in 1..j : \E e \in Nat : Marked(a, i, e) /\ j <= e
      /\ \A j \in 1..m : b[j] = "date" => \E i \in 1..j : \E e \in Nat : Marked(b, i, e) /\ j <= e
    BY DEF Settled, Closed
<1> HIDE DEF c, n, m
<1>5. \A j \in 1..(n + m) : \/ j \in 1..n /\ c[j] = a[j]
                            \/ j - n \in 1..m /\ c[j] = b[j - n] /\ n + (j - n) = j
    BY <1>1
<1>6. ASSUME NEW i \in 1..(n + m), c[i] = "TS"
      PROVE  \E e \in Nat : Marked(c, i, e)
    <2>1. CASE i \in 1..n /\ c[i] = a[i]
        BY <1>2, <1>4, <1>6, <2>1
    <2>2. CASE i - n \in 1..m /\ c[i] = b[i - n] /\ n + (i - n) = i
        <3>1. PICK e \in Nat : Marked(b, i - n, e)
            BY <1>4, <1>6, <2>2
        <3>2. Marked(c, n + (i - n), n + e) /\ n + e \in Nat
            BY <1>1, <1>3, <2>2, <3>1
        <3> QED BY <2>2, <3>2
    <2> QED BY <1>5, <2>1, <2>2
<1>7. ASSUME NEW j \in 1..(n + m), c[j] = "date"
      PROVE  \E i \in 1..j : \E e \in Nat : Marked(c, i, e) /\ j <= e
    <2>1. CASE j \in 1..n /\ c[j] = a[j]
        <3>1. PICK i \in 1..j : \E e \in Nat : Marked(a, i, e) /\ j <= e
            BY <1>4, <1>7, <2>1
        <3>2. i \in 1..n
            BY <1>1, <2>1
        <3> QED BY <1>2, <3>1, <3>2
    <2>2. CASE j - n \in 1..m /\ c[j] = b[j - n] /\ n + (j - n) = j
        <3>1. PICK i \in 1..(j - n) : \E e \in Nat : Marked(b, i, e) /\ j - n <= e
            BY <1>4, <1>7, <2>2
        <3>2. PICK e \in Nat : Marked(b, i, e) /\ j - n <= e
            BY <3>1
        <3>3. i \in 1..m /\ n + i \in 1..j /\ n + e \in Nat /\ j <= n + e
            BY <1>1, <2>2, <3>2
        <3>4. Marked(c, n + i, n + e)
            BY <1>3, <3>2, <3>3
        <3> QED BY <3>3, <3>4
    <2> QED BY <1>5, <2>1, <2>2
<1> QED BY <1>1, <1>6, <1>7 DEF Settled, Closed, c

(* Every block is settled.                                                 *)
LEMMA BlockSettled ==
    ASSUME NEW text \in Seq(Clean), NEW i \in 1..Len(text), NEW block, NEW next,
           Block(text, i, block, next)
    PROVE  Settled(block)
<1>1. /\ block \in Seq(Clean) /\ next \in (i + 1)..(Len(text) + 1)
      /\ \/ Single(text, i, block, next) /\ Copied(text, i, block, i)
         \/ Marked(text, i, next - 1) /\ Copied(text, i, block, next - 1)
         \/ Stamped(block)
    BY BlockIs
<1>2. Len(text) \in Nat /\ Len(block) \in Nat
    BY <1>1
<1>3. CASE Single(text, i, block, next) /\ Copied(text, i, block, i)
    <2>1. Len(block) = 1 /\ block[1] = text[i] /\ text[i] \notin {"TS", "date"}
        <3>1. i - i + 1 = 1 /\ i + 1 - 1 = i /\ 1 \in 1..1
            BY <1>2
        <3> QED BY <1>3, <3>1 DEF Single, Copied
    <2>2. \A j \in 1..Len(block) : block[j] # "TS" /\ block[j] # "date"
        BY <2>1
    <2> QED BY <2>2 DEF Settled, Closed
<1>4. CASE Marked(text, i, next - 1) /\ Copied(text, i, block, next - 1)
    <2> DEFINE e == next - 1
               m == e - i + 1
    <2>1. e \in (i + 2)..Len(text) /\ m \in Nat /\ m >= 3 /\ i \in Int /\ e \in Int
        BY <1>1, <1>2, <1>4 DEF Marked
    <2>2. Len(block) = m /\ \A j \in 1..m : block[j] = text[i + j - 1]
        BY <1>4 DEF Copied
    <2>3. /\ text[i] = "TS" /\ text[i + 1] \in Keys /\ text[e] \in Closing
          /\ \A j \in (i + 2)..(e - 1) : text[j] \notin Closing /\ text[j] # "TS"
        BY <1>4 DEF Marked
    <2> HIDE DEF e
    <2>4. block[1] = "TS" /\ block[2] \in Keys /\ block[m] \in Closing
        <3>1. i + 1 - 1 = i /\ i + 2 - 1 = i + 1 /\ i + m - 1 = e
              /\ 1 \in 1..m /\ 2 \in 1..m /\ m \in 1..m
            BY <2>1
        <3>2. block[1] = text[i] /\ block[2] = text[i + 1] /\ block[m] = text[e]
            <4> HIDE DEF m
            <4> QED BY <2>2, <3>1
        <3> QED BY <2>3, <3>2
    <2>5. \A j \in 3..(m - 1) : block[j] \notin Closing /\ block[j] # "TS"
        <3> SUFFICES ASSUME NEW j \in 3..(m - 1) PROVE block[j] \notin Closing /\ block[j] # "TS"
            OBVIOUS
        <3>1. j \in 1..m /\ i + j - 1 \in (i + 2)..(e - 1)
            BY <2>1
        <3> HIDE DEF m
        <3> QED BY <2>2, <2>3, <3>1
    <2> HIDE DEF m
    <2>6. Marked(block, 1, m)
        BY <2>1, <2>2, <2>4, <2>5 DEF Marked
    <2>7. \A j \in 1..m : block[j] = "TS" => j = 1
        <3>1. \A j \in 1..m : j = 1 \/ j = 2 \/ j = m \/ j \in 3..(m - 1)
            BY <2>1
        <3>2. block[2] # "TS" /\ block[m] # "TS"
            BY <2>4, SymbolsMore
        <3> QED BY <2>5, <3>1, <3>2
    <2>8. 1 \in Nat /\ \A j \in 1..m : 1 \in 1..j /\ j <= m
        BY <2>1
    <2> QED BY <2>1, <2>2, <2>6, <2>7, <2>8 DEF Settled, Closed
<1>5. CASE Stamped(block)
    <2> DEFINE m == Len(block)
    <2>1. /\ m \in Nat /\ m >= 4 /\ block[1] = "TS" /\ block[2] \in Keys /\ block[m] = "end"
          /\ \A j \in 3..(m - 1) : block[j] \in {"date", "clock"}
        BY <1>5 DEF Stamped
    <2> HIDE DEF m
    <2>2. \A j \in 3..(m - 1) : block[j] \notin Closing /\ block[j] # "TS"
        BY <2>1, Symbols
    <2>3. Marked(block, 1, m)
        BY <2>1, <2>2, Symbols DEF Marked, m
    <2>4. \A j \in 1..m : block[j] = "TS" => j = 1
        <3>1. \A j \in 1..m : j = 1 \/ j = 2 \/ j = m \/ j \in 3..(m - 1)
            BY <2>1
        <3>2. block[2] # "TS" /\ block[m] # "TS"
            BY <2>1, SymbolsMore
        <3> QED BY <2>2, <3>1, <3>2
    <2>5. \A j \in 1..m : 1 \in 1..j /\ j <= m
        BY <2>1
    <2> QED BY <2>1, <2>3, <2>4, <2>5 DEF Settled, Closed, m
<1> QED BY <1>1, <1>3, <1>4, <1>5

(* So a tokenized text is settled.                                         *)
LEMMA TokenizedSettled ==
    ASSUME NEW text \in Seq(Clean), Closed(text)
    PROVE  Settled(tokenize_timestamps(text))
<1> DEFINE n == Len(text)
           R == Seq(Clean)
           G == {p \in R \X Nat : Settled(p[1])}
<1>1. n \in Nat
    OBVIOUS
<1>2. << <<>>, 1 >> \in G
    <2>1. <<>> \in R /\ Len(<<>>) = 0
        OBVIOUS
    <2>2. Settled(<<>>)
        BY <2>1 DEF Settled, Closed
    <2> DEFINE empty == <<>>
    <2>3. empty \in R /\ Settled(empty)
        BY <2>1, <2>2
    <2> HIDE DEF empty, R
    <2>4. <<empty, 1>> \in G
        BY <2>3
    <2> QED BY <2>4 DEF empty
<1>3. ASSUME NEW i \in 1..n, NEW output \in R, NEW block, NEW next,
             <<output, i>> \in G, Block(text, i, block, next)
      PROVE  <<output \o block, next>> \in G
    <2>1. block \in R /\ next \in (i + 1)..(n + 1)
        BY <1>3, BlockIs
    <2>2. Settled(block)
        BY <1>3, BlockSettled
    <2>3. Settled(output)
        BY <1>3
    <2> DEFINE longer == output \o block
    <2>4. longer \in R /\ Settled(longer)
        BY <2>1, <2>2, <2>3, SettledTogether, ConcatProperties
    <2>5. next \in Nat
        BY <1>1, <2>1
    <2> HIDE DEF longer, R
    <2>6. <<longer, next>> \in G
        BY <2>4, <2>5
    <2> QED BY <2>6 DEF longer
<1> HIDE DEF G
<1>4. \A i \in 1..n : \A output \in R : \A block, next :
          <<output, i>> \in G /\ Block(text, i, block, next) => <<output \o block, next>> \in G
    BY <1>3
<1>5. <<tokenize_timestamps(text), n + 1>> \in G
    BY <1>2, <1>4, TokenizeBlocks
<1> QED BY <1>5 DEF G

(* No marker straddles the place.                                            *)
Outside(text, i) == \A k \in 1..Len(text) : \A e \in Nat : Marked(text, k, e) => ~(k < i /\ i <= e)

(* In a settled text every block is the text itself.                       *)
LEMMA OutsideAfter ==
    ASSUME NEW text \in Seq(Clean), Settled(text), NEW i \in 1..Len(text), Outside(text, i),
           NEW block, NEW next, Block(text, i, block, next)
    PROVE  block = SubSeq(text, i, next - 1) /\ Outside(text, next)
<1> DEFINE n == Len(text)
<1>0. n \in Nat /\ text[i] \in Clean
    OBVIOUS
<1>1. next \in (i + 1)..(n + 1)
    BY BlockIs
<1>2. CASE Single(text, i, block, next)
    <2>1. next = i + 1 /\ next - 1 = i /\ text[i] # "TS"
        BY <1>2 DEF Single
    <2>2. block = SubSeq(text, i, i)
        BY <1>2, OnePiece DEF Single
    <2>3. ASSUME NEW k \in 1..n, NEW e \in Nat, Marked(text, k, e), k < next, next <= e
          PROVE  FALSE
        <3>1. k # i
            BY <2>1, <2>3 DEF Marked
        <3>2. k < i /\ i <= e
            BY <2>1, <2>3, <3>1
        <3> QED BY <2>3, <3>2 DEF Outside
    <2> QED BY <2>1, <2>2, <2>3 DEF Outside
<1>3. CASE Whole(text, i, block, next)
    <2>1. PICK f \in Nat : Marked(text, i, f) /\ block = SubSeq(text, i, f) /\ next = f + 1
        BY <1>3 DEF Whole
    <2>2. next - 1 = f
        BY <2>1
    <2>3. /\ f \in (i + 2)..n /\ text[i + 1] \in Keys /\ text[f] \in Closing
          /\ \A j \in (i + 2)..(f - 1) : text[j] # "TS"
        BY <2>1 DEF Marked
    <2>4. ASSUME NEW k \in 1..n, NEW e \in Nat, Marked(text, k, e), k < next, next <= e
          PROVE  FALSE
        <3>1. text[k] = "TS"
            BY <2>4 DEF Marked
        <3>2. CASE k < i
            BY <1>1, <2>4, <3>2 DEF Outside
        <3>3. CASE k = i
            <4>1. marker_end(text, i) = f
                BY <1>0, <2>1, MarkerEnd
            <4>2. marker_end(text, i) = e
                <5>1. Marked(text, i, e) /\ i \in Nat
                    BY <2>4, <3>3
                <5> QED BY <1>0, <5>1, MarkerEnd
            <4> QED BY <2>1, <2>4, <4>1, <4>2
        <3>4. CASE k > i
            <4>1. k = i + 1 \/ k = f \/ k \in (i + 2)..(f - 1)
                BY <2>1, <2>3, <2>4, <3>4
            <4> QED BY <2>3, <3>1, <4>1, SymbolsMore
        <3> QED BY <3>2, <3>3, <3>4
    <2> QED BY <2>1, <2>2, <2>4 DEF Outside
<1>4. CASE Wrapped(text, i, block, next)
    <2> SUFFICES ASSUME TRUE PROVE FALSE
        OBVIOUS
    <2>1. text[i] = "date"
        BY <1>4 DEF Wrapped
    <2>2. PICK k \in 1..i : \E e \in Nat : Marked(text, k, e) /\ i <= e
        BY <2>1 DEF Settled
    <2>3. PICK e \in Nat : Marked(text, k, e) /\ i <= e
        BY <2>2
    <2>4. k # i
        BY <2>1, <2>3 DEF Marked
    <2>5. k \in 1..n /\ k < i
        BY <1>0, <2>2, <2>4
    <2> QED BY <2>3, <2>5 DEF Outside
<1> QED BY <1>2, <1>3, <1>4 DEF Block

(* A settled text is tokenized to itself.                                  *)
LEMMA SettledFixed ==
    ASSUME NEW text \in Seq(Clean), Settled(text)
    PROVE  tokenize_timestamps(text) = text
<1> DEFINE n == Len(text)
           R == Seq(Clean)
           Good(p) == p[2] \in 1..(n + 1) /\ p[1] = SubSeq(text, 1, p[2] - 1) /\ Outside(text, p[2])
           G == {p \in R \X Nat : Good(p)}
<1>1. n \in Nat /\ Closed(text)
    BY DEF Settled
<1>2. << <<>>, 1 >> \in G
    <2> DEFINE empty == <<>>
    <2>1. empty \in R
        OBVIOUS
    <2>2. empty = SubSeq(text, 1, 1 - 1)
        <3>1. 1 - 1 < 1 /\ 1 \in Int /\ 1 - 1 \in Int
            OBVIOUS
        <3> QED BY <3>1, SubSeqEmpty
    <2>3. Outside(text, 1)
        BY <1>1 DEF Outside
    <2>4. 1 \in 1..(n + 1)
        BY <1>1
    <2> HIDE DEF empty, n, R
    <2>5. <<empty, 1>> \in G
        BY <2>1, <2>2, <2>3, <2>4
    <2> QED BY <2>5 DEF empty
<1>3. ASSUME NEW i \in 1..n, NEW output \in R, NEW block, NEW next,
             <<output, i>> \in G, Block(text, i, block, next)
      PROVE  <<output \o block, next>> \in G
    <2> DEFINE longer == output \o block
    <2>1. output = SubSeq(text, 1, i - 1) /\ Outside(text, i)
        BY <1>3
    <2>2. block \in R /\ next \in (i + 1)..(n + 1)
        BY <1>3, BlockIs
    <2>3. block = SubSeq(text, i, next - 1) /\ Outside(text, next)
        BY <1>3, <2>1, OutsideAfter
    <2>4. longer = SubSeq(text, 1, next - 1)
        <3> DEFINE k == i - 1
                   e == next - 1
        <3>1. 1 \in 1..(n + 1) /\ k \in (1 - 1)..n /\ e \in k..n /\ k + 1 = i
            BY <1>1, <2>2
        <3>2. output = SubSeq(text, 1, k) /\ block = SubSeq(text, k + 1, e)
            BY <2>1, <2>3, <3>1
        <3> HIDE DEF k, e, R
        <3>3. SubSeq(text, 1, k) \o SubSeq(text, k + 1, e) = SubSeq(text, 1, e)
            BY <3>1, ConcatAdjacentSubSeq DEF R
        <3> QED BY <3>2, <3>3 DEF e
    <2>5. longer \in R
        BY <2>2, ConcatProperties
    <2>6. next \in Nat /\ next \in 1..(n + 1)
        BY <1>1, <2>2
    <2> HIDE DEF longer, R, n
    <2>7. <<longer, next>> \in G
        BY <2>3, <2>4, <2>5, <2>6
    <2> QED BY <2>7 DEF longer
<1> HIDE DEF G
<1>4. \A i \in 1..n : \A output \in R : \A block, next :
          <<output, i>> \in G /\ Block(text, i, block, next) => <<output \o block, next>> \in G
    BY <1>3
<1>5. <<tokenize_timestamps(text), n + 1>> \in G
    BY <1>1, <1>2, <1>4, TokenizeBlocks
<1>6. tokenize_timestamps(text) = SubSeq(text, 1, n)
    <2>1. tokenize_timestamps(text) = SubSeq(text, 1, (n + 1) - 1)
        BY <1>5 DEF G
    <2>2. (n + 1) - 1 = n
        BY <1>1
    <2> QED BY <2>1, <2>2
<1> QED BY <1>6, SubSeqFull

-----------------------------------------------------------------------------
(* Addresses that have been replaced do not come back.                       *)

Addressing == {"src", "dst", "ip", "port", "arrow"}
Leads == {"src", "dst", "arrow"}

\* No address that a pattern captures.
Replaced(text) ==
    \A i \in 1..Len(text) : text[i] = "ip" =>
        /\ i > 1 => text[i - 1] \notin Leads
        /\ i + 2 <= Len(text) => ~(text[i + 1] = "port" /\ text[i + 2] = "arrow")

\* The output so far ends as the text before i where it matters to an address.
Follows(output, text, i) ==
    LET m == Len(output)
    IN  /\ m >= 1 /\ output[m] \in Addressing => i >= 2 /\ text[i - 1] = output[m]
        /\ m >= 2 /\ output[m] \in Addressing /\ output[m - 1] \in Addressing =>
               i >= 3 /\ text[i - 2] = output[m - 1]

(* Which pieces differ, as far as the proofs of addresses need it.         *)
LEMMA SymbolsOfAddresses ==
    /\ "TS" \notin Addressing /\ "end" \notin Addressing /\ Closing \cap Addressing = {}
    /\ Keys \cap Addressing = {} /\ Leads \subseteq Addressing
    /\ "ip" \in Addressing /\ "port" \in Addressing /\ "arrow" \in Leads
    /\ "TS" # "ip" /\ "TS" # "port" /\ "TS" # "arrow" /\ "ip" # "arrow" /\ "ip" # "port"
    /\ {"date", "clock"} \cap Addressing = {} /\ "ip" \notin Leads /\ "port" # "arrow"
BY DEF Addressing, Leads, Closing, Markers, Keys

(* A single piece brings no captured address into the output.              *)
LEMMA SingleFollows ==
    ASSUME NEW text \in Seq(Clean), Replaced(text), NEW i \in 1..Len(text),
           NEW output \in Seq(Clean), Replaced(output), Follows(output, text, i)
    PROVE  LET longer == output \o <<text[i]>>
           IN  Replaced(longer) /\ Follows(longer, text, i + 1)
<1> DEFINE x == text[i]
           longer == output \o <<x>>
           m == Len(output)
           n == Len(text)
<1>1. m \in Nat /\ n \in Nat /\ x \in Clean
    OBVIOUS
<1>2. Len(longer) = m + 1 /\ longer[m + 1] = x /\ \A j \in 1..m : longer[j] = output[j]
    <2> HIDE DEF x
    <2> QED BY <1>1
<1>3. /\ m >= 1 /\ output[m] \in Addressing => i >= 2 /\ text[i - 1] = output[m]
      /\ m >= 2 /\ output[m] \in Addressing /\ output[m - 1] \in Addressing =>
             i >= 3 /\ text[i - 2] = output[m - 1]
    BY DEF Follows
<1>4. \A j \in 1..n : text[j] = "ip" =>
          /\ j > 1 => text[j - 1] \notin Leads
          /\ j + 2 <= n => ~(text[j + 1] = "port" /\ text[j + 2] = "arrow")
    BY DEF Replaced
<1>5. \A j \in 1..m : output[j] = "ip" =>
          /\ j > 1 => output[j - 1] \notin Leads
          /\ j + 2 <= m => ~(output[j + 1] = "port" /\ output[j + 2] = "arrow")
    BY DEF Replaced
<1> HIDE DEF longer, m, n
<1>6. Follows(longer, text, i + 1)
    <2>1. (m + 1) - 1 = m /\ (i + 1) - 1 = i /\ (i + 1) - 2 = i - 1 /\ i >= 1
        BY <1>1
    <2>2. i + 1 >= 2 /\ text[(i + 1) - 1] = longer[Len(longer)]
        BY <1>2, <2>1 DEF x
    <2>3. ASSUME m + 1 >= 2, longer[(m + 1) - 1] \in Addressing
          PROVE  i + 1 >= 3 /\ text[(i + 1) - 2] = longer[(m + 1) - 1]
        <3>1. m >= 1 /\ m \in 1..m /\ longer[(m + 1) - 1] = output[m]
            BY <1>1, <1>2, <2>1, <2>3
        <3>2. i >= 2 /\ text[i - 1] = output[m]
            BY <1>3, <2>3, <3>1
        <3> QED BY <2>1, <3>1, <3>2
    <2> QED BY <1>2, <2>2, <2>3 DEF Follows
<1>7. ASSUME NEW j \in 1..(m + 1), longer[j] = "ip"
      PROVE  /\ j > 1 => longer[j - 1] \notin Leads
             /\ j + 2 <= m + 1 => ~(longer[j + 1] = "port" /\ longer[j + 2] = "arrow")
    <2>1. CASE j = m + 1
        <3>1. ASSUME j > 1, longer[j - 1] \in Leads PROVE FALSE
            <4>1. j - 1 = m /\ m \in 1..m /\ m >= 1
                BY <1>1, <2>1, <3>1
            <4>2. output[m] \in Leads /\ output[m] \in Addressing
                BY <1>2, <3>1, <4>1, SymbolsOfAddresses
            <4>3. text[i - 1] \in Leads /\ i > 1
                BY <1>3, <4>1, <4>2
            <4>4. text[i] = "ip" /\ i \in 1..n
                BY <1>2, <1>7, <2>1 DEF x, n
            <4> QED BY <1>4, <4>3, <4>4
        <3> QED BY <1>1, <2>1, <3>1
    <2>2. CASE j \in 1..m
        <3>1. output[j] = "ip"
            BY <1>2, <1>7, <2>2
        <3>2. j > 1 => longer[j - 1] \notin Leads
            <4>1. j > 1 => j - 1 \in 1..m
                BY <1>1, <2>2
            <4> QED BY <1>2, <1>5, <2>2, <3>1, <4>1
        <3>3. ASSUME j + 2 <= m + 1, longer[j + 1] = "port", longer[j + 2] = "arrow"
              PROVE  FALSE
            <4>1. CASE j + 2 <= m
                <5>1. j + 1 \in 1..m /\ j + 2 \in 1..m
                    BY <1>1, <2>2, <4>1
                <5> QED BY <1>2, <1>5, <2>2, <3>1, <3>3, <4>1, <5>1
            <4>2. CASE j + 2 = m + 1
                <5>1. m >= 2 /\ j + 1 = m /\ m - 1 = j /\ m \in 1..m
                    BY <1>1, <2>2, <4>2
                <5>2. output[m] = "port" /\ x = "arrow" /\ output[m - 1] = "ip"
                    BY <1>2, <3>1, <3>3, <4>2, <5>1
                <5>3. i >= 3 /\ text[i - 1] = "port" /\ text[i - 2] = "ip"
                    BY <1>3, <5>1, <5>2, SymbolsOfAddresses
                <5> DEFINE k == i - 2
                <5>4. k \in 1..n /\ k + 1 = i - 1 /\ k + 2 = i /\ k + 2 <= n
                    BY <1>1, <5>3 DEF n
                <5> HIDE DEF k
                <5>5. text[k] = "ip" /\ text[k + 1] = "port" /\ text[k + 2] = "arrow"
                    BY <5>2, <5>3, <5>4 DEF x, k
                <5> QED BY <1>4, <5>4, <5>5
            <4> QED BY <1>1, <2>2, <3>3, <4>1, <4>2
        <3> QED BY <3>2, <3>3
    <2> QED BY <1>1, <2>1, <2>2
<1>8. Replaced(longer)
    BY <1>2, <1>7 DEF Replaced
<1> QED BY <1>6, <1>8 DEF longer, x

(* A block between an opening and a closing piece brings none either.      *)
LEMMA SealedFollows ==
    ASSUME NEW text, NEW next, NEW output \in Seq(Clean), Replaced(output),
           NEW block \in Seq(Clean), Replaced(block), Len(block) >= 1,
           block[1] = "TS", block[Len(block)] \in Closing
    PROVE  Replaced(output \o block) /\ Follows(output \o block, text, next)
<1> DEFINE longer == output \o block
           m == Len(output)
           l == Len(block)
<1>1. /\ m \in Nat /\ l \in Nat /\ Len(longer) = m + l
      /\ \A j \in 1..(m + l) : longer[j] = IF j <= m THEN output[j] ELSE block[j - m]
    BY ConcatProperties
<1> HIDE DEF longer
<1>2. \A j \in 1..m : output[j] = "ip" =>
          /\ j > 1 => output[j - 1] \notin Leads
          /\ j + 2 <= m => ~(output[j + 1] = "port" /\ output[j + 2] = "arrow")
    BY DEF Replaced
<1>3. \A j \in 1..l : block[j] = "ip" =>
          /\ j > 1 => block[j - 1] \notin Leads
          /\ j + 2 <= l => ~(block[j + 1] = "port" /\ block[j + 2] = "arrow")
    BY DEF Replaced
<1>4. l >= 1 /\ block[1] = "TS" /\ block[l] \in Closing
    OBVIOUS
<1> HIDE DEF m, l
<1>5. /\ \A j \in 1..m : longer[j] = output[j]
      /\ \A j \in (m + 1)..(m + l) : longer[j] = block[j - m] /\ j - m \in 1..l
      /\ longer[m + 1] = "TS" /\ longer[m + l] \in Closing
    <2>1. \A j \in (m + 1)..(m + l) : longer[j] = block[j - m] /\ j - m \in 1..l
        BY <1>1
    <2> DEFINE a == m + 1
               z == m + l
    <2>2. a \in (m + 1)..(m + l) /\ z \in (m + 1)..(m + l) /\ a - m = 1 /\ z - m = l
        BY <1>1, <1>4
    <2>3. longer[a] = "TS" /\ longer[z] \in Closing
        <3> HIDE DEF a, z
        <3>1. longer[a] = block[a - m] /\ longer[z] = block[z - m]
            BY <2>1, <2>2
        <3> QED BY <1>4, <2>2, <3>1
    <2> QED BY <1>1, <2>1, <2>3
<1>6. ASSUME NEW j \in 1..(m + l), longer[j] = "ip"
      PROVE  /\ j > 1 => longer[j - 1] \notin Leads
             /\ j + 2 <= m + l => ~(longer[j + 1] = "port" /\ longer[j + 2] = "arrow")
    <2>1. CASE j \in 1..m
        <3>1. output[j] = "ip"
            BY <1>5, <1>6, <2>1
        <3>2. j > 1 => longer[j - 1] \notin Leads
            <4>1. j > 1 => j - 1 \in 1..m
                BY <1>1, <2>1
            <4> QED BY <1>2, <1>5, <2>1, <3>1, <4>1
        <3>3. ASSUME longer[j + 1] = "port", longer[j + 2] = "arrow" PROVE FALSE
            <4>1. j + 1 # m + 1 /\ j + 2 # m + 1
                BY <1>5, <3>3, SymbolsOfAddresses
            <4>2. j + 2 <= m /\ j + 1 \in 1..m /\ j + 2 \in 1..m
                BY <1>1, <2>1, <4>1
            <4> QED BY <1>2, <1>5, <2>1, <3>1, <3>3, <4>2
        <3> QED BY <3>2, <3>3
    <2>2. CASE j \in (m + 1)..(m + l)
        <3> DEFINE k == j - m
        <3>1. block[k] = "ip" /\ k \in 1..l
            BY <1>5, <1>6, <2>2
        <3>2. k > 1 /\ j - 1 \in (m + 1)..(m + l) /\ (j - 1) - m = k - 1
            <4>1. k # 1
                BY <1>4, <3>1, SymbolsOfAddresses
            <4> QED BY <1>1, <2>2, <3>1, <4>1
        <3>3. longer[j - 1] \notin Leads
            <4>1. longer[j - 1] = block[k - 1]
                BY <1>5, <3>2
            <4> HIDE DEF k
            <4> QED BY <1>3, <3>1, <3>2, <4>1
        <3>4. ASSUME j + 2 <= m + l, longer[j + 1] = "port", longer[j + 2] = "arrow" PROVE FALSE
            <4>1. /\ j + 1 \in (m + 1)..(m + l) /\ (j + 1) - m = k + 1
                  /\ j + 2 \in (m + 1)..(m + l) /\ (j + 2) - m = k + 2 /\ k + 2 <= l
                BY <1>1, <2>2, <3>4
            <4>2. block[k + 1] = "port" /\ block[k + 2] = "arrow"
                BY <1>5, <3>4, <4>1
            <4> HIDE DEF k
            <4> QED BY <1>3, <3>1, <4>1, <4>2
        <3> QED BY <3>3, <3>4
    <2> QED BY <1>1, <2>1, <2>2
<1>7. Replaced(longer)
    BY <1>1, <1>6 DEF Replaced
<1>8. Follows(longer, text, next)
    <2>1. longer[Len(longer)] \notin Addressing
        BY <1>1, <1>5, SymbolsOfAddresses
    <2> QED BY <2>1 DEF Follows
<1> QED BY <1>7, <1>8 DEF longer

(* The blocks other than single pieces are such.                           *)
LEMMA BlockSealed ==
    ASSUME NEW text \in Seq(Clean), Replaced(text), NEW i \in 1..Len(text), NEW block, NEW next,
           Block(text, i, block, next), text[i] \in {"TS", "date"}
    PROVE  /\ Replaced(block) /\ Len(block) >= 1 /\ block[1] = "TS"
           /\ block[Len(block)] \in Closing
<1>1. /\ block \in Seq(Clean) /\ next \in (i + 1)..(Len(text) + 1)
      /\ \/ Single(text, i, block, next)
         \/ Marked(text, i, next - 1) /\ Copied(text, i, block, next - 1)
         \/ Stamped(block)
    BY BlockIs
<1>2. Len(text) \in Nat /\ Len(block) \in Nat
    BY <1>1
<1>3. CASE Marked(text, i, next - 1) /\ Copied(text, i, block, next - 1)
    <2> DEFINE e == next - 1
               m == e - i + 1
               n == Len(text)
    <2>1. e \in (i + 2)..n /\ m \in Nat /\ m >= 3 /\ i \in Int /\ e \in Int /\ n \in Nat /\ i >= 1
        BY <1>1, <1>2, <1>3 DEF Marked
    <2>2. Len(block) = m /\ \A j \in 1..m : block[j] = text[i + j - 1]
        BY <1>3 DEF Copied
    <2>3. text[i] = "TS" /\ text[e] \in Closing
        BY <1>3 DEF Marked
    <2>4. \A j \in 1..n : text[j] = "ip" =>
              /\ j > 1 => text[j - 1] \notin Leads
              /\ j + 2 <= n => ~(text[j + 1] = "port" /\ text[j + 2] = "arrow")
        BY DEF Replaced
    <2> HIDE DEF e, n
    <2>5. block[1] = "TS" /\ block[m] \in Closing
        <3>1. i + 1 - 1 = i /\ i + m - 1 = e /\ 1 \in 1..m /\ m \in 1..m
            BY <2>1
        <3>2. block[1] = text[i] /\ block[m] = text[e]
            <4> HIDE DEF m
            <4> QED BY <2>2, <3>1
        <3> QED BY <2>3, <3>2
    <2>6. ASSUME NEW j \in 1..m, block[j] = "ip"
          PROVE  /\ j > 1 => block[j - 1] \notin Leads
                 /\ j + 2 <= m => ~(block[j + 1] = "port" /\ block[j + 2] = "arrow")
        <3> DEFINE k == i + j - 1
        <3>1. k \in 1..n /\ text[k] = "ip"
            BY <2>1, <2>2, <2>6
        <3>2. ASSUME j > 1 PROVE block[j - 1] \notin Leads
            <4>1. j - 1 \in 1..m /\ i + (j - 1) - 1 = k - 1 /\ k > 1
                BY <2>1, <3>2
            <4>2. block[j - 1] = text[k - 1]
                <5> HIDE DEF k, m
                <5> QED BY <2>2, <4>1
            <4> HIDE DEF k
            <4> QED BY <2>4, <3>1, <4>1, <4>2
        <3>3. ASSUME j + 2 <= m, block[j + 1] = "port", block[j + 2] = "arrow" PROVE FALSE
            <4>1. /\ j + 1 \in 1..m /\ i + (j + 1) - 1 = k + 1
                  /\ j + 2 \in 1..m /\ i + (j + 2) - 1 = k + 2 /\ k + 2 <= n
                BY <2>1, <3>3
            <4>2. block[j + 1] = text[k + 1] /\ block[j + 2] = text[k + 2]
                <5> HIDE DEF k, m
                <5> QED BY <2>2, <4>1
            <4> HIDE DEF k
            <4> QED BY <2>4, <3>1, <3>3, <4>1, <4>2
        <3> QED BY <3>2, <3>3
    <2> QED BY <2>1, <2>2, <2>5, <2>6 DEF Replaced
<1>4. CASE Stamped(block)
    <2> DEFINE m == Len(block)
    <2>1. /\ m \in Nat /\ m >= 4 /\ block[1] = "TS" /\ block[2] \in Keys /\ block[m] = "end"
          /\ \A j \in 3..(m - 1) : block[j] \in {"date", "clock"}
        BY <1>4 DEF Stamped
    <2> HIDE DEF m
    <2>2. \A j \in 1..m : block[j] # "ip"
        <3>1. \A j \in 1..m : j = 1 \/ j = 2 \/ j = m \/ j \in 3..(m - 1)
            BY <2>1
        <3>2. block[1] # "ip" /\ block[2] # "ip" /\ block[m] # "ip"
              /\ \A j \in 3..(m - 1) : block[j] # "ip"
            BY <2>1, SymbolsOfAddresses
        <3> QED BY <3>1, <3>2
    <2> QED BY <2>1, <2>2, Symbols DEF Replaced, m
<1> QED BY <1>1, <1>3, <1>4 DEF Single

(* Tokenizing time stamps brings no captured address back.                 *)
LEMMA TokenizedReplaced ==
    ASSUME NEW text \in Seq(Clean), Closed(text), Replaced(text)
    PROVE  Replaced(tokenize_timestamps(text))
<1> DEFINE n == Len(text)
           R == Seq(Clean)
           G == {p \in R \X Nat : Replaced(p[1]) /\ Follows(p[1], text, p[2])}
<1>1. n \in Nat
    OBVIOUS
<1>2. << <<>>, 1 >> \in G
    <2>1. <<>> \in R /\ Len(<<>>) = 0
        OBVIOUS
    <2>2. Replaced(<<>>) /\ Follows(<<>>, text, 1)
        BY <2>1 DEF Replaced, Follows
    <2> DEFINE empty == <<>>
    <2>3. empty \in R /\ Replaced(empty) /\ Follows(empty, text, 1)
        BY <2>1, <2>2
    <2> HIDE DEF empty, R
    <2>4. <<empty, 1>> \in G
        BY <2>3
    <2> QED BY <2>4 DEF empty
<1>3. ASSUME NEW i \in 1..n, NEW output \in R, NEW block, NEW next,
             <<output, i>> \in G, Block(text, i, block, next)
      PROVE  <<output \o block, next>> \in G
    <2> DEFINE longer == output \o block
    <2>1. block \in R /\ next \in (i + 1)..(n + 1)
        BY <1>3, BlockIs
    <2>2. Replaced(output) /\ Follows(output, text, i)
        BY <1>3
    <2>3. Replaced(longer) /\ Follows(longer, text, next)
        <3>1. CASE text[i] \in {"TS", "date"}
            <4>1. /\ Replaced(block) /\ Len(block) >= 1 /\ block[1] = "TS"
                  /\ block[Len(block)] \in Closing
                BY <1>3, <3>1, BlockSealed
            <4> QED BY <2>1, <2>2, <4>1, SealedFollows
        <3>2. CASE text[i] \notin {"TS", "date"}
            <4>1. block = <<text[i]>> /\ next = i + 1
                BY <1>3, <3>2 DEF Block, Single, Whole, Wrapped, Marked
            <4>2. Replaced(output \o <<text[i]>>) /\ Follows(output \o <<text[i]>>, text, i + 1)
                BY <2>2, SingleFollows
            <4> QED BY <4>1, <4>2
        <3> QED BY <3>1, <3>2
    <2>4. longer \in R
        BY <2>1, ConcatProperties
    <2>5. next \in Nat
        BY <1>1, <2>1
    <2> HIDE DEF longer, R
    <2>6. <<longer, next>> \in G
        BY <2>3, <2>4, <2>5
    <2> QED BY <2>6 DEF longer
<1> HIDE DEF G
<1>4. \A i \in 1..n : \A output \in R : \A block, next :
          <<output, i>> \in G /\ Block(text, i, block, next) => <<output \o block, next>> \in G
    BY <1>3
<1>5. <<tokenize_timestamps(text), n + 1>> \in G
    BY <1>2, <1>4, TokenizeBlocks
<1> QED BY <1>5 DEF G

(* What the patterns of addresses compare.                                   *)
Begins(t, s) == Len(s) <= Len(t) /\ \A j \in 1..Len(s) : s[j] = t[j]

LEMMA PrefixIs ==
    ASSUME NEW s \in Seq(Clean), NEW t \in Seq(Clean)
    PROVE  IsPrefix(s, t) <=> Begins(t, s)
<1> DEFINE m == Len(s)
           a == SubSeq(s, 1, m)
           b == SubSeq(t, 1, m)
<1>1. m \in Nat /\ Len(t) \in Nat
    OBVIOUS
<1>2. a \in Seq(Clean) /\ Len(a) = m /\ \A j \in 1..m : a[j] = s[j]
    <2>1. a = s
        BY SubSeqFull
    <2> QED BY <2>1
<1>3. ASSUME m <= Len(t)
      PROVE  b \in Seq(Clean) /\ Len(b) = m /\ \A j \in 1..m : b[j] = t[j]
    <2>1. \A j \in 1..m : t[j] \in Clean
        <3>1. \A j \in 1..m : j \in 1..Len(t)
            BY <1>1, <1>3
        <3> QED BY <3>1, ElementOfSeq
    <2>2. /\ b \in Seq(Clean) /\ Len(b) = IF 1 <= m THEN m - 1 + 1 ELSE 0
          /\ \A j \in 1..(m - 1 + 1) : b[j] = t[1 + j - 1]
        <3>1. 1 \in Int /\ m \in Int
            BY <1>1
        <3> HIDE DEF m
        <3> QED BY <2>1, <3>1, SubSeqProperties
    <2>3. m - 1 + 1 = m /\ \A j \in 1..m : 1 + j - 1 = j
        BY <1>1
    <2> HIDE DEF b, m
    <2>4. \A j \in 1..m : b[j] = t[j]
        BY <2>2, <2>3
    <2>5. Len(b) = m
        BY <1>1, <2>2
    <2> QED BY <2>2, <2>4, <2>5
<1>4. ASSUME m <= Len(t), a = b
      PROVE  \A j \in 1..m : s[j] = t[j]
    <2> HIDE DEF a, b, m
    <2> QED BY <1>2, <1>3, <1>4
<1>5. ASSUME m <= Len(t), \A j \in 1..m : s[j] = t[j]
      PROVE  a = b
    <2> HIDE DEF a, b
    <2>1. Len(a) = Len(b) /\ \A j \in 1..Len(a) : a[j] = b[j]
        BY <1>2, <1>3, <1>5
    <2> QED BY <1>2, <1>3, <1>5, <2>1, SeqEqual
<1>6. IsPrefix(s, t) <=> m <= Len(t) /\ a = b
    BY DEF IsPrefix
<1> HIDE DEF a, b
<1> QED BY <1>4, <1>5, <1>6 DEF Begins

(* The reverse of a sequence.                                              *)
LEMMA ReverseIs ==
    ASSUME NEW S, NEW s \in Seq(S)
    PROVE  /\ Reverse(s) \in Seq(S) /\ Len(Reverse(s)) = Len(s)
           /\ \A j \in 1..Len(s) : Reverse(s)[j] = s[Len(s) - j + 1]
<1> DEFINE n == Len(s)
           r == Reverse(s)
<1>1. n \in Nat /\ \A j \in 1..n : n - j + 1 \in 1..n
    OBVIOUS
<1>2. r = [j \in 1..n |-> s[n - j + 1]]
    BY DEF Reverse
<1>3. \A j \in 1..n : s[n - j + 1] \in S
    <2> HIDE DEF n
    <2> QED BY <1>1, ElementOfSeq DEF n
<1> HIDE DEF r, n
<1>4. r \in [1..n -> S]
    BY <1>2, <1>3
<1>5. r \in Seq(S)
    BY <1>1, <1>4, SeqDef
<1>6. Len(r) = n
    BY <1>1, <1>4, <1>5, LenProperties
<1> QED BY <1>2, <1>5, <1>6 DEF r, n

(* What a pattern with one piece before the address finds.                 *)
LEMMA LeadIs ==
    ASSUME NEW text \in Seq(Clean), NEW x \in Clean, NEW i \in 1..Len(text)
    PROVE  IsSuffix(<<x>>, SubSeq(text, 1, i - 1)) <=> i > 1 /\ text[i - 1] = x
<1> DEFINE s == SubSeq(text, 1, i - 1)
           one == <<x>>
           a == Reverse(one)
           b == Reverse(s)
<1>0. Len(text) \in Nat /\ \A j \in 1..Len(text) : text[j] \in Clean
    OBVIOUS
<1>1. s \in Seq(Clean) /\ Len(s) = i - 1 /\ \A j \in 1..(i - 1) : s[j] = text[j]
    <2> DEFINE k == i - 1
    <2>1. k \in Int /\ 1 \in Int /\ k >= 0 /\ k - 1 + 1 = k /\ \A j \in 1..k : text[j] \in Clean
        BY <1>0
    <2>2. \A j \in 1..k : 1 + j - 1 = j
        BY <2>1
    <2> HIDE DEF k
    <2>3. /\ SubSeq(text, 1, k) \in Seq(Clean)
          /\ Len(SubSeq(text, 1, k)) = IF 1 <= k THEN k - 1 + 1 ELSE 0
          /\ \A j \in 1..(k - 1 + 1) : SubSeq(text, 1, k)[j] = text[1 + j - 1]
        BY <2>1, SubSeqProperties
    <2>4. \A j \in 1..k : SubSeq(text, 1, k)[j] = text[j]
        BY <2>1, <2>2, <2>3
    <2>5. Len(SubSeq(text, 1, k)) = k
        BY <2>1, <2>3
    <2> QED BY <2>3, <2>4, <2>5 DEF k
<1>2. one \in Seq(Clean) /\ Len(one) = 1 /\ one[1] = x
    OBVIOUS
<1> HIDE DEF s, one
<1>3. a \in Seq(Clean) /\ Len(a) = 1 /\ a[1] = x
    <2>1. a \in Seq(Clean) /\ Len(a) = Len(one) /\ \A j \in 1..Len(one) : a[j] = one[Len(one) - j + 1]
        BY <1>2, ReverseIs
    <2>2. 1 \in 1..1 /\ 1 - 1 + 1 = 1
        OBVIOUS
    <2> HIDE DEF a
    <2> QED BY <1>2, <2>1, <2>2
<1>4. b \in Seq(Clean) /\ Len(b) = i - 1 /\ (i > 1 => b[1] = text[i - 1])
    <2>1. b \in Seq(Clean) /\ Len(b) = Len(s) /\ \A j \in 1..Len(s) : b[j] = s[Len(s) - j + 1]
        BY <1>1, ReverseIs
    <2>2. i > 1 => 1 \in 1..(i - 1) /\ (i - 1) - 1 + 1 = i - 1 /\ i - 1 \in 1..(i - 1)
        BY <1>0
    <2> HIDE DEF b
    <2>3. Len(b) = i - 1
        BY <1>1, <2>1
    <2>4. ASSUME i > 1 PROVE b[1] = text[i - 1]
        <3>1. b[1] = s[(i - 1) - 1 + 1]
            BY <1>1, <2>1, <2>2, <2>4
        <3>2. s[(i - 1) - 1 + 1] = s[i - 1]
            BY <2>2, <2>4
        <3> QED BY <1>1, <2>2, <2>4, <3>1, <3>2
    <2> QED BY <2>1, <2>3, <2>4
<1> HIDE DEF a, b
<1>5. IsPrefix(a, b) <=> Len(a) <= Len(b) /\ \A j \in 1..Len(a) : a[j] = b[j]
    BY <1>3, <1>4, PrefixIs DEF Begins
<1>6. IsPrefix(a, b) <=> i > 1 /\ text[i - 1] = x
    <2>1. 1 <= i - 1 <=> i > 1
        BY <1>0
    <2>2. 1..1 = {1}
        OBVIOUS
    <2> QED BY <1>3, <1>4, <1>5, <2>1, <2>2
<1> QED BY <1>6 DEF IsSuffix, a, b, s, one

(* What the pattern with two pieces behind the address finds.              *)
LEMMA PortIs ==
    ASSUME NEW text \in Seq(Clean), NEW p \in Clean, NEW q \in Clean, NEW i \in 1..Len(text)
    PROVE  IsPrefix(<<p, q>>, SubSeq(text, i + 1, Len(text)))
               <=> i + 2 <= Len(text) /\ text[i + 1] = p /\ text[i + 2] = q
<1> DEFINE n == Len(text)
           s == SubSeq(text, i + 1, n)
           two == <<p, q>>
<1>0. n \in Nat /\ \A j \in 1..n : text[j] \in Clean
    OBVIOUS
<1>1. s \in Seq(Clean) /\ Len(s) = n - i /\ \A j \in 1..(n - i) : s[j] = text[i + j]
    <2> DEFINE k == i + 1
    <2>1. k \in Int /\ n \in Int /\ n - k + 1 = n - i /\ \A j \in k..n : text[j] \in Clean
        BY <1>0
    <2>2. \A j \in 1..(n - i) : k + j - 1 = i + j
        BY <1>0
    <2>3. (IF k <= n THEN n - k + 1 ELSE 0) = n - i
        BY <1>0
    <2> HIDE DEF k, n
    <2>4. /\ SubSeq(text, k, n) \in Seq(Clean)
          /\ Len(SubSeq(text, k, n)) = IF k <= n THEN n - k + 1 ELSE 0
          /\ \A j \in 1..(n - k + 1) : SubSeq(text, k, n)[j] = text[k + j - 1]
        BY <2>1, SubSeqProperties
    <2>5. \A j \in 1..(n - i) : SubSeq(text, k, n)[j] = text[i + j]
        BY <2>1, <2>2, <2>4
    <2>6. Len(SubSeq(text, k, n)) = n - i
        BY <2>3, <2>4
    <2> QED BY <2>4, <2>5, <2>6 DEF k
<1>2. two \in Seq(Clean) /\ Len(two) = 2 /\ two[1] = p /\ two[2] = q
    OBVIOUS
<1> HIDE DEF s, two, n
<1>3. IsPrefix(two, s) <=> Len(two) <= Len(s) /\ \A j \in 1..Len(two) : two[j] = s[j]
    BY <1>1, <1>2, PrefixIs DEF Begins
<1>4. 2 <= n - i <=> i + 2 <= n
    BY <1>0
<1>5. i + 2 <= n => s[1] = text[i + 1] /\ s[2] = text[i + 2]
    <2>1. i + 2 <= n => 1 \in 1..(n - i) /\ 2 \in 1..(n - i)
        BY <1>0
    <2> QED BY <1>1, <2>1
<1>6. 1..2 = {1, 2}
    OBVIOUS
<1>7. IsPrefix(two, s) <=> i + 2 <= n /\ text[i + 1] = p /\ text[i + 2] = q
    BY <1>1, <1>2, <1>3, <1>4, <1>5, <1>6
<1> QED BY <1>7 DEF two, s, n

(* No pieces begin and end every text.                                     *)
LEMMA NothingIs ==
    ASSUME NEW s \in Seq(Clean)
    PROVE  IsPrefix(<<>>, s) /\ IsSuffix(<<>>, s)
<1> DEFINE empty == <<>>
<1>1. empty \in Seq(Clean) /\ Len(empty) = 0
    OBVIOUS
<1> HIDE DEF empty
<1>2. Reverse(empty) \in Seq(Clean) /\ Len(Reverse(empty)) = 0
    BY <1>1, ReverseIs
<1>3. Reverse(s) \in Seq(Clean) /\ Len(Reverse(s)) \in Nat /\ Len(s) \in Nat
    <2>1. Reverse(s) \in Seq(Clean)
        BY ReverseIs
    <2> QED BY <2>1
<1>4. IsPrefix(empty, s)
    <2>1. Begins(s, empty)
        BY <1>1, <1>3 DEF Begins
    <2> QED BY <1>1, <2>1, PrefixIs
<1>5. IsPrefix(Reverse(empty), Reverse(s))
    <2> DEFINE a == Reverse(empty)
               b == Reverse(s)
    <2>1. a \in Seq(Clean) /\ b \in Seq(Clean) /\ Len(a) = 0 /\ Len(b) \in Nat
        BY <1>2, <1>3
    <2> HIDE DEF a, b
    <2>2. Begins(b, a)
        BY <2>1 DEF Begins
    <2>3. IsPrefix(a, b)
        BY <2>1, <2>2, PrefixIs
    <2> QED BY <2>3 DEF a, b
<1> QED BY <1>4, <1>5 DEF IsSuffix, empty

(* Sanitizing and the patterns of addresses change pieces to markers, never
   one that makes a marker of a time stamp.                                  *)
Exchangeable(text, i) ==
    text[i] \notin {"TS"} \cup Closing /\ ~(i > 1 /\ text[i - 1] = "TS" /\ text[i] \in Keys)
Exchanged(text, other) ==
    /\ Len(other) = Len(text)
    /\ \A i \in 1..Len(text) :
          other[i] = text[i] \/ (Exchangeable(text, i) /\ other[i] \in Markers)

Unled(text, x) == \A i \in 1..Len(text) : text[i] = "ip" => ~(i > 1 /\ text[i - 1] = x)
Unported(text) ==
    \A i \in 1..Len(text) : text[i] = "ip" =>
        ~(i + 2 <= Len(text) /\ text[i + 1] = "port" /\ text[i + 2] = "arrow")

(* The markers are none of the pieces the patterns look for.               *)
LEMMA MarkersApart ==
    /\ Markers \cap Addressing = {} /\ "mail" \notin Addressing
    /\ {"src", "dst", "arrow", "port"} \subseteq Clean
    /\ "ip" \notin {"src", "dst", "arrow", "port"} /\ "mail" \notin {"src", "dst", "arrow", "port"}
    /\ "SRC_IP" \in Markers /\ "DST_IP" \in Markers /\ "EMAIL" \in Markers
    /\ Markers \cap {"src", "dst", "arrow", "port", "ip", "mail"} = {}
BY DEF Markers, Addressing, Clean, Pieces, Separators, Unvalued, Closing

(* An exchange may end a marker earlier, but leaves it one.                *)
LEMMA ClosedKept ==
    ASSUME NEW text, NEW other, Len(text) \in Nat, Exchanged(text, other), Closed(text)
    PROVE  Closed(other)
<1> DEFINE n == Len(text)
<1>1. Len(other) = n /\ n \in Nat /\ \A i \in 1..n :
          other[i] = text[i] \/ (Exchangeable(text, i) /\ other[i] \in Markers)
    BY DEF Exchanged
<1>2. \A i \in 1..n : /\ text[i] \in {"TS"} \cup Closing => other[i] = text[i]
                      /\ i > 1 /\ text[i - 1] = "TS" /\ text[i] \in Keys => other[i] = text[i]
                      /\ other[i] = "TS" => text[i] = "TS"
    BY <1>1, SymbolsMore DEF Exchangeable
<1> HIDE DEF n
<1>3. ASSUME NEW i \in 1..n, other[i] = "TS"
      PROVE  \E e \in Nat : Marked(other, i, e)
    <2>1. PICK f \in Nat : Marked(text, i, f)
        BY <1>2, <1>3 DEF Closed, n
    <2>2. /\ f \in (i + 2)..n /\ text[i + 1] \in Keys /\ text[f] \in Closing
          /\ \A j \in (i + 2)..(f - 1) : text[j] # "TS"
        BY <2>1 DEF Marked, n
    <2> DEFINE I == {j \in (i + 2)..f : other[j] \in Closing}
               e == Min(I)
    <2>3. i + 1 \in 1..n /\ f \in 1..n /\ f \in (i + 2)..f
          /\ \A j \in (i + 2)..f : j \in Nat /\ j \in 1..n
        BY <1>1, <2>2
    <2>4. other[i + 1] \in Keys /\ other[f] \in Closing
        <3> DEFINE k == i + 1
        <3>1. k \in 1..n /\ k > 1 /\ k - 1 = i /\ text[i] = "TS" /\ text[k] \in Keys
            BY <1>2, <1>3, <2>2, <2>3
        <3> HIDE DEF k
        <3>2. other[k] = text[k]
            BY <1>2, <3>1
        <3> QED BY <1>2, <2>2, <2>3, <3>1, <3>2 DEF k
    <2>5. I \in SUBSET Nat /\ f \in I
        BY <2>3, <2>4
    <2>6. e \in I /\ \A k \in I : e <= k
        <3> HIDE DEF I
        <3>1. I # {}
            BY <2>5
        <3> QED BY <2>5, <3>1, LeastNumber
    <2> HIDE DEF e
    <2>7. e \in (i + 2)..f /\ e \in (i + 2)..n /\ other[e] \in Closing /\ e \in Nat
        BY <1>1, <2>2, <2>6
    <2>8. ASSUME NEW j \in (i + 2)..(e - 1)
          PROVE  other[j] \notin Closing /\ other[j] # "TS"
        <3>1. j \in (i + 2)..f /\ j < e /\ j \in (i + 2)..(f - 1) /\ j \in 1..n /\ j \in Nat
            BY <1>1, <2>2, <2>7
        <3>2. j \notin I
            <4> HIDE DEF I
            <4>1. j \in I => e <= j
                BY <2>6
            <4> QED BY <2>7, <3>1, <4>1
        <3>3. other[j] \notin Closing
            BY <3>1, <3>2
        <3>4. text[j] # "TS"
            BY <2>2, <3>1
        <3> QED BY <1>2, <3>1, <3>3, <3>4
    <2>9. Marked(other, i, e)
        BY <1>1, <1>3, <2>4, <2>7, <2>8 DEF Marked
    <2> QED BY <2>7, <2>9
<1> QED BY <1>1, <1>3 DEF Closed

(* An exchange lets no address follow a field again.                       *)
LEMMA UnledKept ==
    ASSUME NEW text, NEW other, Len(text) \in Nat, Exchanged(text, other), NEW x \in Leads, Unled(text, x)
    PROVE  Unled(other, x)
<1> DEFINE n == Len(text)
<1>1. Len(other) = n /\ n \in Nat /\ \A i \in 1..n :
          other[i] = text[i] \/ (Exchangeable(text, i) /\ other[i] \in Markers)
    BY DEF Exchanged
<1>2. \A i \in 1..n : other[i] \in {"ip", x} => text[i] = other[i]
    BY <1>1, MarkersApart, SymbolsOfAddresses
<1>3. \A i \in 1..n : i > 1 => i - 1 \in 1..n
    BY <1>1
<1> HIDE DEF n
<1> QED BY <1>1, <1>2, <1>3 DEF Unled, n

(* An exchange lets no port follow an address again.                       *)
LEMMA UnportedKept ==
    ASSUME NEW text, NEW other, Len(text) \in Nat, Exchanged(text, other), Unported(text)
    PROVE  Unported(other)
<1> DEFINE n == Len(text)
<1>1. Len(other) = n /\ n \in Nat /\ \A i \in 1..n :
          other[i] = text[i] \/ (Exchangeable(text, i) /\ other[i] \in Markers)
    BY DEF Exchanged
<1>2. \A i \in 1..n : other[i] \in {"ip", "port", "arrow"} => text[i] = other[i]
    BY <1>1, MarkersApart, SymbolsOfAddresses
<1>3. \A i \in 1..n : i + 2 <= n => i + 1 \in 1..n /\ i + 2 \in 1..n
    BY <1>1
<1> HIDE DEF n
<1> QED BY <1>1, <1>2, <1>3 DEF Unported, n

(* No field of personal values still has its value.                        *)
Covered(text) == \A i \in 1..Len(text) : ~sensitive(text, i)

(* An exchange gives no field a value.                                     *)
LEMMA CoveredKept ==
    ASSUME NEW text, NEW other, Len(text) \in Nat, Exchanged(text, other), Covered(text)
    PROVE  Covered(other)
<1> DEFINE n == Len(text)
<1>1. Len(other) = n /\ n \in Nat /\ \A i \in 1..n :
          other[i] = text[i] \/ (Exchangeable(text, i) /\ other[i] \in Markers)
    BY DEF Exchanged
<1>2. \A i \in 1..n : /\ other[i] = "field" => text[i] = "field"
                      /\ text[i] \in Unvalued => other[i] \in Unvalued
    BY <1>1 DEF Markers, Unvalued, Closing
<1>3. \A i \in 1..n : i > 1 => i - 1 \in 1..n
    BY <1>1
<1>4. \A i \in 1..n : i > 1 /\ text[i - 1] = "field" => text[i] \in Unvalued
    BY DEF Covered, sensitive
<1> HIDE DEF n
<1>5. \A i \in 1..n : i > 1 /\ other[i - 1] = "field" => other[i] \in Unvalued
    BY <1>2, <1>3, <1>4
<1> QED BY <1>1, <1>5 DEF Covered, sensitive

(* What replace_capture does to each piece.                                *)
LEMMA CaptureIs ==
    ASSUME NEW text \in Seq(Clean), NEW before, NEW after, NEW marker
    PROVE  LET other == replace_capture(text, before, after, marker)
           IN  /\ Len(other) = Len(text) /\ other = [i \in 1..Len(text) |-> other[i]]
               /\ \A i \in 1..Len(text) :
                     other[i] = IF /\ text[i] = "ip"
                                   /\ IsSuffix(before, SubSeq(text, 1, i - 1))
                                   /\ IsPrefix(after, SubSeq(text, i + 1, Len(text)))
                                THEN marker ELSE text[i]
<1> DEFINE here(i) == /\ text[i] = "ip"
                      /\ IsSuffix(before, SubSeq(text, 1, i - 1))
                      /\ IsPrefix(after, SubSeq(text, i + 1, Len(text)))
           n == Len(text)
           other == replace_capture(text, before, after, marker)
<1>1. n \in Nat /\ DOMAIN text = 1..n
    OBVIOUS
<1>2. other = [i \in 1..n |-> IF here(i) THEN marker ELSE text[i]]
    BY <1>1 DEF replace_capture
<1> HIDE DEF here, other, n
<1>3. other = [i \in 1..n |-> other[i]] /\ \A i \in 1..n : other[i] = IF here(i) THEN marker ELSE text[i]
    BY <1>2
<1>4. Len(other) = n
    <2>1. DOMAIN other = 1..n
        BY <1>2
    <2>2. other \in [1..n -> {other[i] : i \in 1..n}]
        BY <1>3
    <2>3. other \in Seq({other[i] : i \in 1..n})
        BY <1>1, <2>2, SeqDef
    <2> QED BY <1>1, <2>1, <2>3, LenProperties
<1> QED BY <1>3, <1>4 DEF other, here, n

(* A pattern with a piece before the address leaves no address it finds.   *)
LEMMA LeadReplaced ==
    ASSUME NEW text \in Seq(Clean), NEW x \in Leads, NEW marker \in Markers
    PROVE  LET other == replace_capture(text, <<x>>, <<>>, marker)
           IN  /\ other \in Seq(Clean) /\ Exchanged(text, other) /\ Unled(other, x)
               /\ Unled(text, x) => other = text
<1> DEFINE n == Len(text)
           before == <<x>>
           after == <<>>
           other == replace_capture(text, before, after, marker)
           led(i) == text[i] = "ip" /\ i > 1 /\ text[i - 1] = x
<1>1. n \in Nat /\ text = [i \in 1..n |-> text[i]]
    OBVIOUS
<1>2. other \in Seq(Clean)
    BY CaptureClean
<1>3. /\ Len(other) = n /\ other = [i \in 1..n |-> other[i]]
      /\ \A i \in 1..n : other[i] = IF /\ text[i] = "ip"
                                       /\ IsSuffix(before, SubSeq(text, 1, i - 1))
                                       /\ IsPrefix(after, SubSeq(text, i + 1, n))
                                    THEN marker ELSE text[i]
    BY CaptureIs
<1>4. ASSUME NEW i \in 1..n
      PROVE  /\ IsSuffix(before, SubSeq(text, 1, i - 1)) <=> i > 1 /\ text[i - 1] = x
             /\ IsPrefix(after, SubSeq(text, i + 1, n))
    <2>1. x \in Clean
        BY MarkersApart DEF Leads
    <2>2. IsSuffix(before, SubSeq(text, 1, i - 1)) <=> i > 1 /\ text[i - 1] = x
        BY <2>1, LeadIs
    <2>3. SubSeq(text, i + 1, n) \in Seq(Clean)
        <3> DEFINE k == i + 1
        <3>1. k \in Int /\ n \in Int /\ \A j \in k..n : text[j] \in Clean
            BY <1>1
        <3> HIDE DEF k, n
        <3>2. SubSeq(text, k, n) \in Seq(Clean)
            BY <3>1, SubSeqProperties
        <3> QED BY <3>2 DEF k
    <2>4. IsPrefix(after, SubSeq(text, i + 1, n))
        BY <2>3, NothingIs
    <2> QED BY <2>2, <2>4
<1> HIDE DEF other, before, after, n
<1>5. \A i \in 1..n : other[i] = IF led(i) THEN marker ELSE text[i]
    BY <1>3, <1>4
<1>6. Exchanged(text, other)
    BY <1>3, <1>5, SymbolsMore DEF Exchanged, Exchangeable, n
<1>7. Unled(other, x)
    <2>1. ASSUME NEW i \in 1..n, other[i] = "ip", i > 1, other[i - 1] = x PROVE FALSE
        <3>1. i - 1 \in 1..n
            BY <1>1, <2>1
        <3>2. text[i] = "ip" /\ ~led(i)
            BY <1>5, <2>1, MarkersApart
        <3>3. text[i - 1] = x
            BY <1>5, <2>1, <3>1, MarkersApart DEF Leads
        <3> QED BY <2>1, <3>2, <3>3
    <2> QED BY <1>3, <2>1 DEF Unled
<1>8. Unled(text, x) => other = text
    <2> SUFFICES ASSUME Unled(text, x) PROVE other = text
        OBVIOUS
    <2>1. \A i \in 1..n : ~led(i)
        BY DEF Unled, n
    <2>2. \A i \in 1..n : other[i] = text[i]
        BY <1>5, <2>1
    <2>3. Len(other) = Len(text) /\ \A i \in 1..Len(other) : other[i] = text[i]
        BY <1>3, <2>2 DEF n
    <2> QED BY <1>2, <2>3, SeqEqual
<1> QED BY <1>2, <1>6, <1>7, <1>8 DEF other, before, after

(* The pattern with two pieces behind the address leaves none either.      *)
LEMMA PortReplaced ==
    ASSUME NEW text \in Seq(Clean), NEW marker \in Markers
    PROVE  LET other == replace_capture(text, <<>>, <<"port", "arrow">>, marker)
           IN  /\ other \in Seq(Clean) /\ Exchanged(text, other) /\ Unported(other)
               /\ Unported(text) => other = text
<1> DEFINE n == Len(text)
           before == <<>>
           after == <<"port", "arrow">>
           other == replace_capture(text, before, after, marker)
           ported(i) == text[i] = "ip" /\ i + 2 <= n /\ text[i + 1] = "port" /\ text[i + 2] = "arrow"
<1>1. n \in Nat /\ text = [i \in 1..n |-> text[i]]
    OBVIOUS
<1>2. other \in Seq(Clean)
    BY CaptureClean
<1>3. /\ Len(other) = n /\ other = [i \in 1..n |-> other[i]]
      /\ \A i \in 1..n : other[i] = IF /\ text[i] = "ip"
                                       /\ IsSuffix(before, SubSeq(text, 1, i - 1))
                                       /\ IsPrefix(after, SubSeq(text, i + 1, n))
                                    THEN marker ELSE text[i]
    BY CaptureIs
<1>4. ASSUME NEW i \in 1..n
      PROVE  /\ IsSuffix(before, SubSeq(text, 1, i - 1))
             /\ IsPrefix(after, SubSeq(text, i + 1, n))
                    <=> i + 2 <= n /\ text[i + 1] = "port" /\ text[i + 2] = "arrow"
    <2>1. "port" \in Clean /\ "arrow" \in Clean
        BY MarkersApart
    <2>2. IsPrefix(after, SubSeq(text, i + 1, n))
              <=> i + 2 <= n /\ text[i + 1] = "port" /\ text[i + 2] = "arrow"
        BY <2>1, PortIs
    <2>3. SubSeq(text, 1, i - 1) \in Seq(Clean)
        <3> DEFINE k == i - 1
        <3>1. k \in Int /\ 1 \in Int /\ \A j \in 1..k : text[j] \in Clean
            BY <1>1
        <3> HIDE DEF k, n
        <3>2. SubSeq(text, 1, k) \in Seq(Clean)
            BY <3>1, SubSeqProperties
        <3> QED BY <3>2 DEF k
    <2>4. IsSuffix(before, SubSeq(text, 1, i - 1))
        BY <2>3, NothingIs
    <2> QED BY <2>2, <2>4
<1> HIDE DEF other, before, after, n
<1>5. \A i \in 1..n : other[i] = IF ported(i) THEN marker ELSE text[i]
    BY <1>3, <1>4
<1>6. Exchanged(text, other)
    BY <1>3, <1>5, SymbolsMore DEF Exchanged, Exchangeable, n
<1>7. Unported(other)
    <2>1. ASSUME NEW i \in 1..n, other[i] = "ip", i + 2 <= n, other[i + 1] = "port", other[i + 2] = "arrow"
          PROVE  FALSE
        <3>1. i + 1 \in 1..n /\ i + 2 \in 1..n
            BY <1>1, <2>1
        <3>2. text[i] = "ip" /\ ~ported(i)
            BY <1>5, <2>1, MarkersApart
        <3>3. text[i + 1] = "port" /\ text[i + 2] = "arrow"
            BY <1>5, <2>1, <3>1, MarkersApart
        <3> QED BY <2>1, <3>2, <3>3
    <2> QED BY <1>3, <2>1 DEF Unported
<1>8. Unported(text) => other = text
    <2> SUFFICES ASSUME Unported(text) PROVE other = text
        OBVIOUS
    <2>1. \A i \in 1..n : ~ported(i)
        BY DEF Unported, n
    <2>2. \A i \in 1..n : other[i] = text[i]
        BY <1>5, <2>1
    <2>3. Len(other) = Len(text) /\ \A i \in 1..Len(other) : other[i] = text[i]
        BY <1>3, <2>2 DEF n
    <2> QED BY <1>2, <2>3, SeqEqual
<1> QED BY <1>2, <1>6, <1>7, <1>8 DEF other, before, after

(* The four patterns together.                                             *)
LEMMA ReplacedIs ==
    ASSUME NEW text \in Seq(Clean)
    PROVE  Replaced(text) <=> /\ Unled(text, "src") /\ Unled(text, "dst") /\ Unled(text, "arrow")
                              /\ Unported(text)
<1>1. Replaced(text) => /\ Unled(text, "src") /\ Unled(text, "dst") /\ Unled(text, "arrow")
                        /\ Unported(text)
    BY DEF Replaced, Unled, Unported, Leads
<1>2. ASSUME Unled(text, "src"), Unled(text, "dst"), Unled(text, "arrow"), Unported(text)
      PROVE  Replaced(text)
    <2>1. ASSUME NEW i \in 1..Len(text), text[i] = "ip", i > 1
          PROVE  text[i - 1] \notin Leads
        BY <1>2, <2>1 DEF Unled, Leads
    <2>2. ASSUME NEW i \in 1..Len(text), text[i] = "ip", i + 2 <= Len(text)
          PROVE  ~(text[i + 1] = "port" /\ text[i + 2] = "arrow")
        BY <1>2, <2>2 DEF Unported
    <2> QED BY <2>1, <2>2 DEF Replaced
<1> QED BY <1>1, <1>2

(* All four patterns leave no address that one of them finds.              *)
LEMMA AddressesReplaced ==
    ASSUME NEW text \in Seq(Clean)
    PROVE  /\ Replaced(replace_addresses(text))
           /\ Closed(text) => Closed(replace_addresses(text))
           /\ Covered(text) => Covered(replace_addresses(text))
           /\ Replaced(text) => replace_addresses(text) = text
<1> DEFINE one == replace_capture(text, <<"src">>, <<>>, "SRC_IP")
           two == replace_capture(one, <<"dst">>, <<>>, "DST_IP")
           three == replace_capture(two, <<>>, <<"port", "arrow">>, "SRC_IP")
           four == replace_capture(three, <<"arrow">>, <<>>, "DST_IP")
<1>0. /\ "SRC_IP" \in Markers /\ "DST_IP" \in Markers
      /\ "src" \in Leads /\ "dst" \in Leads /\ "arrow" \in Leads
    BY DEF Markers, Leads
<1>1. /\ one \in Seq(Clean) /\ Exchanged(text, one) /\ Unled(one, "src")
      /\ Unled(text, "src") => one = text
    BY <1>0, LeadReplaced
<1> HIDE DEF one
<1>2. /\ two \in Seq(Clean) /\ Exchanged(one, two) /\ Unled(two, "dst")
      /\ Unled(one, "dst") => two = one
    BY <1>0, <1>1, LeadReplaced
<1> HIDE DEF two
<1>3. /\ three \in Seq(Clean) /\ Exchanged(two, three) /\ Unported(three)
      /\ Unported(two) => three = two
    BY <1>0, <1>2, PortReplaced
<1> HIDE DEF three
<1>4. /\ four \in Seq(Clean) /\ Exchanged(three, four) /\ Unled(four, "arrow")
      /\ Unled(three, "arrow") => four = three
    BY <1>0, <1>3, LeadReplaced
<1> HIDE DEF four
<1>5. Len(text) \in Nat /\ Len(one) \in Nat /\ Len(two) \in Nat /\ Len(three) \in Nat
    BY <1>1, <1>2, <1>3
<1>6. Unled(two, "src") /\ Unled(three, "src") /\ Unled(four, "src")
    BY <1>0, <1>1, <1>2, <1>3, <1>4, <1>5, UnledKept
<1>7. Unled(three, "dst") /\ Unled(four, "dst")
    BY <1>0, <1>2, <1>3, <1>4, <1>5, UnledKept
<1>8. Unported(four)
    BY <1>3, <1>4, <1>5, UnportedKept
<1>9. Replaced(four)
    BY <1>4, <1>6, <1>7, <1>8, ReplacedIs
<1>10. Closed(text) => Closed(four)
    BY <1>1, <1>2, <1>3, <1>4, <1>5, ClosedKept
<1>11. ASSUME Replaced(text) PROVE four = text
    <2>1. /\ Unled(text, "src") /\ Unled(text, "dst") /\ Unled(text, "arrow") /\ Unported(text)
        BY <1>11, ReplacedIs
    <2> QED BY <1>1, <1>2, <1>3, <1>4, <2>1
<1>12. replace_addresses(text) = four
    BY DEF replace_addresses, four, three, two, one
<1>13. Covered(text) => Covered(four)
    BY <1>1, <1>2, <1>3, <1>4, <1>5, CoveredKept
<1> QED BY <1>9, <1>10, <1>11, <1>12, <1>13

(* The personal values replaced, every marker is still one, and no field has
   its value.                                                                *)
LEMMA SanitizeKeeps ==
    ASSUME NEW text \in Seq(Pieces)
    PROVE  /\ Closed(text) => Closed(sanitize(text))
           /\ Covered(sanitize(text))
           /\ text \in Seq(Clean) /\ Covered(text) => sanitize(text) = text
<1> DEFINE n == Len(text)
           other == sanitize(text)
<1>1. n \in Nat /\ DOMAIN text = 1..n /\ text = [i \in 1..n |-> text[i]]
    OBVIOUS
<1>2. other = [i \in 1..n |-> IF sensitive(text, i) THEN "PERSON"
                              ELSE IF text[i] = "mail" THEN "EMAIL" ELSE text[i]]
    BY <1>1 DEF sanitize
<1>3. other \in Seq(Clean)
    BY SanitizeCleans
<1> HIDE DEF other, n
<1>4. DOMAIN other = 1..n
    BY <1>2
<1>5. Len(other) = n
    BY <1>1, <1>3, <1>4, LenProperties
<1>6. \A i \in 1..n : other[i] = IF sensitive(text, i) THEN "PERSON"
                                 ELSE IF text[i] = "mail" THEN "EMAIL" ELSE text[i]
    BY <1>2
<1>7. "PERSON" \in Markers /\ "EMAIL" \in Markers
    BY DEF Markers
<1>8. \A i \in 1..n : sensitive(text, i) \/ text[i] = "mail" => Exchangeable(text, i)
    <2>1. \A i \in 1..n : sensitive(text, i) => Exchangeable(text, i)
        BY Symbols DEF sensitive, Exchangeable, Unvalued
    <2>2. \A i \in 1..n : text[i] = "mail" => Exchangeable(text, i)
        BY SymbolsMore DEF Exchangeable
    <2> QED BY <2>1, <2>2
<1>9. Exchanged(text, other)
    BY <1>5, <1>6, <1>7, <1>8 DEF Exchanged, n
<1>10. ASSUME text \in Seq(Clean), Covered(text) PROVE other = text
    <2>1. \A i \in 1..n : text[i] # "mail"
        <3>1. \A i \in 1..n : text[i] \in Clean
            BY <1>10, ElementOfSeq DEF n
        <3> QED BY <3>1 DEF Clean
    <2>2. \A i \in 1..n : ~sensitive(text, i)
        BY <1>10 DEF Covered, n
    <2>3. other = [i \in 1..n |-> text[i]]
        BY <1>2, <2>1, <2>2
    <2> QED BY <1>1, <2>3
<1>11. Closed(text) => Closed(other)
    BY <1>1, <1>9, ClosedKept DEF n
<1>12. Covered(other)
    <2>1. ASSUME NEW i \in 1..n, i > 1, other[i - 1] = "field"
          PROVE  other[i] \in Unvalued
        <3> DEFINE k == i - 1
        <3>1. k \in 1..n
            BY <1>1, <2>1
        <3> HIDE DEF k
        <3>2. text[k] = "field"
            BY <1>6, <2>1, <3>1 DEF k
        <3>3. sensitive(text, i) \/ text[i] \in Unvalued
            BY <2>1, <3>2 DEF sensitive, k
        <3> QED BY <1>6, <1>7, <3>3 DEF Unvalued, Closing
    <2> QED BY <1>5, <2>1 DEF Covered, sensitive
<1> QED BY <1>10, <1>11, <1>12 DEF other

(* Two such texts make one, unless a field ends the first.                 *)
LEMMA CoveredTogether ==
    ASSUME NEW S, NEW a \in Seq(S), NEW b \in Seq(S), Covered(a), Covered(b),
           Len(a) >= 1 /\ Len(b) >= 1 /\ a[Len(a)] = "field" => b[1] \in Unvalued
    PROVE  Covered(a \o b)
<1> DEFINE c == a \o b
           n == Len(a)
           m == Len(b)
<1>1. /\ n \in Nat /\ m \in Nat /\ Len(c) = n + m
      /\ \A j \in 1..(n + m) : c[j] = IF j <= n THEN a[j] ELSE b[j - n]
    BY ConcatProperties
<1>2. /\ \A j \in 1..n : j > 1 /\ a[j - 1] = "field" => a[j] \in Unvalued
      /\ \A j \in 1..m : j > 1 /\ b[j - 1] = "field" => b[j] \in Unvalued
    BY DEF Covered, sensitive
<1>3. n >= 1 /\ m >= 1 /\ a[n] = "field" => b[1] \in Unvalued
    OBVIOUS
<1> HIDE DEF c, n, m
<1>4. ASSUME NEW j \in 1..(n + m), j > 1, c[j - 1] = "field"
      PROVE  c[j] \in Unvalued
    <2> DEFINE k == j - 1
               l == j - n
               h == l - 1
    <2>1. k \in 1..(n + m)
        BY <1>1, <1>4
    <2>2. CASE j <= n
        <3>1. j \in 1..n /\ k <= n
            BY <1>1, <1>4, <2>2
        <3> HIDE DEF k
        <3>2. c[j] = a[j] /\ c[k] = a[k]
            BY <1>1, <2>1, <2>2, <3>1
        <3> QED BY <1>2, <1>4, <3>1, <3>2 DEF k
    <2>3. CASE j = n + 1
        <3>1. k = n /\ k <= n /\ ~(j <= n) /\ l = 1 /\ n >= 1 /\ m >= 1
            BY <1>1, <1>4, <2>3
        <3> HIDE DEF k, l
        <3>2. c[k] = a[k] /\ c[j] = b[l]
            BY <1>1, <1>4, <2>1, <3>1 DEF l
        <3> QED BY <1>3, <1>4, <3>1, <3>2 DEF k
    <2>4. CASE j > n + 1
        <3>1. ~(j <= n) /\ ~(k <= n) /\ l \in 1..m /\ l > 1 /\ k - n = h
            BY <1>1, <1>4, <2>4
        <3> HIDE DEF k, l, h
        <3>2. c[j] = b[l] /\ c[k] = b[h]
            BY <1>1, <1>4, <2>1, <3>1 DEF l
        <3> QED BY <1>2, <1>4, <3>1, <3>2 DEF h, k
    <2> QED BY <1>1, <1>4, <2>2, <2>3, <2>4
<1> QED BY <1>1, <1>4 DEF Covered, sensitive, c

(* A time in a marker of its own.                                          *)
LEMMA WrapCovered ==
    ASSUME NEW style \in Keys, NEW time \in Seq(Clean), Covered(time)
    PROVE  LET block == Wrap(style, time)
           IN  /\ block \in Seq(Clean) /\ Covered(block) /\ Len(block) >= 1
               /\ block[1] = "TS" /\ block[Len(block)] = "end"
<1> DEFINE block == Wrap(style, time)
           n == Len(time)
<1>1. Wraps(block, style, time) /\ n \in Nat
    BY WrapIs
<1> HIDE DEF block
<1>2. /\ block \in Seq(Clean) /\ Len(block) = n + 3
      /\ block[1] = "TS" /\ block[2] = style /\ block[n + 3] = "end"
      /\ \A j \in 3..(n + 2) : block[j] = time[j - 2]
    BY <1>1 DEF Wraps, n
<1>3. \A j \in 1..n : j > 1 /\ time[j - 1] = "field" => time[j] \in Unvalued
    BY DEF Covered, sensitive
<1> HIDE DEF n
<1>4. style # "field" /\ "TS" # "field" /\ "end" \in Unvalued
    BY DEF Keys, Unvalued, Closing
<1>5. ASSUME NEW j \in 1..(n + 3), j > 1, block[j - 1] = "field"
      PROVE  block[j] \in Unvalued
    <2> DEFINE h == j - 1
               k == j - 2
               l == k - 1
    <2>1. h # 1 /\ h # 2
        BY <1>2, <1>4, <1>5
    <2>2. CASE j = n + 3
        BY <1>2, <1>4, <2>2
    <2>3. CASE j # n + 3
        <3>1. /\ h \in 3..(n + 2) /\ j \in 3..(n + 2) /\ k \in 1..n /\ k > 1
              /\ h - 2 = l /\ j - 2 = k
            BY <1>1, <1>5, <2>1, <2>3
        <3> HIDE DEF h, k, l
        <3>2. block[j] = time[k] /\ block[h] = time[l]
            BY <1>2, <3>1
        <3> QED BY <1>3, <1>5, <3>1, <3>2 DEF h, l
    <2> QED BY <2>2, <2>3
<1>6. Covered(block)
    BY <1>2, <1>5 DEF Covered, sensitive
<1>7. Len(block) >= 1 /\ block[Len(block)] = "end"
    BY <1>1, <1>2
<1> QED BY <1>2, <1>6, <1>7 DEF block

(* The token of a part, between the part before and the one behind it.     *)
Joint(text, i, token, e) ==
    /\ token \in Seq(Clean) /\ Covered(token) /\ Len(token) >= 1
    /\ token[1] = text[i] \/ token[1] = "TS"
    /\ token[Len(token)] = text[e] \/ token[Len(token)] = "end"

LEMMA TokenCovered ==
    ASSUME NEW text \in Seq(Clean), Covered(text), NEW i \in 1..Len(text)
    PROVE  LET part == Part(text, timestamp_candidates(text), i)
           IN  Joint(text, i, Token(text, part), i + part.length - 1)
<1> DEFINE C == timestamp_candidates(text)
           here == {c \in C : c.position = i}
           part == Part(text, C, i)
           n == Len(text)
           e == i + part.length - 1
           m == part.length
           original == SubSeq(text, i, e)
<1>1. text \in Seq(Pieces) /\ n \in Nat /\ \A j \in 1..n : text[j] \in Clean
    BY CleanText
<1>2. C \in SUBSET Stamps(n) /\ C \in SUBSET Candidates(n)
    BY <1>1, TimestampsIn DEF Stamps
<1>3. part.position = i /\ part.length \in 1..n /\ i + part.length <= n + 1
    BY <1>1, <1>2, PartAt
<1>4. part.kind = "Literal" \/ part.style \in Keys
    <2>1. CASE here = {}
        BY <2>1, LiteralIs DEF Part
    <2>2. CASE here # {}
        <3>1. part = best(here) /\ here \in SUBSET Candidates(n)
            BY <1>2, <2>2 DEF Part
        <3>2. part \in here
            BY <1>1, <2>2, <3>1, BestIn
        <3> QED BY <1>2, <3>2 DEF Stamps
    <2> QED BY <2>1, <2>2
<1>5. Original(text, part) = original
    BY <1>3 DEF Original
<1> HIDE DEF part, C
<1>6. e \in i..n /\ m \in 1..n /\ e - i + 1 = m /\ i \in Int /\ e \in Int /\ i + m - 1 = e
    BY <1>1, <1>3
<1> HIDE DEF e, m, n
<1>7. original \in Seq(Clean) /\ Len(original) = m /\ \A j \in 1..m : original[j] = text[i + j - 1]
    <2>1. \A j \in i..e : text[j] \in Clean
        BY <1>1, <1>6 DEF n
    <2>2. /\ original \in Seq(Clean) /\ Len(original) = IF i <= e THEN e - i + 1 ELSE 0
          /\ \A j \in 1..(e - i + 1) : original[j] = text[i + j - 1]
        BY <1>6, <2>1, SubSeqProperties
    <2> HIDE DEF original
    <2> QED BY <1>6, <2>2
<1> HIDE DEF original
<1>8. Covered(original)
    <2>1. \A j \in 1..n : j > 1 /\ text[j - 1] = "field" => text[j] \in Unvalued
        BY DEF Covered, sensitive, n
    <2>2. ASSUME NEW j \in 1..m, j > 1, original[j - 1] = "field"
          PROVE  original[j] \in Unvalued
        <3> DEFINE h == j - 1
                   k == i + j - 1
                   l == k - 1
        <3>1. h \in 1..m /\ i + h - 1 = l /\ k \in 1..n /\ k > 1
            BY <1>1, <1>6, <2>2 DEF n
        <3>2. original[j] = text[k]
            BY <1>7
        <3> HIDE DEF h, k, l
        <3>3. original[h] = text[l]
            BY <1>7, <3>1
        <3> QED BY <2>1, <2>2, <3>1, <3>2, <3>3 DEF h, l
    <2> QED BY <1>7, <2>2 DEF Covered, sensitive
<1>9. Len(original) >= 1 /\ original[1] = text[i] /\ original[Len(original)] = text[e]
    <2>1. 1 \in 1..m /\ m \in 1..m /\ i + 1 - 1 = i /\ m >= 1
        BY <1>1, <1>6 DEF n
    <2>2. original[1] = text[i + 1 - 1] /\ original[m] = text[i + m - 1]
        BY <1>7, <2>1
    <2> QED BY <1>6, <1>7, <2>1, <2>2
<1>10. CASE part.kind = "Literal" \/ original[1] = "TS"
    <2>1. Token(text, part) = original
        BY <1>5, <1>10 DEF Token
    <2> QED BY <1>7, <1>8, <1>9, <2>1 DEF Joint, part, C, e
<1>11. CASE ~(part.kind = "Literal" \/ original[1] = "TS")
    <2>1. Token(text, part) = Wrap(part.style, original)
        BY <1>5, <1>11 DEF Token, Wrap
    <2> DEFINE style == part.style
               block == Wrap(style, original)
    <2>2. style \in Keys
        BY <1>4, <1>11
    <2> HIDE DEF style
    <2>3. /\ block \in Seq(Clean) /\ Covered(block) /\ Len(block) >= 1
          /\ block[1] = "TS" /\ block[Len(block)] = "end"
        BY <1>7, <1>8, <2>2, WrapCovered
    <2>4. Token(text, part) = block
        BY <2>1 DEF style
    <2> HIDE DEF block
    <2>5. Joint(text, i, Token(text, part), e)
        BY <2>3, <2>4 DEF Joint
    <2> QED BY <2>5 DEF part, C, e
<1> QED BY <1>10, <1>11

(* Tokenizing time stamps gives no field a value.                          *)
LEMMA TokenizedCovered ==
    ASSUME NEW text \in Seq(Clean), Covered(text)
    PROVE  Covered(tokenize_timestamps(text))
<1> DEFINE n == Len(text)
           R == Seq(Clean)
           Open(output, i) == Len(output) >= 1 /\ output[Len(output)] = "field"
                                  => i > 1 /\ text[i - 1] = "field"
           G == {p \in R \X Nat : Covered(p[1]) /\ Open(p[1], p[2])}
<1>1. n \in Nat /\ text \in Seq(Pieces) /\ timestamp_candidates(text) \in SUBSET Candidates(n)
    <2>1. text \in Seq(Pieces)
        BY CleanText
    <2> QED BY <2>1, TimestampsIn DEF Stamps
<1>2. << <<>>, 1 >> \in G
    <2>1. <<>> \in R /\ Len(<<>>) = 0
        OBVIOUS
    <2>2. Covered(<<>>) /\ Open(<<>>, 1)
        BY <2>1 DEF Covered
    <2> DEFINE empty == <<>>
    <2>3. empty \in R /\ Covered(empty) /\ Open(empty, 1)
        BY <2>1, <2>2
    <2> HIDE DEF empty, R, Open
    <2>4. <<empty, 1>> \in G
        BY <2>3
    <2> QED BY <2>4 DEF empty
<1>3. ASSUME NEW i \in 1..n, NEW output \in R, <<output, i>> \in G
      PROVE  LET part == Part(text, timestamp_candidates(text), i)
             IN  <<output \o Token(text, part), i + part.length>> \in G
    <2> DEFINE part == Part(text, timestamp_candidates(text), i)
               token == Token(text, part)
               next == i + part.length
               e == next - 1
               longer == output \o token
    <2>1. Covered(output) /\ Open(output, i)
        BY <1>3
    <2>2. part.length \in 1..n /\ i + part.length <= n + 1
        BY <1>1, PartAt
    <2>3. Joint(text, i, token, i + part.length - 1)
        BY TokenCovered
    <2> HIDE DEF part
    <2>4. next \in Nat /\ next > 1 /\ i + part.length - 1 = e
        BY <1>1, <2>2
    <2> HIDE DEF token
    <2>5. /\ token \in R /\ Covered(token) /\ Len(token) >= 1
          /\ token[1] = text[i] \/ token[1] = "TS"
          /\ token[Len(token)] = text[e] \/ token[Len(token)] = "end"
        BY <2>3, <2>4 DEF Joint
    <2>6. Len(output) >= 1 /\ output[Len(output)] = "field" => token[1] \in Unvalued
        <3>1. "TS" \in Unvalued
            BY DEF Unvalued
        <3>2. i > 1 /\ text[i - 1] = "field" => text[i] \in Unvalued
            BY DEF Covered, sensitive
        <3> QED BY <2>1, <2>5, <3>1, <3>2
    <2> HIDE DEF Open, next, e
    <2>7. /\ longer \in R /\ Len(longer) = Len(output) + Len(token)
          /\ \A j \in 1..(Len(output) + Len(token)) :
                longer[j] = IF j <= Len(output) THEN output[j] ELSE token[j - Len(output)]
        BY <2>5, ConcatProperties
    <2>8. Covered(longer)
        BY <2>1, <2>5, <2>6, CoveredTogether
    <2> DEFINE a == Len(output)
               b == Len(token)
               z == a + b
    <2>9. a \in Nat /\ b \in Nat /\ b >= 1
        BY <2>5
    <2> HIDE DEF longer
    <2>10. longer[Len(longer)] = token[Len(token)]
        <3>1. z \in 1..(a + b) /\ ~(z <= a) /\ z - a = b
            BY <2>9
        <3> HIDE DEF a, b, z
        <3>2. Len(longer) = z /\ longer[z] = token[z - a]
            BY <2>7, <3>1 DEF z, a, b
        <3> QED BY <3>1, <3>2 DEF b
    <2>11. Open(longer, next)
        BY <2>4, <2>5, <2>10 DEF Open, e
    <2> HIDE DEF R
    <2>12. <<longer, next>> \in G
        BY <2>4, <2>7, <2>8, <2>11
    <2> QED BY <2>12 DEF longer, next, token, part
<1> HIDE DEF G
<1>4. <<tokenize_timestamps(text), n + 1>> \in G
    BY <1>2, <1>3, TokenizeBy
<1> QED BY <1>4 DEF G

(* So no field of a tokenized text has its value.                          *)
LEMMA TextCovered ==
    ASSUME NEW text \in Seq(Pieces)
    PROVE  Covered(tokenize_text(text))
<1> DEFINE clean == sanitize(text)
           bare == replace_addresses(clean)
<1>1. clean \in Seq(Clean) /\ Covered(clean)
    BY SanitizeCleans, SanitizeKeeps
<1> HIDE DEF clean
<1>2. bare \in Seq(Clean) /\ Covered(bare)
    BY <1>1, AddressesClean, AddressesReplaced
<1> HIDE DEF bare
<1>3. Covered(tokenize_timestamps(bare))
    BY <1>2, TokenizedCovered
<1> QED BY <1>3 DEF tokenize_text, bare, clean

(* A sample without a test case is compiled as it is.                      *)
LEMMA SampleItself ==
    ASSUME NEW item \in [sample : Seq(Clean), values : Seq(Seq(Clean))], item.values = <<>>
    PROVE  expand_test_case(item) = item.sample
<1> DEFINE sample == item.sample
           n == Len(sample)
           V == [used : Nat, result : Seq(Clean)]
           base == [used |-> 0, result |-> <<>>]
           step == [p \in (1..n) \X V |-> Expanded(item, p[2], sample[p[1]])]
           h == ExpandFold(item)
<1>1. /\ n \in Nat /\ DOMAIN sample = 1..n /\ \A i \in 1..n : sample[i] \in Clean
      /\ sample \in Seq(Clean)
    OBVIOUS
<1>2. base \in V
    OBVIOUS
<1>3. ASSUME NEW v \in V, NEW piece \in Clean
      PROVE  /\ Expanded(item, v, piece) \in V
             /\ Expanded(item, v, piece).result = Append(v.result, piece)
    <2>1. HasValue(item, v, piece)
        BY DEF HasValue
    <2>2. Expanded(item, v, piece) \in V
        BY <2>1, ExpandedIn
    <2> DEFINE w == Append(v.result, piece)
    <2>3. Expanded(item, v, piece) = [v EXCEPT !.result = w]
        BY DEF Expanded
    <2> HIDE DEF w
    <2>4. Expanded(item, v, piece).result = w
        BY <2>3
    <2> QED BY <2>2, <2>4 DEF w
<1> HIDE DEF V, base, n, sample
<1>4. step \in [(1..n) \X V -> V]
    BY <1>1, <1>3
<1>5. \E g \in [SUBSET (1..n) -> V] : Solves(g, n, base, step)
    <2> HIDE DEF step
    <2> QED BY <1>1, <1>2, <1>4, FoldExists
<1>6. PICK g \in [SUBSET (1..n) -> V] : Solves(g, n, base, step)
    BY <1>5
<1>7. ASSUME NEW s \in SUBSET (1..n)
      PROVE  g[s] = ExpandBody(g, item, s)
    <2>1. CASE s = {}
        BY <1>6, <2>1 DEF Solves, Stepped, ExpandBody, base
    <2>2. CASE s # {}
        <3> DEFINE x == Max(s)
        <3>1. x \in 1..n /\ s \ {x} \in SUBSET (1..n)
            BY <1>1, <2>2, LargestMember
        <3> HIDE DEF x
        <3>2. g[s] = step[<<x, g[s \ {x}]>>]
            BY <1>6, <2>2 DEF Solves, Stepped, x
        <3>3. step[<<x, g[s \ {x}]>>] = Expanded(item, g[s \ {x}], item.sample[x])
            BY <3>1 DEF sample
        <3> HIDE DEF step
        <3> QED BY <2>2, <3>2, <3>3 DEF ExpandBody, x
    <2> QED BY <2>1, <2>2
<1>8. h = [s \in SUBSET (1..n) |-> ExpandBody(h, item, s)]
    <2>1. g = [s \in SUBSET DOMAIN item.sample |-> ExpandBody(g, item, s)]
        BY <1>1, <1>7 DEF sample
    <2>2. h = [s \in SUBSET DOMAIN item.sample |-> ExpandBody(h, item, s)]
        BY <2>1 DEF ExpandFold
    <2> QED BY <1>1, <2>2 DEF sample
<1> HIDE DEF h
<1> DEFINE f == [k \in 0..n |-> h[1..k]]
<1>9. f[0] = base
    BY <1>1, <1>8 DEF ExpandBody, base
<1>10. ASSUME NEW k \in 1..n
       PROVE  f[k] = Expanded(item, f[k - 1], sample[k])
    <2>1. k \in Nat /\ k # 0 /\ k - 1 \in 0..n /\ k \in 0..n /\ 1..k \in SUBSET (1..n)
        BY <1>1
    <2>2. 1..k # {} /\ Max(1..k) = k /\ (1..k) \ {k} = 1..(k - 1)
        BY <2>1, Longest
    <2>3. h[1..k] = ExpandBody(h, item, 1..k)
        BY <1>8, <2>1
    <2> QED BY <2>1, <2>2, <2>3 DEF ExpandBody, sample
<1>11. f[n] = h[1..n]
    BY <1>1
<1> HIDE DEF f
<1> DEFINE Good(k) == /\ f[k] \in V /\ Len(f[k].result) = k
                      /\ \A j \in 1..k : f[k].result[j] = sample[j]
           T == {k \in Nat : k <= n => Good(k)}
<1>12. 0 \in T
    <2>1. base.result = <<>> /\ Len(<<>>) = 0
        BY DEF base
    <2> QED BY <1>2, <1>9, <2>1
<1>13. ASSUME NEW k \in Nat, k \in T
       PROVE  k + 1 \in T
    <2>1. CASE k + 1 <= n
        <3> DEFINE i == k + 1
                   v == f[k]
                   w == f[i]
                   piece == sample[i]
                   old == v.result
                   more == w.result
        <3>1. i \in 1..n /\ k <= n /\ i - 1 = k
            BY <1>1, <2>1
        <3>2. Good(k)
            BY <1>13, <3>1
        <3>3. w = Expanded(item, v, piece) /\ piece \in Clean
            BY <1>1, <1>10, <3>1
        <3>4. w \in V /\ more = Append(old, piece)
            BY <1>3, <3>2, <3>3
        <3>5. old \in Seq(Clean) /\ Len(old) = k /\ \A j \in 1..k : old[j] = sample[j]
            BY <3>2 DEF V
        <3> HIDE DEF old, more, piece, v, w
        <3>6. Len(more) = k + 1 /\ more[k + 1] = piece /\ \A j \in 1..k : more[j] = old[j]
            BY <3>3, <3>4, <3>5
        <3>7. \A j \in 1..(k + 1) : more[j] = sample[j]
            <4>1. \A j \in 1..(k + 1) : j = k + 1 \/ j \in 1..k
                OBVIOUS
            <4> QED BY <3>5, <3>6, <4>1 DEF piece
        <3>8. Good(i)
            BY <3>4, <3>6, <3>7 DEF more, w
        <3> QED BY <3>8
    <2>2. CASE ~(k + 1 <= n)
        BY <2>2
    <2> QED BY <2>1, <2>2
<1>14. Good(n)
    <2>1. n \in T
        <3> HIDE DEF T
        <3> QED BY <1>1, <1>12, <1>13, Naturals
    <2> QED BY <1>1, <2>1
<1> DEFINE all == f[n].result
<1>15. all \in Seq(Clean) /\ Len(all) = n /\ \A j \in 1..n : all[j] = sample[j]
    BY <1>14 DEF V
<1> HIDE DEF all, Good
<1>16. all = sample
    <2>1. Len(all) = Len(sample) /\ \A j \in 1..Len(all) : all[j] = sample[j]
        BY <1>15 DEF n
    <2> QED BY <1>1, <1>15, <2>1, SeqEqual
<1>17. expand_test_case(item) = all
    BY <1>1, <1>11, ExpandIs DEF all, h, sample
<1> QED BY <1>16, <1>17 DEF sample

SegmentOf(part) == [kind |-> part.kind, style |-> part.style, text |-> part.text]

(* A segment that repeats a piece stands at its place.                     *)
LEMMA SegmentRepeats ==
    ASSUME NEW text \in Seq(Pieces), NEW C \in SUBSET Candidates(Len(text)), NEW i \in 1..Len(text),
           NEW P, SegmentOf(Part(text, C, i)) \in Recorded(P)
    PROVE  text[i] \in P /\ Part(text, C, i).length = 1
<1> DEFINE n == Len(text)
           here == {c \in C : c.position = i}
           part == Part(text, C, i)
<1>1. n \in Nat
    OBVIOUS
<1>2. PICK piece \in P :
          SegmentOf(part) = [kind |-> "Literal", style |-> "", text |-> <<piece>>]
    BY DEF Recorded
<1>3. part.kind = "Literal" /\ part.text = <<piece>>
    <2> HIDE DEF part
    <2> QED BY <1>2 DEF SegmentOf
<1>4. here = {}
    <2> SUFFICES ASSUME here # {} PROVE FALSE
        OBVIOUS
    <2>1. part = best(here) /\ here \in SUBSET Candidates(n)
        BY DEF Part
    <2>2. part \in Candidates(n)
        BY <1>1, <2>1, BestIn
    <2> HIDE DEF part, n
    <2>3. part.kind \in Kinds
        BY <1>1, <2>2, CandidateType
    <2> QED BY <1>3, <2>3 DEF Kinds
<1>5. part = Literal(text, i)
    BY <1>4 DEF Part
<1> HIDE DEF part
<1>6. part.text = <<text[i]>> /\ part.length = 1
    BY <1>5 DEF Literal, Candidate
<1> DEFINE x == text[i]
<1>7. <<x>> = <<piece>>
    BY <1>3, <1>6
<1> HIDE DEF x
<1>8. x = piece
    BY <1>7
<1> QED BY <1>6, <1>8 DEF x, part

(* No segment repeats the value of a field that is repeated before it.     *)
Apart(segments) ==
    \A i \in DOMAIN segments :
        /\ i > 1 => i - 1 \in DOMAIN segments
        /\ i > 1 /\ segments[i - 1] \in Recorded({"field"}) => segments[i] \notin Recorded(Pieces \ Unvalued)

LEMMA SegmentsApart ==
    ASSUME NEW text \in Seq(Pieces), Covered(text)
    PROVE  Apart(compile_segments(text))
<1> DEFINE C == AllCandidates(text)
           parts == cut(text, C)
           n == Len(text)
           m == Len(parts)
<1>1. C \in SUBSET Candidates(n) /\ n \in Nat
    BY AllIn
<1>2. compile_segments(text) = [k \in DOMAIN parts |-> SegmentOf(parts[k])]
    BY DEF compile_segments, AllCandidates, MarkersOf, SegmentOf
<1>3. parts \in Seq(PartsOf(text, C))
    BY <1>1, CutIn
<1>4. Tiles(text, C, [cursor |-> n + 1, parts |-> parts])
    BY <1>1, CutTiles
<1> HIDE DEF C, parts
<1>5. m \in Nat /\ DOMAIN parts = 1..m
    BY <1>3
<1>6. \A k \in 1..m : /\ parts[k].position \in 1..n
                      /\ parts[k].position = Behind(parts, k - 1)
                      /\ parts[k] = Part(text, C, parts[k].position)
    BY <1>4 DEF Tiles
<1> HIDE DEF m, n
<1> SUFFICES ASSUME NEW i \in 1..m, i > 1, SegmentOf(parts[i - 1]) \in Recorded({"field"}),
                    SegmentOf(parts[i]) \in Recorded(Pieces \ Unvalued)
             PROVE  FALSE
    <2>1. \A k \in 1..m : compile_segments(text)[k] = SegmentOf(parts[k])
        BY <1>2, <1>5
    <2>2. DOMAIN compile_segments(text) = 1..m
        BY <1>2, <1>5
    <2>3. \A k \in 1..m : k > 1 => k - 1 \in 1..m
        BY <1>5
    <2> DEFINE segments == compile_segments(text)
    <2>4. DOMAIN segments = 1..m /\ \A k \in 1..m : segments[k] = SegmentOf(parts[k])
        BY <2>1, <2>2
    <2> HIDE DEF segments
    <2>5. ASSUME NEW k \in 1..m, k > 1, segments[k - 1] \in Recorded({"field"})
          PROVE  segments[k] \notin Recorded(Pieces \ Unvalued)
        <3> DEFINE j == k - 1
        <3>1. j \in 1..m
            BY <2>3, <2>5
        <3> HIDE DEF j
        <3>2. segments[j] = SegmentOf(parts[j]) /\ segments[k] = SegmentOf(parts[k])
            BY <2>4, <3>1
        <3>3. SegmentOf(parts[k - 1]) \in Recorded({"field"})
            BY <2>5, <3>2 DEF j
        <3> QED BY <2>5, <3>2, <3>3
    <2>6. Apart(segments)
        BY <2>3, <2>4, <2>5 DEF Apart
    <2> QED BY <2>6 DEF segments
<1> DEFINE k == i - 1
           a == parts[k].position
           b == parts[i].position
<1>7. k \in 1..m /\ k # 0
    BY <1>5
<1> HIDE DEF k
<1>8. a \in 1..n /\ b \in 1..n /\ parts[k] = Part(text, C, a) /\ parts[i] = Part(text, C, b)
    BY <1>6, <1>7
<1>9. b = a + parts[k].length
    BY <1>6, <1>7 DEF Behind, k
<1> HIDE DEF a, b
<1>10. text[a] \in {"field"} /\ Part(text, C, a).length = 1
    BY <1>1, <1>8, SegmentRepeats DEF k, n
<1>11. text[b] \in Pieces \ Unvalued
    BY <1>1, <1>8, SegmentRepeats DEF n
<1>12. b = a + 1
    BY <1>8, <1>9, <1>10
<1>13. b > 1 /\ b - 1 = a
    BY <1>1, <1>8, <1>12
<1> QED BY <1>8, <1>10, <1>11, <1>13 DEF Covered, sensitive, n

-----------------------------------------------------------------------------
(* What the catalog holds is a text, what the worker holds repeats nothing but
   the value of a field that begins with a token or comes with a test case.   *)

Items == [sample : Seq(Pieces), values : Seq(Seq(Pieces))]

SegmentsInv ==
    /\ stored \in Items
    /\ template.values = <<>> => stored.values = <<>>
    /\ ready => \A i \in DOMAIN log.segments : log.segments[i] \notin Leftovers
    /\ ready /\ template.values = <<>> => Apart(log.segments)

LEMMA CompileClean ==
    ASSUME NEW item \in Items, test_case_fits(tokenize(item))
    PROVE  \A i \in DOMAIN compile(item) : compile(item)[i] \notin Leftovers
<1> DEFINE text == expand_test_case(tokenize(item))
<1>1. text \in Seq(Clean)
    BY ItemClean, ExpandClean DEF Items
<1> HIDE DEF text
<1>2. \A i \in DOMAIN compile_segments(text) : compile_segments(text)[i] \notin Leftovers
    BY <1>1, SegmentsClean
<1> QED BY <1>2 DEF compile, text

(* A sample without a test case stays one.                                 *)
LEMMA NoValues ==
    ASSUME NEW item, item.values = <<>>
    PROVE  tokenize(item).values = <<>>
<1> DEFINE values == [i \in DOMAIN item.values |-> tokenize_text(item.values[i])]
           empty == <<>>
<1>1. DOMAIN item.values = {} /\ empty = [i \in {} |-> i] /\ DOMAIN empty = {}
    OBVIOUS
<1>2. values = empty
    BY <1>1
<1>3. tokenize(item) = [sample |-> tokenize_text(item.sample), values |-> values]
    BY DEF tokenize
<1> HIDE DEF values, empty
<1>4. tokenize(item).values = values
    BY <1>3
<1> QED BY <1>2, <1>4 DEF empty

LEMMA CompileApart ==
    ASSUME NEW item \in Items, item.values = <<>>
    PROVE  Apart(compile(item))
<1> DEFINE other == tokenize(item)
           text == tokenize_text(item.sample)
<1>1. other \in [sample : Seq(Clean), values : Seq(Seq(Clean))] /\ other.values = <<>>
    BY ItemClean, NoValues DEF Items
<1>2. other.sample = text
    BY DEF tokenize
<1>3. item.sample \in Seq(Pieces)
    BY DEF Items
<1> HIDE DEF other
<1>4. expand_test_case(other) = text
    BY <1>1, <1>2, SampleItself
<1>5. Covered(text) /\ text \in Seq(Clean)
    BY <1>3, TextCovered, TextClean
<1> HIDE DEF text
<1>6. text \in Seq(Pieces)
    BY <1>5, CleanText
<1>7. Apart(compile_segments(text))
    BY <1>5, <1>6, SegmentsApart
<1> QED BY <1>4, <1>7 DEF compile, other

LEMMA AnewSegments ==
    ASSUME IInv, NEW s \in Seconds, NEW k \in Profiles, RenderAnew(s, k)
    PROVE  log'.segments = log.segments /\ ready' = ready /\ stored' = stored /\ template' = template
<1>1. log.segments = log'.segments
    BY DEF RenderAnew, IInv, Shape
<1> QED BY <1>1 DEF RenderAnew

(* The catalog holds texts, and what the worker compiled from one holds no
   recorded time, no personal value that shows by its form, and of a sample
   without a test case no value behind its field unless a token begins it
   (log_renderer.cpp: tokenize, compile; privacy_anonymizer.cpp: sanitize).  *)
THEOREM SegmentsCorrect == Spec => []SegmentsInv
<1>1. Init => SegmentsInv
    BY RendererAssumption DEF Init, SegmentsInv, Items
<1>2. IInv /\ SegmentsInv /\ [Next]_vars => SegmentsInv'
    <2> SUFFICES ASSUME IInv, SegmentsInv, [Next]_vars PROVE SegmentsInv'
        OBVIOUS
    <2>1. CASE Tokenize
        <3>1. tokenize(stored) \in Items
            BY ItemClean, CleanItem DEF SegmentsInv, Items
        <3>2. stored.values = <<>> => tokenize(stored).values = <<>>
            BY NoValues
        <3> QED BY <2>1, <3>1, <3>2 DEF Tokenize, SegmentsInv
    <2>2. CASE Prepare
        <3> DEFINE segments == compile(stored)
        <3>1. \A i \in DOMAIN segments : segments[i] \notin Leftovers
            BY <2>2, CompileClean DEF Prepare, SegmentsInv
        <3>2. template.values = <<>> => Apart(segments)
            BY CompileApart DEF SegmentsInv
        <3>3. log' = PreparedLog(segments) /\ ready' = TRUE /\ stored' = stored /\ template' = template
            BY <2>2 DEF Prepare
        <3> HIDE DEF segments
        <3>4. log'.segments = segments
            BY <3>3 DEF PreparedLog
        <3> QED BY <3>1, <3>2, <3>3, <3>4 DEF SegmentsInv
    <2>3. ASSUME NEW s \in Seconds, NEW k \in Profiles, RenderAnew(s, k)
          PROVE  SegmentsInv'
        BY <2>3, AnewSegments DEF SegmentsInv
    <2>4. ASSUME UNCHANGED <<template, stored, ready, log>>
          PROVE  SegmentsInv'
        BY <2>4 DEF SegmentsInv
    <2> QED BY <2>1, <2>2, <2>3, <2>4 DEF Next, vars, RenderStatic, RenderCached, RenderProfile
<1> QED BY <1>1, <1>2, Inductive, PTL DEF Spec

(* Whatever the user wrote, whatever tokens it holds and however often the
   catalog tokenized it, no event repeats a recorded date or a personal value
   that shows by its form; and without a test case none repeats the value
   behind its field, unless that begins with a token.                        *)
THEOREM RecordedCorrect == Spec => []NothingRecordedSent
<1>1. IInv /\ SegmentsInv => NothingRecordedSent
    <2> SUFFICES ASSUME IInv, SegmentsInv, event # None, NEW i \in DOMAIN event.output
                 PROVE  /\ event.output[i].segment \notin Leftovers
                        /\ i > 1 /\ template.values = <<>> /\ event.output[i - 1].segment \in Recorded({"field"})
                           => event.output[i].segment \notin Recorded(Pieces \ Unvalued)
        BY DEF NothingRecordedSent, Leftovers
    <2>1. ready /\ event.output = Rendered(log.segments, event.second, event.profile)
        BY DEF IInv, EventFresh
    <2>2. /\ DOMAIN event.output = DOMAIN log.segments
          /\ \A j \in DOMAIN log.segments : event.output[j].segment = log.segments[j]
        BY <2>1 DEF Rendered, Shown
    <2>3. i \in DOMAIN log.segments /\ event.output[i].segment \notin Leftovers
        BY <2>1, <2>2 DEF SegmentsInv
    <2>4. ASSUME i > 1, template.values = <<>>, event.output[i - 1].segment \in Recorded({"field"})
          PROVE  event.output[i].segment \notin Recorded(Pieces \ Unvalued)
        <3>1. Apart(log.segments)
            BY <2>1, <2>4 DEF SegmentsInv
        <3> DEFINE k == i - 1
        <3>2. k \in DOMAIN log.segments
            BY <2>3, <2>4, <3>1 DEF Apart
        <3>3. log.segments[k] \in Recorded({"field"})
            BY <2>2, <2>4, <3>2
        <3>4. log.segments[i] \notin Recorded(Pieces \ Unvalued)
            BY <2>3, <2>4, <3>1, <3>3 DEF Apart
        <3> QED BY <2>2, <2>3, <3>4
    <2> QED BY <2>3, <2>4
<1> QED BY <1>1, Inductive, SegmentsCorrect, PTL

-----------------------------------------------------------------------------
(* Tokenizing a tokenized text changes nothing.                              *)

LEMMA WellFormedClosed ==
    ASSUME NEW text \in Seq(Pieces), WellFormed(text)
    PROVE  Closed(text)
<1>1. Len(text) \in Nat /\ DOMAIN text = 1..Len(text)
    OBVIOUS
<1>2. ASSUME NEW i \in 1..Len(text), text[i] = "TS"
      PROVE  \E e \in Nat : Marked(text, i, e)
    <2>1. PICK e \in (i + 2)..Len(text) :
              /\ text[i + 1] \in Keys /\ text[e] = "end"
              /\ \A j \in (i + 2)..(e - 1) : text[j] \notin Closing \cup {"TS"}
        BY <1>1, <1>2 DEF WellFormed
    <2>2. Marked(text, i, e) /\ e \in Nat
        BY <1>1, <1>2, <2>1, Symbols DEF Marked
    <2> QED BY <2>2
<1> QED BY <1>2 DEF Closed

(* A text.                                                                 *)
LEMMA TextTokenizedOnce ==
    ASSUME NEW text \in Seq(Pieces), WellFormed(text)
    PROVE  tokenize_text(tokenize_text(text)) = tokenize_text(text)
<1> DEFINE clean == sanitize(text)
           bare == replace_addresses(clean)
           once == tokenize_timestamps(bare)
<1>1. clean \in Seq(Clean) /\ Closed(clean) /\ Covered(clean)
    BY WellFormedClosed, SanitizeCleans, SanitizeKeeps
<1> HIDE DEF clean
<1>2. bare \in Seq(Clean) /\ Closed(bare) /\ Replaced(bare) /\ Covered(bare)
    BY <1>1, AddressesClean, AddressesReplaced
<1> HIDE DEF bare
<1>3. once \in Seq(Clean) /\ Settled(once) /\ Replaced(once) /\ Covered(once)
    BY <1>2, TimestampsClean, TokenizedSettled, TokenizedReplaced, TokenizedCovered
<1> HIDE DEF once
<1>4. sanitize(once) = once /\ replace_addresses(once) = once /\ tokenize_timestamps(once) = once
    <2>1. once \in Seq(Pieces)
        BY <1>3, CleanText
    <2> QED BY <1>3, <2>1, SanitizeKeeps, AddressesReplaced, SettledFixed
<1>5. tokenize_text(text) = once
    BY DEF tokenize_text, once, bare, clean
<1>6. tokenize_text(once) = once
    BY <1>4 DEF tokenize_text
<1> QED BY <1>5, <1>6

\* What RenderedFresh asks of a template.
ItemFormed(item) ==
    WellFormed(item.sample) /\ \A i \in DOMAIN item.values : WellFormed(item.values[i])

(* A sample with its test case.                                            *)
LEMMA ItemTokenizedOnce ==
    ASSUME NEW item \in [sample : Seq(Pieces), values : Seq(Seq(Pieces))], ItemFormed(item)
    PROVE  tokenize(tokenize(item)) = tokenize(item)
<1> DEFINE F == Seq(Pieces)
           sample == item.sample
           values == item.values
           once == [i \in DOMAIN values |-> tokenize_text(values[i])]
           twice == [i \in DOMAIN once |-> tokenize_text(once[i])]
<1>1. sample \in F /\ WellFormed(sample) /\ values \in Seq(F)
      /\ \A i \in DOMAIN values : WellFormed(values[i])
    BY DEF ItemFormed
<1>2. tokenize_text(tokenize_text(sample)) = tokenize_text(sample)
    BY <1>1, TextTokenizedOnce
<1>3. \A i \in DOMAIN values : values[i] \in F
    <2> HIDE DEF F, values
    <2>1. DOMAIN values = 1..Len(values)
        BY <1>1, LenProperties
    <2> QED BY <1>1, <2>1, ElementOfSeq
<1>4. \A i \in DOMAIN values : tokenize_text(tokenize_text(values[i])) = tokenize_text(values[i])
    BY <1>1, <1>3, TextTokenizedOnce
<1>5. tokenize(item) = [sample |-> tokenize_text(sample), values |-> once]
    BY DEF tokenize
<1> HIDE DEF F, sample, values
<1>6. twice = once
    <2>1. DOMAIN once = DOMAIN values
        OBVIOUS
    <2>2. \A i \in DOMAIN values : tokenize_text(once[i]) = once[i]
        BY <1>4
    <2>3. twice = [i \in DOMAIN values |-> once[i]]
        BY <2>1, <2>2
    <2>4. once = [i \in DOMAIN values |-> once[i]]
        OBVIOUS
    <2> QED BY <2>3, <2>4
<1> HIDE DEF once
<1>7. tokenize([sample |-> tokenize_text(sample), values |-> once])
          = [sample |-> tokenize_text(tokenize_text(sample)), values |-> twice]
    BY DEF tokenize
<1> HIDE DEF twice
<1> QED BY <1>2, <1>5, <1>6, <1>7

(* The stored template stays the user's until it is tokenized, once and for
   all, and a worker's segments are those of the user's template.            *)
FreshInv ==
    /\ template \in Items
    /\ ItemFormed(template) =>
          /\ stored = template \/ stored = tokenize(template)
          /\ ready => log.segments = compile(template)

THEOREM FreshInductive == Spec => []FreshInv
<1>1. Init => FreshInv
    BY RendererAssumption DEF Init, FreshInv, Items
<1>2. FreshInv /\ IInv /\ [Next]_vars => FreshInv'
    <2> SUFFICES ASSUME FreshInv, IInv, [Next]_vars PROVE FreshInv'
        OBVIOUS
    <2>0. ItemFormed(template) => tokenize(tokenize(template)) = tokenize(template)
        BY ItemTokenizedOnce DEF FreshInv, Items
    <2>1. CASE Tokenize
        <3>1. /\ ready' = ready /\ ~ready /\ template' = template
              /\ stored' = tokenize(stored)
            BY <2>1 DEF Tokenize
        <3> QED BY <2>0, <3>1 DEF FreshInv
    <2>2. CASE Prepare
        <3>1. /\ template' = template /\ stored' = stored /\ log' = PreparedLog(compile(stored))
            BY <2>2 DEF Prepare
        <3>2. log'.segments = compile(stored)
            BY <3>1 DEF PreparedLog
        <3>3. ItemFormed(template) => compile(stored) = compile(template)
            BY <2>0 DEF FreshInv, compile
        <3> QED BY <3>1, <3>2, <3>3 DEF FreshInv
    <2>3. ASSUME template' = template, stored' = stored, ready' = ready,
                 ready => log'.segments = log.segments
          PROVE  FreshInv'
        BY <2>3 DEF FreshInv
    <2>4. CASE UNCHANGED vars \/ RenderStatic
        BY <2>3, <2>4 DEF vars, RenderStatic
    <2>5. ASSUME NEW s \in Seconds, RenderCached(s)
          PROVE  FreshInv'
        BY <2>3, <2>5 DEF RenderCached
    <2>6. ASSUME NEW s \in Seconds, NEW k \in Profiles, RenderProfile(s, k)
          PROVE  FreshInv'
        BY <2>3, <2>6 DEF RenderProfile
    <2>7. ASSUME NEW s \in Seconds, NEW k \in Profiles, RenderAnew(s, k)
          PROVE  FreshInv'
        <3>1. /\ template' = template /\ stored' = stored /\ ready' = ready
              /\ log'.segments = log.segments
            BY <2>7 DEF RenderAnew, IInv, Shape
        <3> QED BY <2>3, <3>1
    <2> QED BY <2>1, <2>2, <2>4, <2>5, <2>6, <2>7 DEF Next
<1> QED BY <1>1, <1>2, Inductive, PTL DEF Spec

(* Each event shows, for its second and its profile, what the template means as
   its user wrote it: neither the tokens that every load and save of the
   catalog tokenizes again nor a cache of render() makes a difference
   (src/README.md:431, log_renderer.cpp).                                    *)
THEOREM FreshCorrect == Spec => []RenderedFresh
<1>1. FreshInv /\ IInv => RenderedFresh
    <2> SUFFICES ASSUME FreshInv, IInv, event # None, ItemFormed(template)
                 PROVE  event.output = Rendered(compile(template), event.second, event.profile)
        BY DEF RenderedFresh, ItemFormed
    <2>1. ready /\ EventFresh
        BY DEF IInv
    <2>2. log.segments = compile(template)
        BY <2>1 DEF FreshInv
    <2> QED BY <2>1, <2>2 DEF EventFresh
<1> QED BY <1>1, Inductive, FreshInductive, PTL

-----------------------------------------------------------------------------
(* The cache of compiled templates, for any threads, templates and room.    *)

Places == {"idle", "find", "find_tokenized", "alias", "publish", "count", "outer_alias"}

CallsInv ==
    /\ requested \in [Threads -> CacheTemplates] /\ alias \in [Threads -> CacheTemplates]
    /\ outer \in [Threads -> BOOLEAN] /\ pc \in [Threads -> Places]
    /\ held \in [Threads -> published \cup {NoEntry}] /\ evicted \in BOOLEAN
    /\ \A t \in Threads : outer[t] => requested[t] = Tokenized[alias[t]]

(* What a thread has in hand is meant for the template it asks for; where it
   is about to use the entry, it has one.                                   *)
Fits(t) == held[t] \in published /\ Meant(requested[t], held[t])

HeldInv ==
    \A t \in Threads :
        /\ held[t] # NoEntry => Fits(t)
        /\ pc[t] \in {"alias", "count", "outer_alias"} => Fits(t)
        /\ pc[t] = "outer_alias" => outer[t]

EntriesInv ==
    /\ \A k \in DOMAIN entries : entries[k] \in published
    /\ \A x \in CacheTemplates :
          cache_key[x] \in DOMAIN entries => Meant(x, entries[cache_key[x]])

(* Until something had to go, the key of an object's blueprint finds one, and
   no other object has that key.                                            *)
FoundInv ==
    ~evicted =>
        /\ \A o \in published : cache_key[o.blueprint] \in DOMAIN entries
        /\ \A o, q \in published :
              cache_key[o.blueprint] = cache_key[q.blueprint] => o = q

CacheInv == CallsInv /\ HeldInv /\ EntriesInv /\ FoundInv

(* The map holds the entry under the keys and is otherwise, where it has kept
   something, as before.                                                    *)
Stands(old, new, keys, entry) ==
    \A k \in DOMAIN new :
        IF k \in keys THEN new[k] = entry ELSE k \in DOMAIN old /\ new[k] = old[k]

-----------------------------------------------------------------------------
(* insert_or_assign, alone and after an eviction; twice with one entry.     *)
LEMMA AssignStands ==
    ASSUME NEW map, NEW key, NEW entry
    PROVE  Stands(map, Assign(map, key, entry), {key}, entry)
BY DEF Stands, Assign

LEMMA InsertedStands ==
    ASSUME NEW map, NEW key, NEW entry, NEW new \in Inserted(map, key, entry)
    PROVE  Stands(map, new, {key}, entry)
<1>1. PICK m \in Evicted(map, key) : new = Assign(m, key, entry)
    BY DEF Inserted
<1>2. DOMAIN m \subseteq DOMAIN map /\ \A k \in DOMAIN m : m[k] = map[k]
    BY DEF Evicted
<1> QED BY <1>1, <1>2 DEF Stands, Assign

LEMMA StandsTwice ==
    ASSUME NEW a, NEW b, NEW c, NEW k, NEW l, NEW entry,
           Stands(a, b, {k}, entry), Stands(b, c, {l}, entry)
    PROVE  Stands(a, c, {k, l}, entry)
BY DEF Stands

(* What the tokenized form may get is meant for the template too.           *)
LEMMA MeantTokenized ==
    ASSUME NEW x \in CacheTemplates, NEW e, Meant(Tokenized[x], e)
    PROVE  Meant(x, e)
<1> DEFINE w == Tokenized[x]
<1>1. w \in CacheTemplates
    BY PrepCacheAssumption
<1>2. Akin(cache_key[x], e)
    <2> SUFFICES ASSUME NEW S \in Families
                 PROVE  cache_key[x] \in S <=> cache_key[e.blueprint] \in S
        BY DEF Akin
    <2>1. cache_key[x] \in S <=> cache_key[w] \in S
        BY DEF Families
    <2>2. cache_key[w] \in S <=> cache_key[e.blueprint] \in S
        BY DEF Meant, Akin
    <2> QED BY <2>1, <2>2
<1>3. ASSUME x \in Sole
      PROVE  e.blueprint = w
    <2>1. \A y \in CacheTemplates : KeysOf(x) \cap KeysOf(y) # {} => Tokenized[y] = w
        BY <1>3 DEF Sole
    <2>2. cache_key[w] \in KeysOf(x) /\ cache_key[w] \in KeysOf(w)
        BY DEF KeysOf
    <2>3. Tokenized[w] = w
        BY <1>1, <2>1, <2>2
    <2>4. KeysOf(w) \subseteq KeysOf(x)
        BY <2>3 DEF KeysOf
    <2>5. w \in Sole
        BY <1>1, <2>1, <2>3, <2>4 DEF Sole
    <2> QED BY <2>3, <2>5 DEF Meant
<1> QED BY <1>2, <1>3 DEF Meant

(* So it is for a template with the same key.                               *)
LEMMA MeantAlike ==
    ASSUME NEW x \in CacheTemplates, NEW y \in CacheTemplates, cache_key[y] = cache_key[x],
           NEW e, Meant(x, e)
    PROVE  Meant(y, e)
<1>1. ASSUME y \in Sole
      PROVE  e.blueprint = Tokenized[y]
    <2>1. \A z \in CacheTemplates : KeysOf(y) \cap KeysOf(z) # {} => Tokenized[z] = Tokenized[y]
        BY <1>1 DEF Sole
    <2>2. Tokenized[x] = Tokenized[y]
        BY <2>1 DEF KeysOf
    <2>3. KeysOf(x) = KeysOf(y)
        BY <2>2 DEF KeysOf
    <2>4. x \in Sole
        BY <2>1, <2>2, <2>3 DEF Sole
    <2> QED BY <2>2, <2>4 DEF Meant
<1> QED BY <1>1 DEF Meant

(* An entry that is entered under keys of templates it is meant for, and was
   there before or finds the key of its blueprint free.                     *)
LEMMA WriteKeeps ==
    ASSUME EntriesInv, FoundInv, NEW keys, NEW e,
           Stands(entries, entries', keys, e), NoteEviction(keys),
           published' = published \cup {e},
           \A x \in CacheTemplates : cache_key[x] \in keys => Meant(x, e),
           \/ e \in published
           \/ cache_key[e.blueprint] \in keys /\ cache_key[e.blueprint] \notin DOMAIN entries
    PROVE  EntriesInv' /\ FoundInv'
<1>1. EntriesInv'
    BY DEF EntriesInv, Stands
<1>2. ASSUME ~evicted'
      PROVE  /\ \A o \in published' : cache_key[o.blueprint] \in DOMAIN entries'
             /\ \A o, q \in published' :
                   cache_key[o.blueprint] = cache_key[q.blueprint] => o = q
    <2>1. ~evicted /\ DOMAIN entries \subseteq DOMAIN entries' /\ keys \subseteq DOMAIN entries'
        BY <1>2 DEF NoteEviction
    <2>2. /\ \A o \in published : cache_key[o.blueprint] \in DOMAIN entries
          /\ \A o, q \in published :
                cache_key[o.blueprint] = cache_key[q.blueprint] => o = q
        BY <2>1 DEF FoundInv
    <2> QED BY <2>1, <2>2
<1> QED BY <1>1, <1>2 DEF FoundInv

(* Steps that leave the cache alone.                                        *)
LEMMA ReadKeeps ==
    ASSUME EntriesInv, FoundInv, UNCHANGED <<entries, published, evicted>>
    PROVE  EntriesInv' /\ FoundInv'
BY DEF EntriesInv, FoundInv

-----------------------------------------------------------------------------
(* A thread that goes to place p with h in hand.                            *)
Answers(t, h) == h \in published' /\ Meant(requested[t], h)

LEMMA ThreadKeeps ==
    ASSUME CallsInv, HeldInv, NEW t \in Threads, NEW h, NEW p \in Places,
           UNCHANGED call, published \subseteq published', evicted' \in BOOLEAN,
           held' = [held EXCEPT ![t] = h], pc' = [pc EXCEPT ![t] = p],
           h = NoEntry \/ Answers(t, h),
           p \in {"alias", "count", "outer_alias"} => Answers(t, h),
           p = "outer_alias" => outer[t]
    PROVE  CallsInv' /\ HeldInv'
<1>1. requested' = requested /\ alias' = alias /\ outer' = outer
    BY DEF call
<1>2. CallsInv'
    <2>1. held' \in [Threads -> published' \cup {NoEntry}]
        BY DEF CallsInv, Answers
    <2>2. pc' \in [Threads -> Places]
        BY DEF CallsInv
    <2> QED BY <1>1, <2>1, <2>2 DEF CallsInv
<1>3. ASSUME NEW u \in Threads
      PROVE  /\ held'[u] # NoEntry => Fits(u)'
             /\ pc'[u] \in {"alias", "count", "outer_alias"} => Fits(u)'
             /\ pc'[u] = "outer_alias" => outer'[u]
    <2>1. CASE u = t
        <3>1. held'[t] = h /\ pc'[t] = p
            BY DEF CallsInv
        <3> QED BY <1>1, <2>1, <3>1 DEF Fits, Answers
    <2>2. CASE u # t
        <3>1. held'[u] = held[u] /\ pc'[u] = pc[u]
            BY <2>2 DEF CallsInv
        <3> QED BY <1>1, <3>1 DEF Fits, HeldInv
    <2> QED BY <2>1, <2>2
<1> QED BY <1>2, <1>3 DEF HeldInv

LEMMA LeavePlace ==
    ASSUME NEW t \in Threads, Leave(t)
    PROVE  \E p \in {"idle", "outer_alias"} :
               pc' = [pc EXCEPT ![t] = p] /\ (p = "outer_alias" => outer[t])
<1>1. CASE outer[t] /\ cache_key[alias[t]] # cache_key[requested[t]]
    BY <1>1 DEF Leave
<1>2. CASE ~(outer[t] /\ cache_key[alias[t]] # cache_key[requested[t]])
    BY <1>2 DEF Leave
<1> QED BY <1>1, <1>2

LEMMA LeaveKeeps ==
    ASSUME CallsInv, HeldInv, NEW t \in Threads, NEW h, Leave(t),
           UNCHANGED call, published \subseteq published', evicted' \in BOOLEAN,
           held' = [held EXCEPT ![t] = h], Answers(t, h)
    PROVE  CallsInv' /\ HeldInv'
<1>1. PICK p \in {"idle", "outer_alias"} :
          pc' = [pc EXCEPT ![t] = p] /\ (p = "outer_alias" => outer[t])
    BY LeavePlace
<1>2. p \in Places
    BY DEF Places
<1> QED BY <1>1, <1>2, ThreadKeeps

-----------------------------------------------------------------------------
(* One lemma per step of a thread.                                          *)
LEMMA CallTemplates ==
    ASSUME CallsInv, NEW t \in Threads
    PROVE  /\ requested[t] \in CacheTemplates /\ Tokenized[requested[t]] \in CacheTemplates
           /\ outer[t] => alias[t] \in CacheTemplates /\ requested[t] = Tokenized[alias[t]]
BY PrepCacheAssumption DEF CallsInv

LEMMA CallKeeps ==
    ASSUME CacheInv, NEW t \in Threads, NEW key \in CacheTemplates, NEW through \in BOOLEAN,
           Call(t, key, through)
    PROVE  CacheInv'
<1>1. EntriesInv' /\ FoundInv'
    BY ReadKeeps DEF Call, CacheInv
<1>2. CallsInv'
    <2>1. IF through THEN Tokenized[key] \in CacheTemplates ELSE key \in CacheTemplates
        BY PrepCacheAssumption
    <2>2. /\ held' \in [Threads -> published' \cup {NoEntry}] /\ pc' \in [Threads -> Places]
          /\ alias' \in [Threads -> CacheTemplates] /\ outer' \in [Threads -> BOOLEAN]
        BY DEF Call, CacheInv, CallsInv, Places
    <2>3. requested' \in [Threads -> CacheTemplates]
        BY <2>1 DEF Call, CacheInv, CallsInv
    <2>4. ASSUME NEW u \in Threads, outer'[u] PROVE requested'[u] = Tokenized[alias'[u]]
        BY <2>4 DEF Call, CacheInv, CallsInv
    <2>5. evicted' \in BOOLEAN
        BY DEF Call, CacheInv, CallsInv
    <2> QED BY <2>2, <2>3, <2>4, <2>5 DEF CallsInv
<1>3. HeldInv'
    <2>1. ASSUME NEW u \in Threads
          PROVE  /\ held'[u] # NoEntry => Fits(u)'
                 /\ pc'[u] \in {"alias", "count", "outer_alias"} => Fits(u)'
                 /\ pc'[u] = "outer_alias" => outer'[u]
        <3>1. CASE u = t
            <4>1. held'[u] = NoEntry /\ pc'[u] = "find"
                BY <3>1 DEF Call, CacheInv, CallsInv
            <4> QED BY <4>1
        <3>2. CASE u # t
            <4>1. held'[u] = held[u] /\ pc'[u] = pc[u] /\ outer'[u] = outer[u]
                  /\ requested'[u] = requested[u] /\ published' = published
                BY <3>2 DEF Call, CacheInv, CallsInv
            <4> QED BY <4>1 DEF Fits, CacheInv, HeldInv
        <3> QED BY <3>1, <3>2
    <2> QED BY <2>1 DEF HeldInv
<1> QED BY <1>1, <1>2, <1>3 DEF CacheInv

LEMMA FindKeeps ==
    ASSUME CacheInv, NEW t \in Threads, Find(t) \/ FindTokenized(t)
    PROVE  CacheInv'
<1>0. UNCHANGED <<entries, published, evicted>> /\ UNCHANGED call /\ evicted' \in BOOLEAN
    BY DEF Find, FindTokenized, CacheInv, CallsInv
<1>1. EntriesInv' /\ FoundInv'
    BY <1>0, ReadKeeps DEF CacheInv
<1>2. CASE Find(t) /\ original_key(t) \in DOMAIN entries
    <2> DEFINE h == entries[original_key(t)]
    <2>1. Leave(t) /\ held' = [held EXCEPT ![t] = h]
        BY <1>2 DEF Find
    <2>2. Answers(t, h)
        <3>1. requested[t] \in CacheTemplates /\ original_key(t) = cache_key[requested[t]]
            BY CallTemplates DEF CacheInv, original_key
        <3>2. h \in published /\ Meant(requested[t], h)
            BY <1>2, <3>1 DEF CacheInv, EntriesInv
        <3> QED BY <1>0, <3>2 DEF Answers
    <2> QED BY <1>0, <1>1, <2>1, <2>2, LeaveKeeps DEF CacheInv
<1>3. CASE FindTokenized(t) /\ tokenized_key(t) \in DOMAIN entries
    <2> DEFINE h == entries[tokenized_key(t)]
    <2>1. held' = [held EXCEPT ![t] = h] /\ pc' = [pc EXCEPT ![t] = "alias"]
        BY <1>3 DEF FindTokenized
    <2>2. Answers(t, h)
        <3>1. /\ requested[t] \in CacheTemplates /\ Tokenized[requested[t]] \in CacheTemplates
              /\ tokenized_key(t) = cache_key[Tokenized[requested[t]]]
            BY CallTemplates DEF CacheInv, tokenized_key
        <3>2. h \in published /\ Meant(Tokenized[requested[t]], h)
            BY <1>3, <3>1 DEF CacheInv, EntriesInv
        <3> HIDE DEF h
        <3>3. Meant(requested[t], h)
            BY <3>1, <3>2, MeantTokenized
        <3> QED BY <1>0, <3>2, <3>3 DEF Answers
    <2>3. "alias" \in Places /\ "alias" # "outer_alias"
        BY DEF Places
    <2> QED BY <1>0, <1>1, <2>1, <2>2, <2>3, ThreadKeeps DEF CacheInv
<1>4. CASE \/ Find(t) /\ original_key(t) \notin DOMAIN entries
           \/ FindTokenized(t) /\ tokenized_key(t) \notin DOMAIN entries
    <2>1. PICK p \in {"find_tokenized", "publish"} : pc' = [pc EXCEPT ![t] = p]
        BY <1>4 DEF Find, FindTokenized
    <2>2. held' = [held EXCEPT ![t] = held[t]]
        BY <1>4 DEF Find, FindTokenized, CacheInv, CallsInv
    <2>3. held[t] = NoEntry \/ Answers(t, held[t])
        BY <1>0 DEF CacheInv, HeldInv, Fits, Answers
    <2>4. p \in Places /\ p \notin {"alias", "count", "outer_alias"}
        BY DEF Places
    <2> QED BY <1>0, <1>1, <2>1, <2>2, <2>3, <2>4, ThreadKeeps DEF CacheInv
<1> QED BY <1>2, <1>3, <1>4

LEMMA AliasKeeps ==
    ASSUME CacheInv, NEW t \in Threads, InsertAlias(t) \/ OuterAlias(t)
    PROVE  CacheInv'
<1> DEFINE x == IF pc[t] = "alias" THEN requested[t] ELSE alias[t]
           h == held[t]
<1>1. /\ entries' \in Inserted(entries, cache_key[x], h) /\ NoteEviction({cache_key[x]})
      /\ UNCHANGED call /\ published' = published /\ held' = held
      /\ pc[t] \in {"alias", "outer_alias"}
    BY DEF InsertAlias, OuterAlias, original_key
<1>2. h \in published /\ Meant(requested[t], h)
    BY <1>1 DEF CacheInv, HeldInv, Fits
<1>3. x \in CacheTemplates /\ Meant(x, h)
    <2>1. CASE pc[t] = "alias"
        BY <1>2, <2>1, CallTemplates DEF CacheInv
    <2>2. CASE pc[t] = "outer_alias"
        <3>1. alias[t] \in CacheTemplates /\ requested[t] = Tokenized[alias[t]] /\ x = alias[t]
            BY <2>2, CallTemplates DEF CacheInv, HeldInv
        <3> HIDE DEF h
        <3> QED BY <1>2, <3>1, MeantTokenized
    <2> QED BY <1>1, <2>1, <2>2
<1> HIDE DEF x
<1>4. EntriesInv' /\ FoundInv'
    <2> HIDE DEF h
    <2>1. Stands(entries, entries', {cache_key[x]}, h)
        BY <1>1, InsertedStands
    <2>2. published' = published \cup {h}
        BY <1>1, <1>2
    <2>3. \A y \in CacheTemplates : cache_key[y] \in {cache_key[x]} => Meant(y, h)
        BY <1>3, MeantAlike
    <2> QED BY <1>1, <1>2, <2>1, <2>2, <2>3, WriteKeeps DEF CacheInv
<1>5. evicted' \in BOOLEAN /\ published \subseteq published' /\ Answers(t, held[t])
    BY <1>1, <1>2 DEF NoteEviction, Answers
<1>6. held' = [held EXCEPT ![t] = held[t]]
    BY <1>1 DEF CacheInv, CallsInv
<1>7. CASE InsertAlias(t)
    <2>1. Leave(t)
        BY <1>7 DEF InsertAlias
    <2> QED BY <1>1, <1>4, <1>5, <1>6, <2>1, LeaveKeeps DEF CacheInv
<1>8. CASE OuterAlias(t)
    <2>1. pc' = [pc EXCEPT ![t] = "idle"] /\ "idle" \in Places /\ "idle" # "outer_alias"
        BY <1>8 DEF OuterAlias, Places
    <2> QED BY <1>1, <1>4, <1>5, <1>6, <2>1, ThreadKeeps DEF CacheInv
<1> QED BY <1>7, <1>8

LEMMA QuietKeeps ==
    ASSUME CacheInv, NEW t \in Threads, CompileThrows(t) \/ Count(t)
    PROVE  CacheInv'
<1>0. UNCHANGED <<entries, published, evicted>> /\ UNCHANGED call /\ evicted' \in BOOLEAN
    BY DEF CompileThrows, Count, CacheInv, CallsInv
<1>1. EntriesInv' /\ FoundInv'
    BY <1>0, ReadKeeps DEF CacheInv
<1>2. CASE CompileThrows(t)
    <2>1. /\ held' = [held EXCEPT ![t] = NoEntry] /\ pc' = [pc EXCEPT ![t] = "idle"]
          /\ "idle" \in Places
        BY <1>2 DEF CompileThrows, Places
    <2> QED BY <1>0, <1>1, <2>1, ThreadKeeps DEF CacheInv
<1>3. CASE Count(t)
    <2>1. Leave(t) /\ held' = [held EXCEPT ![t] = held[t]]
        BY <1>3 DEF Count, CacheInv, CallsInv
    <2>2. Answers(t, held[t])
        BY <1>0, <1>3 DEF Count, CacheInv, HeldInv, Fits, Answers
    <2> QED BY <1>0, <1>1, <2>1, <2>2, LeaveKeeps DEF CacheInv
<1> QED BY <1>2, <1>3

(* Another thread's object is reused, or the new one stands under both keys. *)
LEMMA PublishKeeps ==
    ASSUME CacheInv, NEW t \in Threads, Publish(t)
    PROVE  CacheInv'
<1> DEFINE keys == {original_key(t), tokenized_key(t)}
           x == requested[t]
           w == Tokenized[x]
<1>0. UNCHANGED call /\ NoteEviction(keys) /\ evicted' \in BOOLEAN
    BY DEF Publish, NoteEviction
<1>1. /\ x \in CacheTemplates /\ w \in CacheTemplates
      /\ original_key(t) = cache_key[x] /\ tokenized_key(t) = cache_key[w]
    BY CallTemplates DEF CacheInv, original_key, tokenized_key
<1>2. ASSUME NEW h, Meant(x, h), Meant(w, h)
      PROVE  \A y \in CacheTemplates : cache_key[y] \in keys => Meant(y, h)
    <2> SUFFICES ASSUME NEW y \in CacheTemplates, cache_key[y] = cache_key[x] \/ cache_key[y] = cache_key[w]
                 PROVE  Meant(y, h)
        BY <1>1
    <2> HIDE DEF x, w
    <2> QED BY <1>1, <1>2, MeantAlike
<1>3. CASE tokenized_key(t) \in DOMAIN entries
    <2> DEFINE h == entries[tokenized_key(t)]
    <2>1. /\ held' = [held EXCEPT ![t] = h] /\ entries' = Assign(entries, original_key(t), h)
          /\ Leave(t) /\ published' = published
        BY <1>3 DEF Publish
    <2>2. h \in published /\ Meant(w, h)
        BY <1>1, <1>3 DEF CacheInv, EntriesInv
    <2>3. Stands(entries, entries', keys, h)
        <3>1. Stands(entries, entries', {original_key(t)}, h)
            BY <2>1, AssignStands
        <3> QED BY <3>1 DEF Stands
    <2> HIDE DEF h
    <2>4. Meant(x, h)
        BY <1>1, <2>2, MeantTokenized
    <2>5. EntriesInv' /\ FoundInv'
        <3>1. published' = published \cup {h}
            BY <2>1, <2>2
        <3>2. \A y \in CacheTemplates : cache_key[y] \in keys => Meant(y, h)
            BY <1>2, <2>2, <2>4
        <3> HIDE DEF keys
        <3> QED BY <1>0, <2>2, <2>3, <3>1, <3>2, WriteKeeps DEF CacheInv
    <2>6. Answers(t, h) /\ published \subseteq published'
        BY <2>1, <2>2, <2>4 DEF Answers
    <2> QED BY <1>0, <2>1, <2>5, <2>6, LeaveKeeps DEF CacheInv
<1>4. CASE tokenized_key(t) \notin DOMAIN entries
    <2> DEFINE h == Compiled(t)
    <2>1. /\ held' = [held EXCEPT ![t] = h] /\ published' = published \cup {h}
          /\ pc' = [pc EXCEPT ![t] = "count"]
        BY <1>4 DEF Publish
    <2>2. \E m \in Inserted(entries, tokenized_key(t), h) :
              IF original_key(t) = tokenized_key(t)
                 THEN entries' = m
                 ELSE entries' \in Inserted(m, original_key(t), h)
        BY <1>4 DEF Publish
    <2>3. h.blueprint = w
        BY DEF Compiled
    <2> HIDE DEF h
    <2>4. Stands(entries, entries', keys, h)
        <3>1. PICK m \in Inserted(entries, tokenized_key(t), h) :
                  IF original_key(t) = tokenized_key(t)
                     THEN entries' = m
                     ELSE entries' \in Inserted(m, original_key(t), h)
            BY <2>2
        <3>2. Stands(entries, m, {tokenized_key(t)}, h)
            BY InsertedStands
        <3>3. CASE original_key(t) = tokenized_key(t)
            BY <3>1, <3>2, <3>3
        <3>4. CASE original_key(t) # tokenized_key(t)
            <4>1. Stands(m, entries', {original_key(t)}, h)
                BY <3>1, <3>4, InsertedStands
            <4>2. Stands(entries, entries', {tokenized_key(t), original_key(t)}, h)
                BY <3>2, <4>1, StandsTwice
            <4>3. {tokenized_key(t), original_key(t)} = keys
                OBVIOUS
            <4> HIDE DEF keys
            <4> QED BY <4>2, <4>3
        <3> QED BY <3>3, <3>4
    <2>5. Meant(w, h) /\ Meant(x, h)
        <3>1. Akin(cache_key[w], h)
            BY <2>3 DEF Akin
        <3>2. ASSUME w \in Sole
              PROVE  h.blueprint = Tokenized[w]
            <4>1. cache_key[w] \in KeysOf(w) /\ cache_key[w] \in KeysOf(x)
                BY DEF KeysOf
            <4>2. Tokenized[x] = Tokenized[w]
                BY <1>1, <3>2, <4>1 DEF Sole
            <4> QED BY <2>3, <4>2
        <3>3. Meant(w, h)
            BY <3>1, <3>2 DEF Meant
        <3> QED BY <1>1, <3>3, MeantTokenized
    <2>6. EntriesInv' /\ FoundInv'
        <3>1. \A y \in CacheTemplates : cache_key[y] \in keys => Meant(y, h)
            BY <1>2, <2>5
        <3>2. cache_key[h.blueprint] \in keys /\ cache_key[h.blueprint] \notin DOMAIN entries
            BY <1>1, <1>4, <2>3
        <3> HIDE DEF keys
        <3> QED BY <1>0, <2>1, <2>4, <3>1, <3>2, WriteKeeps DEF CacheInv
    <2>7. /\ Answers(t, h) /\ published \subseteq published' /\ "count" \in Places
          /\ "count" # "outer_alias"
        BY <2>1, <2>5 DEF Answers, Places
    <2> QED BY <1>0, <2>1, <2>6, <2>7, ThreadKeeps DEF CacheInv
<1> QED BY <1>3, <1>4

-----------------------------------------------------------------------------
(* The invariant of the cache holds at first and after every step.          *)
THEOREM CacheInductive == CacheSpec => []CacheInv
<1>1. CacheInit => CacheInv
    <2> SUFFICES ASSUME CacheInit PROVE CacheInv
        OBVIOUS
    <2>1. \A u \in Threads : requested[u] \in CacheTemplates
        <3>1. (CHOOSE x \in CacheTemplates : TRUE) \in CacheTemplates
            BY PrepCacheAssumption
        <3> QED BY <3>1 DEF CacheInit
    <2>2. CallsInv
        BY <2>1 DEF CacheInit, CallsInv, Places
    <2>3. HeldInv
        BY DEF CacheInit, HeldInv
    <2>4. EntriesInv /\ FoundInv
        BY DEF CacheInit, EntriesInv, FoundInv
    <2> QED BY <2>2, <2>3, <2>4 DEF CacheInv
<1>2. CacheInv /\ [CacheNext]_cacheVars => CacheInv'
    <2> SUFFICES ASSUME CacheInv, [CacheNext]_cacheVars PROVE CacheInv'
        OBVIOUS
    <2>1. CASE UNCHANGED cacheVars
        BY <2>1 DEF cacheVars, CacheInv, CallsInv, HeldInv, EntriesInv, FoundInv, Fits
    <2>2. CASE CacheNext
        <3>1. PICK t \in Threads : Step(t)
            BY <2>2 DEF CacheNext
        <3>2. ASSUME NEW key \in CacheTemplates, NEW through \in BOOLEAN, Call(t, key, through)
              PROVE  CacheInv'
            BY <3>2, CallKeeps
        <3>3. CASE Find(t) \/ FindTokenized(t)
            BY <3>3, FindKeeps
        <3>4. CASE InsertAlias(t) \/ OuterAlias(t)
            BY <3>4, AliasKeeps
        <3>5. CASE CompileThrows(t) \/ Count(t)
            BY <3>5, QuietKeeps
        <3>6. CASE Publish(t)
            BY <3>6, PublishKeeps
        <3> QED BY <3>1, <3>2, <3>3, <3>4, <3>5, <3>6 DEF Step
    <2> QED BY <2>1, <2>2
<1> QED BY <1>1, <1>2, PTL DEF CacheSpec

(* Whatever is evicted, whatever keys coincide and however the callers
   interleave, a template that has its keys to itself finds and gets what was
   compiled from its tokenized text, and every other one an answer of its family
   (log_preparation_cache.cpp:18-84).                                       *)
THEOREM AnswersCorrect == CacheSpec => []AnswersMatch
<1>1. CacheInv => AnswersMatch
    BY DEF CacheInv, EntriesInv, HeldInv, Fits, AnswersMatch
<1> QED BY <1>1, CacheInductive, PTL

(* While the cache has room, threads that compile templates of one tokenized
   form at the same time end with one object (log_preparation_cache.cpp:62-64). *)
THEOREM PublicationCorrect == CacheSpec => []PublishedOnce
<1>1. CacheInv => PublishedOnce
    <2> SUFFICES ASSUME CacheInv, ~evicted PROVE PublishedOnce
        BY DEF PublishedOnce
    <2>1. \A o, q \in published :
              cache_key[o.blueprint] = cache_key[q.blueprint] => o = q
        BY DEF CacheInv, FoundInv
    <2>2. \A t \in Threads : held[t] # NoEntry => held[t] \in published
        BY DEF CacheInv, HeldInv, Fits
    <2> QED BY <2>1, <2>2 DEF PublishedOnce
<1> QED BY <1>1, CacheInductive, PTL
=============================================================================
