------------------------------ MODULE GuiProofs ------------------------------
(***************************************************************************)
(* Gui for any samples, searches, catalogs, imports, and any numbers of     *)
(* items, clicks and faults: the indices of the window stay in the catalog, *)
(* what can be saved is the tokenized form of what is shown, and the window *)
(* and the file hold the same logs but for tokenizing.                      *)
(***************************************************************************)
EXTENDS Gui, SequenceTheorems, FiniteSetTheorems, WellFoundedInduction, TLAPS

-----------------------------------------------------------------------------
(* Natural numbers.                                                         *)

(* A set of natural numbers has a least one, which is Min.                  *)
LEMMA LeastNumber ==
    ASSUME NEW T \in SUBSET Nat, T # {}
    PROVE  Min(T) \in T /\ \A k \in T : Min(T) <= k
<1>1. PICK m \in T : \A k \in T : ~(<<k, m>> \in OpToRel(<, Nat))
    BY NatLessThanWellFounded, WFMin
<1>2. \A k \in T : ~(k < m)
    BY <1>1 DEF OpToRel
<1>3. \A k \in T : m <= k
    BY <1>2
<1> QED BY <1>3 DEF Min

(* What holds of 0 and of each successor holds of every natural number.     *)
LEMMA Naturals ==
    ASSUME NEW T, 0 \in T, \A n \in Nat : n \in T => n + 1 \in T
    PROVE  Nat \subseteq T
<1> SUFFICES ASSUME Nat \ T # {} PROVE FALSE
    OBVIOUS
<1> DEFINE m == Min(Nat \ T)
<1>1. m \in Nat \ T /\ \A k \in Nat \ T : m <= k
    BY LeastNumber
<1> HIDE DEF m
<1>2. m # 0 /\ m - 1 \in Nat
    BY <1>1
<1>3. m - 1 \in T
    BY <1>1, <1>2
<1> QED BY <1>1, <1>2, <1>3

(* A bounded set of natural numbers has a largest one, which is Max.        *)
LEMMA LargestNumber ==
    ASSUME NEW T \in SUBSET Nat, T # {}, NEW bound \in Nat, \A k \in T : k <= bound
    PROVE  Max(T) \in T /\ \A k \in T : Max(T) >= k
<1> DEFINE gaps == {bound - k : k \in T}
           g == Min(gaps)
<1>0. \A k \in T : k \in Nat /\ bound - k \in Nat
    OBVIOUS
<1>1. gaps \in SUBSET Nat /\ gaps # {}
    BY <1>0
<1>2. g \in gaps /\ \A h \in gaps : g <= h
    <2> HIDE DEF gaps
    <2> QED BY <1>1, LeastNumber
<1> HIDE DEF g
<1>3. PICK m \in T : g = bound - m
    BY <1>2
<1>4. ASSUME NEW k \in T
      PROVE  m >= k
    <2>1. g <= bound - k
        BY <1>2
    <2> QED BY <1>0, <1>3, <2>1
<1> QED BY <1>3, <1>4 DEF Max

(* The values of a sequence are bounded.                                    *)
LEMMA Bounded ==
    ASSUME NEW n \in Nat, NEW f \in [1..n -> Nat]
    PROVE  \E bound \in Nat : \A i \in 1..n : f[i] <= bound
<1> DEFINE T == {k \in Nat : k <= n => \E bound \in Nat : \A i \in 1..k : f[i] <= bound}
<1>1. 0 \in T
    OBVIOUS
<1>2. ASSUME NEW k \in Nat, k \in T
      PROVE  k + 1 \in T
    <2> SUFFICES ASSUME k + 1 <= n
                 PROVE  \E bound \in Nat : \A i \in 1..(k + 1) : f[i] <= bound
        OBVIOUS
    <2>1. PICK b \in Nat : \A i \in 1..k : f[i] <= b
        BY <1>2
    <2>2. f[k + 1] \in Nat
        OBVIOUS
    <2> DEFINE c == b + f[k + 1]
    <2>3. c \in Nat /\ b <= c /\ f[k + 1] <= c
        BY <2>2
    <2> HIDE DEF c
    <2>4. \A i \in 1..(k + 1) : f[i] <= c
        <3>1. ASSUME NEW i \in 1..(k + 1)
              PROVE  f[i] <= c
            <4>1. CASE i = k + 1
                BY <2>3, <4>1
            <4>2. CASE i # k + 1
                <5>1. i \in 1..k /\ f[i] \in Nat
                    BY <4>2
                <5> QED BY <2>1, <2>3, <5>1
            <4> QED BY <4>1, <4>2
        <3> QED BY <3>1
    <2> QED BY <2>3, <2>4
<1> HIDE DEF T
<1>3. n \in T
    BY <1>1, <1>2, Naturals
<1> QED BY <1>3 DEF T

-----------------------------------------------------------------------------
(* A fold over 1..n that takes the largest element first.                   *)

(* Taking away the largest of 1..k + 1 leaves 1..k.                         *)
LEMMA Largest ==
    ASSUME NEW k \in Nat
    PROVE  Max(1..(k + 1)) = k + 1 /\ 1..(k + 1) # {} /\ (1..(k + 1)) \ {k + 1} = 1..k
<1> DEFINE m == Max(1..(k + 1))
<1>1. m \in 1..(k + 1) /\ \A i \in 1..(k + 1) : m >= i
    <2>1. /\ 1..(k + 1) \in SUBSET Nat /\ 1..(k + 1) # {} /\ k + 1 \in Nat
          /\ \A i \in 1..(k + 1) : i <= k + 1
        OBVIOUS
    <2> DEFINE T == 1..(k + 1)
    <2> HIDE DEF T
    <2>2. Max(T) \in T /\ \A i \in T : Max(T) >= i
        BY <2>1, LargestNumber DEF T
    <2> QED BY <2>2 DEF T
<1> HIDE DEF m
<1>2. m = k + 1
    BY <1>1
<1> QED BY <1>2 DEF m

Stepped(g, s, base, step) ==
    g[s] = IF s = {} THEN base ELSE step[<<Max(s), g[s \ {Max(s)}]>>]
Solves(g, k, base, step) == \A s \in SUBSET (1..k) : Stepped(g, s, base, step)

(* The recursive functions that step through the subsets of 1..n exist: this
   one has the values that a step given as a function yields.               *)
LEMMA FoldExists ==
    ASSUME NEW n \in Nat, NEW V, NEW base \in V, NEW step \in [(1..n) \X V -> V]
    PROVE  \E g \in [SUBSET (1..n) -> V] : Solves(g, n, base, step)
<1> DEFINE Found(k) == \E g \in [SUBSET (1..n) -> V] : Solves(g, k, base, step)
           T == {k \in Nat : k <= n => Found(k)}
<1>1. 0 \in T
    <2> DEFINE g == [s \in SUBSET (1..n) |-> base]
    <2>1. Solves(g, 0, base, step) /\ g \in [SUBSET (1..n) -> V]
        BY DEF Solves, Stepped
    <2> QED BY <2>1
<1> HIDE DEF Found
<1>2. ASSUME NEW k \in Nat, k \in T, k + 1 <= n
      PROVE  Found(k + 1)
    <2>0. Found(k)
        BY <1>2
    <2>1. PICK g \in [SUBSET (1..n) -> V] : Solves(g, k, base, step)
        BY <2>0 DEF Found
    <2> DEFINE h == [s \in SUBSET (1..n) |->
                        IF s \in SUBSET (1..k) THEN g[s] ELSE IF Max(s) \in 1..n
                        THEN step[<<Max(s), g[s \ {Max(s)}]>>] ELSE base]
    <2>2. h \in [SUBSET (1..n) -> V]
        OBVIOUS
    <2>3. ASSUME NEW s \in SUBSET (1..(k + 1)), s # {}
          PROVE  Max(s) \in s /\ Max(s) \in 1..n /\ s \ {Max(s)} \in SUBSET (1..k)
        <3>1. s \in SUBSET Nat /\ k + 1 \in Nat /\ \A i \in s : i <= k + 1
            OBVIOUS
        <3> DEFINE m == Max(s)
        <3>2. m \in s /\ \A i \in s : m >= i
            BY <2>3, <3>1, LargestNumber
        <3> HIDE DEF m
        <3>3. m \in s /\ m \in 1..n /\ s \ {m} \in SUBSET (1..k)
            <4>1. m \in Nat /\ m >= 1 /\ m <= n
                BY <1>2, <3>1, <3>2
            <4>2. ASSUME NEW i \in s \ {m}
                  PROVE  i \in 1..k
                <5>1. i \in Nat /\ i >= 1 /\ i <= m /\ i # m /\ m <= k + 1
                    BY <3>1, <3>2
                <5> QED BY <4>1, <5>1
            <4> QED BY <3>2, <4>1, <4>2
        <3> QED BY <3>3 DEF m
    <2>4. ASSUME NEW s \in SUBSET (1..(k + 1))
          PROVE  Stepped(h, s, base, step)
        <3>0. s \in SUBSET (1..n)
            BY <1>2
        <3>1. CASE s = {}
            <4>1. h[s] = g[s] /\ g[s] = base
                BY <2>1, <3>1 DEF Solves, Stepped
            <4> QED BY <3>1, <4>1 DEF Stepped
        <3>2. CASE s # {}
            <4>1. Max(s) \in 1..n /\ s \ {Max(s)} \in SUBSET (1..k) /\ s \ {Max(s)} \in SUBSET (1..n)
                BY <1>2, <2>3, <3>2
            <4>2. h[s \ {Max(s)}] = g[s \ {Max(s)}]
                BY <4>1
            <4>3. h[s] = step[<<Max(s), g[s \ {Max(s)}]>>]
                <5>1. CASE s \in SUBSET (1..k)
                    BY <2>1, <3>0, <3>2, <5>1 DEF Solves, Stepped
                <5>2. CASE s \notin SUBSET (1..k)
                    BY <3>0, <4>1, <5>2
                <5> QED BY <5>1, <5>2
            <4> HIDE DEF h
            <4> QED BY <3>2, <4>2, <4>3 DEF Stepped
        <3> QED BY <3>1, <3>2
    <2>5. Solves(h, k + 1, base, step)
        BY <2>4 DEF Solves
    <2> HIDE DEF h
    <2> QED BY <2>2, <2>5 DEF Found
<1>3. \A k \in Nat : k \in T => k + 1 \in T
    BY <1>2
<1>4. n \in T
    <2> HIDE DEF T
    <2> QED BY <1>1, <1>3, Naturals
<1>5. Found(n)
    BY <1>4
<1> QED BY <1>5 DEF Found

-----------------------------------------------------------------------------
(* Ids.                                                                     *)

Entries == [id : [zeros : Nat, value : Int], sample : Texts]
Counted == [id : [zeros : Nat, value : Nat], sample : Texts]

LEMMA ListsAre == Lists = Seq(Entries)
BY DEF Lists, Entries

(* A new entry has a number for an id.                                      *)
LEMMA NewEntry ==
    ASSUME NEW list \in Seq(Counted), NEW sample \in Texts
    PROVE  Entry(next_id(list), sample) \in Counted
<1> DEFINE f == [i \in 1..Len(list) |-> list[i].id.value]
           values == {0} \cup {list[i].id.value : i \in DOMAIN list}
<1>1. Len(list) \in Nat /\ DOMAIN list = 1..Len(list) /\ \A i \in DOMAIN list : list[i] \in Counted
    OBVIOUS
<1>2. \A i \in DOMAIN list : list[i].id.value \in Nat
    BY <1>1 DEF Counted
<1>3. f \in [1..Len(list) -> Nat]
    BY <1>1, <1>2
<1>4. PICK bound \in Nat : \A i \in 1..Len(list) : f[i] <= bound
    <2> HIDE DEF f
    <2> QED BY <1>1, <1>3, Bounded
<1>5. values \in SUBSET Nat /\ values # {} /\ \A k \in values : k <= bound
    BY <1>1, <1>2, <1>4
<1>6. largest_id(list) \in Nat
    <2>1. Max(values) \in Nat
        <3> HIDE DEF values
        <3> QED BY <1>5, LargestNumber
    <2> QED BY <2>1 DEF largest_id
<1>7. largest_id(list) + 1 \in Nat
    BY <1>6
<1> QED BY <1>7 DEF next_id, padded, Id, Entry, Counted

(* While an id is available, all of them are numbers.                       *)
LEMMA AvailableCounted ==
    ASSUME NEW list \in Lists, validate_ids(list)
    PROVE  list \in Seq(Counted)
<1>1. Len(list) \in Nat /\ list \in [1..Len(list) -> Entries]
    BY ListsAre
<1>2. \A i \in 1..Len(list) : list[i] \in Counted
    BY <1>1 DEF validate_ids, valid_sample_id, Entries, Counted
<1> QED BY <1>1, <1>2, SeqDef

(* Tokenizing leaves the ids of the items alone, and their number.          *)
LEMMA TokenizedEntry ==
    /\ \A e \in Entries : tokenize(e) \in Entries /\ tokenize(e).sample = AsTokens[e.sample]
    /\ \A e \in Counted : tokenize(e) \in Counted
BY GuiAssumption DEF tokenize, Entries, Counted

LEMMA TokenizedType ==
    ASSUME NEW items \in Lists
    PROVE  tokenized(items) \in Lists
<1>1. Len(items) \in Nat /\ DOMAIN items = 1..Len(items) /\ items \in [1..Len(items) -> Entries]
    BY ListsAre
<1>2. \A i \in 1..Len(items) : tokenize(items[i]) \in Entries
    BY <1>1, TokenizedEntry
<1>3. tokenized(items) \in [1..Len(items) -> Entries]
    BY <1>1, <1>2 DEF tokenized
<1> QED BY <1>1, <1>3, ListsAre, SeqDef

LEMMA CountedLists == Seq(Counted) \subseteq Lists
<1>1. Counted \subseteq Entries
    BY DEF Counted, Entries
<1>2. ASSUME NEW s \in Seq(Counted)
      PROVE  s \in Seq(Entries)
    <2>1. Len(s) \in Nat /\ s \in [1..Len(s) -> Counted]
        OBVIOUS
    <2>2. s \in [1..Len(s) -> Entries]
        BY <1>1, <2>1
    <2> QED BY <2>1, <2>2, SeqDef
<1> QED BY <1>2, ListsAre

-----------------------------------------------------------------------------
(* The import adds one entry per sample.                                    *)

Added(list, sample) == Append(list, tokenize(Entry(next_id(list), sample)))

ImportBody(g, list, samples, s) ==
    IF s = {} THEN list ELSE LET x == Max(s) IN Added(g[s \ {x}], samples[x])
ImportFold(list, samples) ==
    CHOOSE g : g = [s \in SUBSET DOMAIN samples |-> ImportBody(g, list, samples, s)]

LEMMA ImportIs ==
    ASSUME NEW list, NEW samples
    PROVE  FoldLeft(LAMBDA l, sample : Append(l, tokenize(Entry(next_id(l), sample))),
                    list, samples)
               = ImportFold(list, samples)[DOMAIN samples]
BY DEF FoldLeft, MapThenFoldSet, ImportFold, ImportBody, Added

LEMMA ImportType ==
    ASSUME NEW list \in Seq(Counted), NEW samples \in Seq(Texts)
    PROVE  ImportFold(list, samples)[DOMAIN samples] \in Seq(Counted)
<1> DEFINE n == Len(samples)
           V == Seq(Counted)
           step == [p \in (1..n) \X V |-> Added(p[2], samples[p[1]])]
<1>1. n \in Nat /\ DOMAIN samples = 1..n /\ \A i \in 1..n : samples[i] \in Texts
    OBVIOUS
<1>2. ASSUME NEW l \in V, NEW sample \in Texts
      PROVE  Added(l, sample) \in V
    <2> DEFINE e == tokenize(Entry(next_id(l), sample))
    <2>1. e \in Counted
        BY NewEntry, TokenizedEntry
    <2> HIDE DEF e
    <2>2. Append(l, e) \in V
        BY <2>1
    <2> QED BY <2>2 DEF Added, e
<1>3. step \in [(1..n) \X V -> V]
    BY <1>1, <1>2
<1>4. PICK g \in [SUBSET (1..n) -> V] : Solves(g, n, list, step)
    <2> HIDE DEF step, V, n
    <2>1. list \in V
        BY DEF V
    <2> QED BY <1>1, <1>3, <2>1, FoldExists
<1>5. ASSUME NEW s \in SUBSET (1..n)
      PROVE  g[s] = ImportBody(g, list, samples, s)
    <2>1. CASE s = {}
        BY <1>4, <2>1 DEF Solves, Stepped, ImportBody
    <2>2. CASE s # {}
        <3> DEFINE x == Max(s)
        <3>1. x \in s
            <4>1. s \in SUBSET Nat /\ \A i \in s : i <= n
                BY <1>1
            <4> HIDE DEF n
            <4> QED BY <1>1, <2>2, <4>1, LargestNumber
        <3>2. x \in 1..n /\ s \ {x} \in SUBSET (1..n)
            BY <3>1
        <3> HIDE DEF x
        <3>3. g[s] = step[<<x, g[s \ {x}]>>]
            BY <1>4, <2>2 DEF Solves, Stepped, x
        <3>4. g[s \ {x}] \in V
            BY <3>2
        <3>5. step[<<x, g[s \ {x}]>>] = Added(g[s \ {x}], samples[x])
            BY <3>2, <3>4
        <3> HIDE DEF step
        <3> QED BY <2>2, <3>3, <3>5 DEF ImportBody, x
    <2> QED BY <2>1, <2>2
<1> DEFINE h == ImportFold(list, samples)
<1>6. g = [s \in SUBSET DOMAIN samples |-> ImportBody(g, list, samples, s)]
    BY <1>1, <1>5
<1>7. h = [s \in SUBSET DOMAIN samples |-> ImportBody(h, list, samples, s)]
    BY <1>6 DEF ImportFold
<1> HIDE DEF h
<1> DEFINE T == {k \in Nat : k <= n => h[1..k] \in V}
<1>8. 0 \in T
    <2>1. h[1..0] = list
        BY <1>1, <1>7 DEF ImportBody
    <2> QED BY <2>1
<1>9. ASSUME NEW k \in Nat, k \in T
      PROVE  k + 1 \in T
    <2>1. CASE k + 1 <= n
        <3>1. h[1..k] \in V /\ 1..(k + 1) \in SUBSET (1..n) /\ samples[k + 1] \in Texts
            BY <1>1, <1>9, <2>1
        <3>2. h[1..(k + 1)] = ImportBody(h, list, samples, 1..(k + 1))
            BY <1>1, <1>7, <3>1
        <3>3. h[1..(k + 1)] = Added(h[1..k], samples[k + 1])
            <4>1. Max(1..(k + 1)) = k + 1 /\ 1..(k + 1) # {} /\ (1..(k + 1)) \ {k + 1} = 1..k
                BY Largest
            <4> QED BY <3>2, <4>1 DEF ImportBody
        <3>4. h[1..(k + 1)] \in V
            <4> HIDE DEF V
            <4> QED BY <1>2, <3>1, <3>3
        <3> QED BY <3>4
    <2> QED BY <2>1
<1>10. n \in T
    <2> HIDE DEF T
    <2> QED BY <1>1, <1>8, <1>9, Naturals
<1> QED BY <1>1, <1>10 DEF h

-----------------------------------------------------------------------------
(* The invariant.                                                           *)

(* What the editor hands to the tokenizer, and what that answers: the item
   has the text that was handed over, and then its tokenized form.          *)
Requests == {r \in [revision : Nat, source : Texts, item : Entries] : r.item.sample = r.source}
Replies == {r \in [revision : Nat, ok : BOOLEAN, source : Texts, item : Entries] :
               r.item.sample = AsTokens[r.source]}

Views == [items : Lists, selected : Nat, filtered : SUBSET Nat, query : Queries, rotate : BOOLEAN]
Jobs == [loading : BOOLEAN, kind : {"none", "load", "save", "import"},
         at : {"none", "work", "ready", "done"}, items : Lists]
Editors == [popup : {"none", "edit", "delete", "import"}, is_new : BOOLEAN, index : Nat,
            sample : Texts, tokenized : Entries \cup {None}, revision : Nat,
            pending : BOOLEAN, delete : Nat]
Shared == [busy : BOOLEAN, ready : BOOLEAN, request : Requests \cup {None},
           result : Replies \cup {None}]
Workers == [at : {"wait", "asleep", "work", "ready", "settle", "ended"},
            work : Requests \cup {None}, newer : BOOLEAN]
Generators == [state : {"idle", "active", "stopping"}, seen : {"idle", "active", "stopping"},
               due : BOOLEAN]
Traces == [faults : Nat, apart : BOOLEAN, overtaken : BOOLEAN, error : BOOLEAN]

CatalogType == /\ file \in Lists /\ view \in Views /\ job \in Jobs
               /\ result \in Answers \cup {None} /\ ready \in BOOLEAN
EditorType == /\ editor \in Editors /\ tok \in Shared /\ worker \in Workers
              /\ worker.at = "work" => worker.work # None
OtherType == /\ ui \in {"frame", "select", "take", "lock", "queue", "flag", "popup", "join", "ended"}
             /\ gen \in Generators /\ trace \in Traces /\ clicks \in Nat

TypeInv == CatalogType /\ EditorType /\ OtherType

(* Where the catalog thread is, and what the window knows of its result.    *)
Waiting == job.at = "ready" \/ ready

JobInv ==
    /\ job.loading <=> job.at # "none"
    /\ editor.popup # "none" => ~ job.loading
    /\ job.at = "work" => trace.apart
    /\ result # None => Waiting
    /\ ~ trace.overtaken /\ job.kind = "save" /\ job.at = "work" => view.items = job.items

(* Until something fails, the file is in the window or on its way there, and
   in the window what no save has overtaken.                                *)
SavedInv ==
    ~ trace.apart =>
        /\ result # None => result.ok /\ (result.replace => Agree(result.items, file))
        /\ ~ trace.overtaken =>
               (result # None /\ result.replace) \/ Agree(view.items, file)

IInv == TypeInv /\ IndexesInRange /\ NewestApplied /\ JobInv /\ SavedInv

-----------------------------------------------------------------------------
(* The indices.                                                             *)

InRange(v) ==
    /\ v.items # <<>> => v.selected < Len(v.items)
    /\ \A i \in v.filtered : i < Len(v.items)
    /\ v.items # <<>> /\ v.filtered # {} => v.selected \in v.filtered

LEMMA RangeIs == IndexesInRange <=> InRange(view)
BY DEF IndexesInRange, InRange

(* rebuild_filter brings an index in the catalog among the matches.         *)
LEMMA Rebuilt ==
    ASSUME NEW v \in Views, v.items # <<>> => v.selected < Len(v.items)
    PROVE  /\ rebuild_filter(v) \in Views /\ InRange(rebuild_filter(v))
           /\ rebuild_filter(v).items = v.items
<1> DEFINE found == {i \in 0..Len(v.items) - 1 : matches(v.items[i + 1], v.query)}
           selected == IF found # {} /\ v.selected \notin found THEN Min(found) ELSE v.selected
           w == [v EXCEPT !.filtered = found, !.selected = selected]
<1>1. rebuild_filter(v) = w
    BY DEF rebuild_filter
<1>2. Len(v.items) \in Nat /\ v.selected \in Nat
    BY DEF Views, Lists
<1>3. found \in SUBSET Nat /\ \A i \in found : i < Len(v.items)
    BY <1>2
<1>4. selected \in Nat /\ (found # {} => selected \in found)
    <2>1. found # {} => Min(found) \in found
        <3> HIDE DEF found
        <3> QED BY <1>3, LeastNumber
    <2> HIDE DEF found
    <2> QED BY <1>2, <1>3, <2>1
<1>5. v.items # <<>> => selected < Len(v.items)
    <2> HIDE DEF found
    <2> QED BY <1>3, <1>4
<1> HIDE DEF found, selected
<1>6. /\ w \in Views /\ w.items = v.items /\ w.filtered = found /\ w.selected = selected
    BY <1>3, <1>4 DEF Views
<1>7. InRange(w)
    BY <1>3, <1>4, <1>5, <1>6 DEF InRange
<1> HIDE DEF w
<1> QED BY <1>1, <1>6, <1>7

LEMMA Clamped ==
    ASSUME NEW i \in Nat, NEW items \in Lists
    PROVE  clamp(i, items) \in Nat /\ (items # <<>> => clamp(i, items) < Len(items))
<1>1. CASE items = <<>>
    BY <1>1 DEF clamp
<1>2. CASE items # <<>>
    <2> DEFINE last == Len(items) - 1
    <2>1. last \in Nat /\ Len(items) \in Nat
        BY <1>2 DEF Lists
    <2> HIDE DEF last
    <2>2. Min({i, last}) \in {i, last} /\ Min({i, last}) <= last
        <3>1. {i, last} \in SUBSET Nat /\ {i, last} # {} /\ last \in {i, last}
            BY <2>1
        <3> DEFINE T == {i, last}
        <3> HIDE DEF T
        <3>2. Min(T) \in T /\ Min(T) <= last
            BY <3>1, LeastNumber DEF T
        <3> QED BY <3>2 DEF T
    <2>3. clamp(i, items) = Min({i, last})
        BY <1>2 DEF clamp, last
    <2>4. clamp(i, items) \in Nat /\ clamp(i, items) <= last
        BY <2>1, <2>2, <2>3
    <2> QED BY <2>1, <2>4 DEF last
<1> QED BY <1>1, <1>2

(* What a click on the list means is an item of the catalog.                *)
LEMMA VisibleInRange ==
    ASSUME view \in Views, IndexesInRange, view.items # <<>>
    PROVE  visible_catalog_index \in Nat /\ visible_catalog_index < Len(view.items)
<1>1. view.filtered \in SUBSET Nat /\ view.selected \in Nat /\ view.items \in Lists
    BY DEF Views
<1>2. CASE view.rotate /\ view.filtered # {}
    <2>1. Min(view.filtered) \in view.filtered
        BY <1>1, <1>2, LeastNumber
    <2>2. visible_catalog_index = Min(view.filtered)
        BY <1>2 DEF visible_catalog_index
    <2> QED BY <1>1, <2>1, <2>2 DEF IndexesInRange
<1>3. CASE ~ (view.rotate /\ view.filtered # {})
    <2>1. visible_catalog_index = clamp(view.selected, view.items)
        BY <1>3 DEF visible_catalog_index
    <2> QED BY <1>1, <2>1, Clamped
<1> QED BY <1>2, <1>3

(* A result that is shown.                                                  *)
LEMMA AppliedType ==
    ASSUME NEW v \in Views, NEW r \in Answers
    PROVE  /\ applied(v, r) \in Views /\ InRange(applied(v, r))
           /\ applied(v, r).items = r.items
<1> DEFINE selected == IF r.selected # None /\ r.selected < Len(r.items)
                       THEN r.selected ELSE clamp(v.selected, r.items)
           w == [v EXCEPT !.items = r.items, !.selected = selected]
<1>1. r.items \in Lists /\ r.selected \in Nat \cup {None} /\ v.selected \in Nat
    BY DEF Answers, Views
<1>2. selected \in Nat /\ (r.items # <<>> => selected < Len(r.items))
    BY <1>1, Clamped
<1>3. applied(v, r) = rebuild_filter(w)
    BY DEF applied
<1> HIDE DEF selected
<1>4. w \in Views /\ w.items = r.items /\ w.selected = selected
    BY <1>1, <1>2 DEF Views
<1> HIDE DEF w
<1> QED BY <1>2, <1>3, <1>4, Rebuilt

(* A deletion.                                                              *)
LEMMA WithoutType ==
    ASSUME NEW v \in Views, NEW index \in Nat, index < Len(v.items)
    PROVE  LET w == without(v, index)
           IN  w \in Views /\ (w.items # <<>> => w.selected < Len(w.items))
<1> DEFINE fewer == RemoveAt(v.items, index + 1)
<1>1. fewer \in Lists
    <2> DEFINE s == v.items
    <2>1. s \in Seq(Entries) /\ Len(s) \in Nat /\ index + 1 \in 1..Len(s)
        BY ListsAre DEF Views
    <2> HIDE DEF s
    <2>2. SubSeq(s, 1, index) \in Seq(Entries) /\ SubSeq(s, index + 2, Len(s)) \in Seq(Entries)
        BY <2>1, SubSeqProperties
    <2>3. RemoveAt(s, index + 1) = SubSeq(s, 1, index) \o SubSeq(s, index + 2, Len(s))
        <3>1. (index + 1) - 1 = index /\ (index + 1) + 1 = index + 2
            OBVIOUS
        <3> QED BY <3>1 DEF RemoveAt
    <2>4. RemoveAt(s, index + 1) \in Seq(Entries)
        BY <2>2, <2>3, ConcatProperties
    <2> QED BY <2>4, ListsAre DEF s
<1> HIDE DEF fewer
<1>2. clamp(index, fewer) \in Nat /\ (fewer # <<>> => clamp(index, fewer) < Len(fewer))
    BY <1>1, Clamped
<1>3. without(v, index) = [v EXCEPT !.items = fewer, !.selected = clamp(index, fewer)]
    BY DEF without, fewer
<1> QED BY <1>1, <1>2, <1>3 DEF Views

-----------------------------------------------------------------------------
(* Steps that leave the catalog, its jobs and its window alone.             *)

CatalogPart == CatalogType /\ IndexesInRange /\ JobInv /\ SavedInv
EditorPart == EditorType /\ NewestApplied

Calm == UNCHANGED <<file, view, job, result, ready>>

LEMMA CalmKeeps ==
    ASSUME IInv, Calm, trace'.apart = trace.apart, trace'.overtaken = trace.overtaken,
           editor'.popup # "none" => ~ job.loading
    PROVE  CatalogPart'
<1>1. CatalogType' /\ IndexesInRange'
    BY DEF IInv, TypeInv, CatalogType, IndexesInRange, Calm
<1>2. JobInv' /\ SavedInv'
    BY DEF IInv, JobInv, SavedInv, Waiting, Calm
<1> QED BY <1>1, <1>2 DEF CatalogPart

(* The text of the editor changes: what was tokenized is forgotten.         *)
LEMMA ChangedType ==
    ASSUME NEW e \in Editors
    PROVE  /\ changed(e) \in Editors /\ changed(e).popup = e.popup
           /\ changed(e).tokenized = None
<1> DEFINE b == (e.sample # "")
<1>1. b \in BOOLEAN /\ e.revision + 1 \in Nat
    BY DEF Editors
<1>2. changed(e) = [e EXCEPT !.revision = e.revision + 1, !.tokenized = None, !.pending = b]
    BY DEF changed
<1> HIDE DEF b
<1> QED BY <1>1, <1>2 DEF Editors

(* The user opens a dialog.                                                 *)
LEMMA OpenKeeps ==
    ASSUME IInv, clicks' \in Nat,
           open_new_catalog_editor \/ open_selected_catalog_editor \/ AskDelete
               \/ open_sample_log_import
    PROVE  IInv'
<1>0. /\ editor \in Editors /\ view \in Views /\ trace \in Traces /\ ready \in BOOLEAN
      /\ IndexesInRange /\ NewestApplied /\ Len(view.items) \in Nat
    BY DEF IInv, TypeInv, CatalogType, EditorType, OtherType, Views, Lists
<1>1. ~ job.loading /\ Calm /\ UNCHANGED <<tok, worker, gen>> /\ ui' = "take"
    BY DEF open_new_catalog_editor, open_selected_catalog_editor, AskDelete,
           open_sample_log_import, CatalogButton, Calm
<1>2. trace' = trace
    BY DEF open_new_catalog_editor, open_selected_catalog_editor, AskDelete,
           open_sample_log_import
<1>3. editor' \in Editors /\ (editor'.tokenized = None \/
          (editor'.tokenized = editor.tokenized /\ editor'.sample = editor.sample))
    <2>1. CASE open_new_catalog_editor
        <3> DEFINE e == [editor EXCEPT !.popup = "edit", !.is_new = TRUE,
                                       !.index = Len(view.items), !.sample = ""]
        <3>1. editor' = changed(e)
            BY <2>1 DEF open_new_catalog_editor
        <3>2. "" \in Texts
            BY GuiAssumption
        <3>3. e \in Editors
            BY <1>0, <3>2 DEF Editors
        <3> HIDE DEF e
        <3> QED BY <3>1, <3>3, ChangedType
    <2>2. CASE open_selected_catalog_editor
        <3> DEFINE i == visible_catalog_index
                   x == view.items[i + 1].sample
                   e == [editor EXCEPT !.popup = "edit", !.is_new = FALSE, !.index = i, !.sample = x]
        <3>1. editor' = changed(e) /\ view.items # <<>>
            BY <2>2 DEF open_selected_catalog_editor
        <3>2. i \in Nat /\ i < Len(view.items)
            BY <1>0, <3>1, VisibleInRange
        <3> HIDE DEF i
        <3>3. i + 1 \in 1..Len(view.items) /\ view.items \in Seq(Entries)
            BY <1>0, <3>2, ListsAre DEF Views
        <3>4. view.items[i + 1] \in Entries
            BY <3>3
        <3>5. x \in Texts
            BY <3>4 DEF Entries
        <3> HIDE DEF x
        <3>6. e \in Editors
            BY <1>0, <3>2, <3>5 DEF Editors
        <3> HIDE DEF e
        <3> QED BY <3>1, <3>6, ChangedType
    <2>3. CASE AskDelete
        <3> DEFINE i == visible_catalog_index
        <3>1. editor' = [editor EXCEPT !.popup = "delete", !.delete = i] /\ i \in Nat
            BY <1>0, <2>3, VisibleInRange DEF AskDelete
        <3> HIDE DEF i
        <3> QED BY <1>0, <3>1 DEF Editors
    <2>4. CASE open_sample_log_import
        BY <1>0, <2>4 DEF open_sample_log_import, Editors
    <2> QED BY <2>1, <2>2, <2>3, <2>4
<1>4. CatalogPart'
    BY <1>1, <1>2, CalmKeeps
<1>5. EditorPart'
    BY <1>0, <1>1, <1>3 DEF IInv, TypeInv, EditorType, EditorPart, NewestApplied
<1>6. OtherType'
    BY <1>1, <1>2 DEF IInv, TypeInv, OtherType
<1> QED BY <1>4, <1>5, <1>6 DEF IInv, TypeInv, CatalogPart, EditorPart

(* Steps that change neither what is tokenized nor the text nor the dialog. *)
SameText == /\ editor'.tokenized = editor.tokenized /\ editor'.sample = editor.sample
            /\ editor'.popup \in {editor.popup, "none"}

LEMMA TextKeeps ==
    ASSUME IInv, Calm, SameText, EditorType', OtherType',
           trace'.apart = trace.apart, trace'.overtaken = trace.overtaken
    PROVE  IInv'
<1>1. editor'.popup # "none" => ~ job.loading
    BY DEF SameText, IInv, JobInv
<1>2. CatalogPart'
    BY <1>1, CalmKeeps
<1>3. EditorPart'
    BY DEF EditorPart, IInv, NewestApplied, SameText
<1> QED BY <1>2, <1>3 DEF IInv, TypeInv, CatalogPart, EditorPart

(* The rest of what the user does without the catalog, and the generator.   *)
LEMMA ButtonKeeps ==
    ASSUME IInv, clicks' \in Nat,
           start_test \/ request_stop \/ Cancel \/ SaveThrows \/ GeneratorEnds \/ Close \/ Join
               \/ Nothing \/ NotDue \/ EndFrame
    PROVE  IInv'
<1>0. /\ editor \in Editors /\ worker \in Workers /\ gen \in Generators /\ trace \in Traces
      /\ EditorType /\ OtherType
    BY DEF IInv, TypeInv, EditorType, OtherType
<1>1. Calm /\ UNCHANGED tok
    BY DEF start_test, request_stop, Cancel, SaveThrows, GeneratorEnds, Close, Join,
           Nothing, NotDue, EndFrame, Calm
<1>2. /\ editor' = editor \/ editor' = [editor EXCEPT !.popup = "none"]
      /\ worker' = worker \/ worker' = [worker EXCEPT !.at = IF @ = "asleep" THEN "wait" ELSE @]
    BY DEF start_test, request_stop, Cancel, SaveThrows, GeneratorEnds, Close, Join,
           Nothing, NotDue, EndFrame
<1>3. SameText /\ editor' \in Editors
    BY <1>0, <1>2 DEF SameText, Editors
<1>4. worker' \in Workers /\ (worker'.at = "work" => worker.at = "work" /\ worker'.work = worker.work)
    BY <1>0, <1>2 DEF Workers
<1>5. EditorType'
    BY <1>0, <1>1, <1>3, <1>4 DEF EditorType
<1>6. trace' = trace \/ \E b \in BOOLEAN : trace' = [trace EXCEPT !.error = b]
    BY DEF start_test, request_stop, Cancel, SaveThrows, GeneratorEnds, Close, Join,
           Nothing, NotDue, EndFrame
<1>7. trace' \in Traces /\ trace'.apart = trace.apart /\ trace'.overtaken = trace.overtaken
    BY <1>0, <1>6 DEF Traces
<1>8. gen' \in Generators
    BY <1>0 DEF start_test, request_stop, Cancel, SaveThrows, GeneratorEnds, Close, Join,
           Nothing, NotDue, EndFrame, Generators
<1>9. ui' \in {"frame", "select", "take", "lock", "queue", "flag", "popup", "join", "ended"}
    BY <1>0 DEF start_test, request_stop, Cancel, SaveThrows, GeneratorEnds, Close, Join,
           Nothing, NotDue, EndFrame, Frame, OtherType
<1>10. OtherType'
    BY <1>7, <1>8, <1>9 DEF OtherType
<1> QED BY <1>1, <1>3, <1>5, <1>7, <1>10, TextKeeps

-----------------------------------------------------------------------------
(* The editor and its tokenizer.                                            *)

LEMMA EditKeeps ==
    ASSUME IInv, clicks' \in Nat, Edit
    PROVE  IInv'
<1>0. /\ editor \in Editors /\ EditorType /\ OtherType
    BY DEF IInv, TypeInv, EditorType
<1>1. Calm /\ UNCHANGED <<tok, worker, gen, trace>> /\ ui' = "frame"
    BY DEF Edit, Calm, Frame
<1>2. PICK s \in Samples \cup {""} : editor' = changed([editor EXCEPT !.sample = s])
    BY DEF Edit
<1> DEFINE e == [editor EXCEPT !.sample = s]
<1>3. e \in Editors /\ e.popup = editor.popup
    <2>1. s \in Texts
        BY GuiAssumption
    <2> QED BY <1>0, <2>1 DEF Editors
<1> HIDE DEF e
<1>4. editor' = changed(e)
    BY <1>2 DEF e
<1>5. editor' \in Editors /\ editor'.popup = editor.popup /\ editor'.tokenized = None
    BY <1>3, <1>4, ChangedType
<1>6. CatalogPart'
    <2>1. editor'.popup # "none" => ~ job.loading
        BY <1>5 DEF IInv, JobInv
    <2> QED BY <1>1, <2>1, CalmKeeps
<1>7. EditorPart'
    BY <1>0, <1>1, <1>5 DEF EditorType, EditorPart, NewestApplied
<1>8. OtherType'
    BY <1>0, <1>1 DEF OtherType
<1> QED BY <1>6, <1>7, <1>8 DEF IInv, TypeInv, CatalogPart, EditorPart

(* An answer is applied only to the text that it was made from.             *)
LEMMA AnswerKeeps ==
    ASSUME IInv, clicks' \in Nat, apply_editor_tokenization_result
    PROVE  IInv'
<1>0. /\ editor \in Editors /\ tok \in Shared /\ trace \in Traces /\ EditorType /\ OtherType
    BY DEF IInv, TypeInv, EditorType, OtherType
<1>1. Calm /\ UNCHANGED <<worker, gen>> /\ ui' = "queue" /\ tok' = [tok EXCEPT !.result = None]
    BY DEF apply_editor_tokenization_result, Calm, Frame
<1>2. tok' \in Shared
    BY <1>0, <1>1 DEF Shared
<1> DEFINE r == tok.result
<1>3. CASE ~ is_newest(r)
    <2>1. editor' = editor /\ trace' = trace
        BY <1>3 DEF apply_editor_tokenization_result
    <2>2. EditorType' /\ OtherType' /\ SameText
        BY <1>0, <1>1, <1>2, <2>1 DEF EditorType, OtherType, SameText
    <2> QED BY <1>1, <2>1, <2>2, TextKeeps
<1>4. CASE is_newest(r)
    <2>1. r \in Replies /\ r.source = editor.sample
        BY <1>0, <1>4 DEF is_newest, Shared
    <2> HIDE DEF r
    <2>2. r.item \in Entries /\ r.item.sample = AsTokens[editor.sample] /\ r.ok \in BOOLEAN
        BY <2>1 DEF Replies
    <2>3. /\ editor' = [editor EXCEPT !.tokenized = IF r.ok THEN r.item ELSE @]
          /\ trace' = [trace EXCEPT !.error = @ \/ ~ r.ok]
        BY <1>4 DEF apply_editor_tokenization_result, r
    <2>4. /\ editor' \in Editors /\ editor'.popup = editor.popup /\ editor'.sample = editor.sample
          /\ editor'.tokenized \in {editor.tokenized, r.item}
        BY <1>0, <2>2, <2>3 DEF Editors
    <2>5. trace' \in Traces /\ trace'.apart = trace.apart /\ trace'.overtaken = trace.overtaken
        BY <1>0, <2>2, <2>3 DEF Traces
    <2>6. CatalogPart'
        <3>1. editor'.popup # "none" => ~ job.loading
            BY <2>4 DEF IInv, JobInv
        <3> QED BY <1>1, <2>5, <3>1, CalmKeeps
    <2>7. EditorPart'
        <3>1. EditorType'
            BY <1>0, <1>1, <1>2, <2>4 DEF EditorType
        <3>2. NewestApplied'
            BY <2>2, <2>4 DEF IInv, NewestApplied
        <3> QED BY <3>1, <3>2 DEF EditorPart
    <2>8. OtherType'
        BY <1>0, <1>1, <2>5 DEF OtherType
    <2> QED BY <2>6, <2>7, <2>8 DEF IInv, TypeInv, CatalogPart, EditorPart
<1> QED BY <1>3, <1>4

(* A request carries the item with the text of the editor.                  *)
LEMMA QueueKeeps ==
    ASSUME IInv, clicks' \in Nat, queue_editor_tokenization
    PROVE  IInv'
<1>0. /\ editor \in Editors /\ tok \in Shared /\ view \in Views /\ EditorType /\ OtherType
    BY DEF IInv, TypeInv, CatalogType, EditorType
<1> DEFINE base == IF ~ editor.is_new /\ editor.index < Len(view.items)
                   THEN view.items[editor.index + 1] ELSE Entry(Id(4, 0), "")
           item == [base EXCEPT !.sample = editor.sample]
           request == [revision |-> editor.revision, source |-> editor.sample, item |-> item]
<1>1. /\ Calm /\ UNCHANGED <<worker, gen, trace>> /\ ui' = "flag"
      /\ tok' = [tok EXCEPT !.request = request]
      /\ editor' = [editor EXCEPT !.pending = FALSE]
    BY DEF queue_editor_tokenization, Calm, Frame
<1>2. base \in Entries
    <2>1. CASE ~ editor.is_new /\ editor.index < Len(view.items)
        <3>1. editor.index + 1 \in 1..Len(view.items) /\ view.items \in Seq(Entries)
            BY <1>0, <2>1, ListsAre DEF Views, Editors, Lists
        <3>2. view.items[editor.index + 1] \in Entries
            BY <3>1
        <3> QED BY <2>1, <3>2
    <2>2. CASE ~ (~ editor.is_new /\ editor.index < Len(view.items))
        <3>1. "" \in Texts
            BY GuiAssumption
        <3>2. \A text \in Texts : Entry(Id(4, 0), text) \in Entries
            BY DEF Entry, Id, Entries
        <3> QED BY <2>2, <3>1, <3>2
    <2> QED BY <2>1, <2>2
<1> HIDE DEF base
<1>3. item \in Entries /\ item.sample = editor.sample
    BY <1>0, <1>2 DEF Entries, Editors
<1> HIDE DEF item
<1>4. request \in Requests
    BY <1>0, <1>3 DEF Requests, Editors
<1> HIDE DEF request
<1>5. tok' \in Shared /\ editor' \in Editors /\ SameText
    BY <1>0, <1>1, <1>4 DEF Shared, Editors, SameText
<1>6. EditorType' /\ OtherType'
    BY <1>0, <1>1, <1>5 DEF EditorType, OtherType
<1> QED BY <1>1, <1>5, <1>6, TextKeeps

(* The flags, and the thread of the tokenizer but for its answer.           *)
LEMMA TokenizerKeeps ==
    ASSUME IInv, clicks' \in Nat,
           TakeFlag \/ RaiseFlag \/ TokenizerWaits \/ TokenizerReady \/ TokenizerSettles
    PROVE  IInv'
<1>0. tok \in Shared /\ worker \in Workers /\ EditorType /\ OtherType
    BY DEF IInv, TypeInv, EditorType
<1>1. Calm /\ UNCHANGED <<editor, gen, trace>>
    BY DEF TakeFlag, RaiseFlag, TokenizerWaits, TokenizerReady, TokenizerSettles, Calm
<1>2. ui' \in {ui, "lock", "queue", "popup"}
    BY DEF TakeFlag, RaiseFlag, TokenizerWaits, TokenizerReady, TokenizerSettles, Frame
<1>3. tok' \in Shared /\ worker' \in Workers /\ (worker'.at = "work" => worker'.work # None)
    <2>1. CASE TakeFlag
        BY <1>0, <2>1 DEF TakeFlag, Shared, EditorType
    <2>2. CASE RaiseFlag
        BY <1>0, <2>2 DEF RaiseFlag, Shared, Workers, EditorType
    <2>3. CASE TokenizerWaits
        <3>1. CASE Stopping \/ tok.request = None
            <4>1. tok' = tok /\ \E a \in {"ended", "asleep"} : worker' = [worker EXCEPT !.at = a]
                BY <2>3, <3>1 DEF TokenizerWaits
            <4> QED BY <1>0, <4>1 DEF Workers
        <3>2. CASE ~ (Stopping \/ tok.request = None)
            <4>1. /\ tok' = [tok EXCEPT !.request = None] /\ tok.request # None
                  /\ worker' = [worker EXCEPT !.at = "work", !.work = tok.request]
                BY <2>3, <3>2 DEF TokenizerWaits
            <4>2. tok.request \in Requests \cup {None}
                BY <1>0 DEF Shared
            <4>3. tok' \in Shared
                BY <1>0, <4>1 DEF Shared
            <4> QED BY <1>0, <4>1, <4>2, <4>3 DEF Workers
        <3> QED BY <3>1, <3>2
    <2>4. CASE TokenizerReady
        BY <1>0, <2>4 DEF TokenizerReady, Shared, Workers
    <2>5. CASE TokenizerSettles
        <3>1. worker.newer \in BOOLEAN
            BY <1>0 DEF Workers
        <3> QED BY <1>0, <2>5, <3>1 DEF TokenizerSettles, Shared, Workers
    <2> QED BY <2>1, <2>2, <2>3, <2>4, <2>5
<1>4. EditorType' /\ OtherType' /\ SameText
    BY <1>0, <1>1, <1>2, <1>3 DEF EditorType, OtherType, SameText
<1> QED BY <1>1, <1>4, TextKeeps

(* The answer has the tokenized form of the text that it answers.           *)
LEMMA ReplyKeeps ==
    ASSUME IInv, clicks' \in Nat, TokenizerAnswers
    PROVE  IInv'
<1>0. /\ tok \in Shared /\ worker \in Workers /\ trace \in Traces /\ EditorType /\ OtherType
    BY DEF IInv, TypeInv, EditorType, OtherType
<1>1. Calm /\ UNCHANGED <<editor, ui, gen>>
    BY DEF TokenizerAnswers, Calm
<1>2. PICK ok \in BOOLEAN :
          /\ tok' = [tok EXCEPT !.result = [revision |-> worker.work.revision, ok |-> ok,
                       source |-> worker.work.source, item |-> tokenize(worker.work.item)]]
          /\ trace' = [trace EXCEPT !.faults = IF ok THEN @ ELSE @ + 1]
    BY DEF TokenizerAnswers
<1> DEFINE reply == [revision |-> worker.work.revision, ok |-> ok,
                     source |-> worker.work.source, item |-> tokenize(worker.work.item)]
<1>3. worker.work \in Requests
    BY <1>0 DEF TokenizerAnswers, EditorType, Workers
<1>4. reply \in Replies
    <2> DEFINE e == tokenize(worker.work.item)
    <2>1. worker.work.item \in Entries /\ worker.work.item.sample = worker.work.source
        BY <1>3 DEF Requests
    <2>2. e \in Entries /\ e.sample = AsTokens[worker.work.source]
        BY <2>1, TokenizedEntry
    <2> HIDE DEF e
    <2>3. reply = [revision |-> worker.work.revision, ok |-> ok,
                   source |-> worker.work.source, item |-> e]
        BY DEF e
    <2> HIDE DEF reply
    <2> QED BY <1>3, <2>2, <2>3 DEF Requests, Replies
<1> HIDE DEF reply
<1>5. tok' \in Shared
    BY <1>0, <1>2, <1>4 DEF Shared, reply
<1> DEFINE newer == tok.request # None
<1>6. worker' = [at |-> "ready", work |-> None, newer |-> newer] /\ newer \in BOOLEAN
    BY DEF TokenizerAnswers
<1> HIDE DEF newer
<1>7. worker' \in Workers /\ worker'.at # "work"
    BY <1>6 DEF Workers
<1>8. trace' \in Traces /\ trace'.apart = trace.apart /\ trace'.overtaken = trace.overtaken
    BY <1>0, <1>2 DEF Traces
<1>9. EditorType' /\ OtherType' /\ SameText
    BY <1>0, <1>1, <1>5, <1>7, <1>8 DEF EditorType, OtherType, SameText
<1> QED BY <1>1, <1>8, <1>9, TextKeeps

-----------------------------------------------------------------------------
(* The catalog thread.                                                      *)

(* A job ends with an answer.  What it says of the window and the file is
   asked for only while nothing has failed.                                 *)
LEMMA FinishedKeeps ==
    ASSUME IInv, clicks' \in Nat, job.at = "work", NEW answer \in Answers, NEW apart \in BOOLEAN,
           Finished(answer, apart), file' \in Lists,
           ~ apart =>
               /\ answer.ok
               /\ answer.replace => Agree(answer.items, file')
               /\ ~ answer.replace /\ ~ trace.overtaken => Agree(view.items, file')
    PROVE  IInv'
<1>0. /\ job \in Jobs /\ trace \in Traces /\ CatalogType /\ EditorType /\ OtherType
      /\ answer \in Answers /\ answer # None
    BY GuiAssumption DEF IInv, TypeInv, CatalogType, OtherType
<1>1. /\ result' = answer /\ job' = [job EXCEPT !.at = "ready"]
      /\ trace' = [trace EXCEPT !.apart = apart, !.faults = IF answer.ok THEN @ ELSE @ + 1]
      /\ UNCHANGED <<view, ready, editor, tok, worker, ui, gen>>
    BY DEF Finished
<1>2. job' \in Jobs /\ job'.at = "ready" /\ job'.loading = job.loading
    BY <1>0, <1>1 DEF Jobs
<1>3. trace' \in Traces /\ trace'.apart = apart /\ trace'.overtaken = trace.overtaken
    <2> DEFINE n == IF answer.ok THEN trace.faults ELSE trace.faults + 1
    <2>1. n \in Nat
        BY <1>0 DEF Traces
    <2>2. trace' = [trace EXCEPT !.apart = apart, !.faults = n]
        BY <1>1
    <2> HIDE DEF n
    <2> QED BY <1>0, <2>1, <2>2 DEF Traces
<1>4. CatalogType' /\ EditorType' /\ OtherType'
    BY <1>0, <1>1, <1>2, <1>3 DEF CatalogType, EditorType, OtherType
<1>5. IndexesInRange' /\ NewestApplied'
    BY <1>1 DEF IInv, IndexesInRange, NewestApplied
<1>6. JobInv'
    BY <1>1, <1>2, <1>3 DEF IInv, JobInv, Waiting
<1>7. SavedInv'
    BY <1>0, <1>1, <1>2, <1>3 DEF SavedInv, Agree
<1> QED BY <1>4, <1>5, <1>6, <1>7 DEF IInv, TypeInv

LEMMA AnswerType ==
    ASSUME NEW ok \in BOOLEAN, NEW replace \in BOOLEAN, NEW items \in Lists,
           NEW selected \in Nat \cup {None}
    PROVE  /\ Answer(ok, replace, items, selected) \in Answers
           /\ Answer(ok, replace, items, selected).ok = ok
           /\ Answer(ok, replace, items, selected).replace = replace
           /\ Answer(ok, replace, items, selected).items = items
BY DEF Answer, Answers

LEMMA LoadKeeps ==
    ASSUME IInv, clicks' \in Nat, RunLoad
    PROVE  IInv'
<1>0. file \in Lists /\ <<>> \in Lists /\ file' = file /\ job.at = "work"
    BY DEF IInv, TypeInv, CatalogType, RunLoad, Lists
<1>1. CASE Finished(Answer(TRUE, TRUE, tokenized(file), None), FALSE)
    <2> DEFINE shown == tokenized(file)
               answer == Answer(TRUE, TRUE, shown, None)
    <2>1. shown \in Lists /\ Agree(shown, file)
        BY <1>0, TokenizedType DEF Agree
    <2> HIDE DEF shown
    <2>2. answer \in Answers /\ answer.ok /\ answer.replace /\ answer.items = shown
        BY <2>1, AnswerType
    <2> HIDE DEF answer
    <2>3. Finished(answer, FALSE)
        BY <1>1 DEF answer, shown
    <2> QED BY <1>0, <2>1, <2>2, <2>3, FinishedKeeps
<1>2. CASE Finished(Answer(FALSE, TRUE, <<>>, None), TRUE)
    BY <1>0, <1>2, AnswerType, FinishedKeeps
<1> QED BY <1>1, <1>2 DEF RunLoad

LEMMA SaveKeeps ==
    ASSUME IInv, clicks' \in Nat, RunSave
    PROVE  IInv'
<1>0. /\ file \in Lists /\ <<>> \in Lists /\ job.items \in Lists
      /\ job.at = "work" /\ job.kind = "save"
    BY DEF IInv, TypeInv, CatalogType, RunSave, Lists, Jobs
<1>1. CASE file' = tokenized(job.items) /\ Finished(Answer(TRUE, FALSE, <<>>, None), FALSE)
    <2>1. ~ trace.overtaken => view.items = job.items
        BY <1>0 DEF IInv, JobInv
    <2>2. ~ trace.overtaken => Agree(view.items, file')
        BY <1>1, <2>1 DEF Agree
    <2>3. file' \in Lists
        BY <1>0, <1>1, TokenizedType
    <2> DEFINE answer == Answer(TRUE, FALSE, <<>>, None)
    <2>4. answer \in Answers /\ answer.ok /\ ~ answer.replace
        BY <1>0, AnswerType
    <2> HIDE DEF answer
    <2>5. Finished(answer, FALSE)
        BY <1>1 DEF answer
    <2> QED BY <1>0, <2>2, <2>3, <2>4, <2>5, FinishedKeeps
<1>2. CASE file' = file /\ Finished(Answer(FALSE, FALSE, <<>>, None), TRUE)
    BY <1>0, <1>2, AnswerType, FinishedKeeps
<1> QED BY <1>1, <1>2 DEF RunSave

LEMMA ImportKeeps ==
    ASSUME IInv, clicks' \in Nat, RunImport
    PROVE  IInv'
<1> DEFINE add(list, sample) == Append(list, tokenize(Entry(next_id(list), sample)))
           all == FoldLeft(add, job.items, Imported)
<1>0. /\ file \in Lists /\ <<>> \in Lists /\ job.items \in Lists /\ Len(job.items) \in Nat
      /\ job.at = "work"
    <2>1. job.at = "work"
        BY DEF RunImport
    <2> QED BY <2>1 DEF IInv, TypeInv, CatalogType, Lists, Jobs
<1>1. \/ validate_ids(job.items) /\ file' = tokenized(all)
         /\ Finished(Answer(TRUE, TRUE, all, Len(job.items)), FALSE)
      \/ file' = file /\ Finished(Answer(FALSE, TRUE, <<>>, None), TRUE)
    BY DEF RunImport
<1>2. CASE validate_ids(job.items) /\ file' = tokenized(all)
           /\ Finished(Answer(TRUE, TRUE, all, Len(job.items)), FALSE)
    <2>1. all = ImportFold(job.items, Imported)[DOMAIN Imported]
        BY ImportIs
    <2>2. job.items \in Seq(Counted) /\ Imported \in Seq(Texts)
        BY <1>0, <1>2, AvailableCounted, GuiAssumption
    <2>3. all \in Lists
        <3> HIDE DEF all
        <3> QED BY <2>1, <2>2, ImportType, CountedLists
    <2> HIDE DEF all
    <2>6. file' \in Lists /\ Agree(all, file')
        BY <1>2, <2>3, TokenizedType DEF Agree
    <2> DEFINE n == Len(job.items)
               answer == Answer(TRUE, TRUE, all, n)
    <2>4. answer \in Answers /\ answer.ok /\ answer.replace /\ answer.items = all
        <3>1. n \in Nat \cup {None}
            BY <1>0
        <3> HIDE DEF n
        <3> QED BY <2>3, <3>1, AnswerType
    <2> HIDE DEF answer
    <2>5. Finished(answer, FALSE)
        BY <1>2 DEF answer
    <2> QED BY <1>0, <2>4, <2>5, <2>6, FinishedKeeps
<1>3. CASE file' = file /\ Finished(Answer(FALSE, TRUE, <<>>, None), TRUE)
    BY <1>0, <1>3, AnswerType, FinishedKeeps
<1> HIDE DEF all
<1> QED BY <1>1, <1>2, <1>3

LEMMA JobEndKeeps ==
    ASSUME IInv, clicks' \in Nat, JobReady \/ JobDone
    PROVE  IInv'
<1>0. job \in Jobs /\ CatalogType /\ EditorType /\ OtherType /\ <<>> \in Lists
    BY DEF IInv, TypeInv, CatalogType, Lists
<1>1. UNCHANGED <<file, view, result, editor, tok, worker, ui, gen, trace>>
    BY DEF JobReady, JobDone
<1>2. IndexesInRange' /\ NewestApplied' /\ EditorType' /\ OtherType'
    BY <1>0, <1>1 DEF IInv, IndexesInRange, NewestApplied, EditorType, OtherType
<1>3. CASE JobReady
    <2>1. /\ ready' = TRUE /\ job.at = "ready" /\ job' \in Jobs
          /\ job'.at = "done" /\ job'.loading = job.loading
        BY <1>0, <1>3 DEF JobReady, Jobs
    <2>2. CatalogType'
        BY <1>0, <1>1, <2>1 DEF CatalogType
    <2>3. JobInv'
        BY <1>1, <2>1 DEF IInv, JobInv, Waiting
    <2>4. SavedInv'
        BY <1>1, <2>1 DEF IInv, SavedInv, Agree
    <2> QED BY <1>2, <2>2, <2>3, <2>4 DEF IInv, TypeInv
<1>4. CASE JobDone
    <2>1. /\ ready' = ready /\ job.at = "done" /\ job' \in Jobs
          /\ job'.at = "none" /\ job'.loading = FALSE
        BY <1>0, <1>4 DEF JobDone, NoJob, Jobs
    <2>2. CatalogType'
        BY <1>0, <1>1, <2>1 DEF CatalogType
    <2>3. JobInv'
        BY <1>1, <2>1 DEF IInv, JobInv, Waiting
    <2>4. SavedInv'
        BY <1>1, <2>1 DEF IInv, SavedInv, Agree
    <2> QED BY <1>2, <2>2, <2>3, <2>4 DEF IInv, TypeInv
<1> QED BY <1>3, <1>4

-----------------------------------------------------------------------------
(* The window takes what the catalog thread has brought.                    *)
LEMMA ApplyKeeps ==
    ASSUME IInv, clicks' \in Nat, apply_catalog_result
    PROVE  IInv'
<1>0. /\ view \in Views /\ trace \in Traces /\ gen \in Generators /\ result \in Answers \cup {None}
      /\ CatalogType /\ EditorType /\ OtherType /\ ready \in BOOLEAN
    BY DEF IInv, TypeInv, CatalogType, OtherType
<1>1. ready' = FALSE /\ UNCHANGED <<file, job, editor, tok, worker>> /\ ui' = "select"
    BY DEF apply_catalog_result, Frame
<1>2. gen' \in Generators
    BY <1>0 DEF apply_catalog_result, refresh_stats, Generators
<1>3. NewestApplied' /\ EditorType'
    BY <1>0, <1>1 DEF IInv, NewestApplied, EditorType
<1>4. CASE ready /\ result # None
    <2> DEFINE saving == job.kind = "save" /\ job.at = "work"
               o == IF result.ok /\ result.replace THEN saving ELSE trace.overtaken
               e == ~ result.ok
    <2>1. /\ view' = IF result.ok /\ result.replace THEN applied(view, result) ELSE view
          /\ result' = None /\ trace' = [trace EXCEPT !.error = e, !.overtaken = o]
        BY <1>4 DEF apply_catalog_result
    <2>2. result \in Answers /\ result.ok \in BOOLEAN
        BY <1>0, <1>4 DEF Answers
    <2>3. trace' \in Traces /\ trace'.apart = trace.apart /\ trace'.overtaken = o
        <3>1. o \in BOOLEAN /\ e \in BOOLEAN
            BY <1>0 DEF Traces
        <3> HIDE DEF o, e
        <3> QED BY <1>0, <2>1, <3>1 DEF Traces
    <2>4. view' \in Views /\ IndexesInRange'
        <3>1. CASE result.ok /\ result.replace
            <4>1. view' = applied(view, result)
                BY <2>1, <3>1
            <4>2. view' \in Views /\ InRange(view')
                BY <1>0, <2>2, <4>1, AppliedType
            <4> QED BY <4>2 DEF IndexesInRange, InRange
        <3>2. CASE ~ (result.ok /\ result.replace)
            BY <1>0, <2>1, <3>2 DEF IInv, IndexesInRange
        <3> QED BY <3>1, <3>2
    <2>5. view'.items = IF result.ok /\ result.replace THEN result.items ELSE view.items
        BY <1>0, <2>1, <2>2, AppliedType
    <2>6. CatalogType' /\ OtherType'
        BY <1>0, <1>1, <1>2, <2>1, <2>3, <2>4 DEF CatalogType, OtherType
    <2>7. JobInv'
        BY <1>1, <1>4, <2>1, <2>3, <2>5 DEF IInv, JobInv
    <2>8. SavedInv'
        <3>1. ~ trace.apart => (~ o => Agree(view'.items, file))
            BY <1>4, <2>5 DEF IInv, SavedInv
        <3> HIDE DEF o
        <3> QED BY <1>1, <2>1, <2>3, <3>1 DEF SavedInv
    <2> QED BY <1>3, <2>4, <2>6, <2>7, <2>8 DEF IInv, TypeInv
<1>5. CASE ~ (ready /\ result # None)
    <2>1. UNCHANGED <<view, result, trace>>
        BY <1>5 DEF apply_catalog_result
    <2>2. CatalogType' /\ OtherType' /\ IndexesInRange'
        BY <1>0, <1>1, <1>2, <2>1 DEF IInv, CatalogType, OtherType, IndexesInRange
    <2>3. JobInv'
        BY <1>1, <1>5, <2>1 DEF IInv, JobInv, Waiting
    <2>4. SavedInv'
        BY <1>1, <2>1 DEF IInv, SavedInv
    <2> QED BY <1>3, <2>2, <2>3, <2>4 DEF IInv, TypeInv
<1> QED BY <1>4, <1>5

-----------------------------------------------------------------------------
(* What the user asks of the catalog.                                       *)

(* A request while no job runs, with the items of the window, from a closed
   or closing dialog.                                                       *)
LEMMA RequestKeeps ==
    ASSUME IInv, clicks' \in Nat, NEW kind \in {"load", "save", "import"}, NEW items \in Lists,
           ~ job.loading, Request(kind, items),
           view' \in Views, IndexesInRange', kind = "save" => view'.items = items,
           editor' \in Editors, editor'.popup = "none", UNCHANGED <<file, tok, worker, gen>>,
           editor'.tokenized = editor.tokenized /\ editor'.sample = editor.sample,
           ui' \in {"take", "frame"}
    PROVE  IInv'
<1>0. /\ trace \in Traces /\ ready \in BOOLEAN /\ job \in Jobs
      /\ CatalogType /\ EditorType /\ OtherType /\ NewestApplied
    BY DEF IInv, TypeInv, CatalogType, OtherType
<1>1. /\ job' = Job(kind, items) /\ UNCHANGED <<result, ready>>
      /\ trace' = [trace EXCEPT !.overtaken = @ /\ kind # "save", !.apart = TRUE,
                                !.error = @ /\ kind # "import"]
    BY DEF Request
<1>2. /\ job' \in Jobs /\ job'.at = "work" /\ job'.loading /\ job'.kind = kind
      /\ job'.items = items
    BY <1>1 DEF Job, Jobs
<1>3. /\ trace' \in Traces /\ trace'.apart
    <2> DEFINE o == trace.overtaken /\ kind # "save"
               e == trace.error /\ kind # "import"
    <2>1. o \in BOOLEAN /\ e \in BOOLEAN
        OBVIOUS
    <2>2. trace' = [trace EXCEPT !.overtaken = o, !.apart = TRUE, !.error = e]
        BY <1>1
    <2> HIDE DEF o, e
    <2> QED BY <1>0, <2>1, <2>2 DEF Traces
<1>4. CatalogType'
    BY <1>0, <1>1, <1>2 DEF CatalogType
<1>5. EditorType' /\ NewestApplied'
    BY <1>0 DEF EditorType, NewestApplied
<1>6. OtherType'
    BY <1>0, <1>3 DEF OtherType
<1>7. JobInv'
    BY <1>1, <1>2, <1>3 DEF IInv, JobInv, Waiting
<1>8. SavedInv'
    BY <1>3 DEF SavedInv
<1> QED BY <1>4, <1>5, <1>6, <1>7, <1>8 DEF IInv, TypeInv

LEMMA RefreshKeeps ==
    ASSUME IInv, clicks' \in Nat, Refresh \/ ConfirmImport
    PROVE  IInv'
<1>0. /\ editor \in Editors /\ view \in Views /\ view.items \in Lists /\ <<>> \in Lists
      /\ IndexesInRange
    BY DEF IInv, TypeInv, CatalogType, EditorType, Views, Lists
<1>1. CASE Refresh
    <2>1. /\ ~ job.loading /\ editor.popup = "none" /\ Request("load", <<>>) /\ ui' = "take"
          /\ UNCHANGED <<file, view, editor, tok, worker, gen>>
        BY <1>1 DEF Refresh, CatalogButton, Configuring
    <2>2. IndexesInRange' /\ view' \in Views /\ editor' \in Editors /\ editor'.popup = "none"
        BY <1>0, <2>1 DEF IndexesInRange
    <2> QED BY <1>0, <2>1, <2>2, RequestKeeps
<1>2. CASE ConfirmImport
    <2>1. /\ ~ job.loading /\ Request("import", view.items) /\ ui' = "frame"
          /\ editor' = [editor EXCEPT !.popup = "none"]
          /\ UNCHANGED <<file, view, tok, worker, gen>>
        BY <1>2 DEF ConfirmImport, Frame
    <2>2. IndexesInRange' /\ view' \in Views
        BY <1>0, <2>1 DEF IndexesInRange
    <2>3. /\ editor' \in Editors /\ editor'.popup = "none"
          /\ editor'.tokenized = editor.tokenized /\ editor'.sample = editor.sample
        BY <1>0, <2>1 DEF Editors
    <2> QED BY <1>0, <2>1, <2>2, <2>3, RequestKeeps
<1> QED BY <1>1, <1>2

(* The items of the window are changed and handed to a save.                *)
LEMMA SavingKeeps ==
    ASSUME IInv, clicks' \in Nat, NEW v \in Views, v.items # <<>> => v.selected < Len(v.items),
           Saving(v), editor.popup # "none", UNCHANGED <<file, tok, worker, gen>>, ui' = "frame"
    PROVE  IInv'
<1>0. editor \in Editors /\ ~ job.loading /\ v.items \in Lists
    BY DEF IInv, TypeInv, EditorType, JobInv, Views
<1>1. /\ view' = rebuild_filter(v) /\ Request("save", v.items)
      /\ editor' = [editor EXCEPT !.popup = "none"]
    BY DEF Saving
<1>2. view' \in Views /\ InRange(view') /\ view'.items = v.items
    BY <1>1, Rebuilt
<1>3. IndexesInRange'
    BY <1>2 DEF IndexesInRange, InRange
<1>4. /\ editor' \in Editors /\ editor'.popup = "none"
      /\ editor'.tokenized = editor.tokenized /\ editor'.sample = editor.sample
    BY <1>0, <1>1 DEF Editors
<1> QED BY <1>0, <1>1, <1>2, <1>3, <1>4, RequestKeeps

LEMMA EditorSaveKeeps ==
    ASSUME IInv, clicks' \in Nat, save_catalog_editor
    PROVE  IInv'
<1>0. /\ editor \in Editors /\ view \in Views /\ view.items \in Seq(Entries)
      /\ view.items \in Lists /\ Len(view.items) \in Nat
      /\ view.items # <<>> => view.selected < Len(view.items)
    BY ListsAre DEF IInv, TypeInv, CatalogType, EditorType, Views, IndexesInRange
<1>1. /\ editor.popup = "edit" /\ UNCHANGED <<file, tok, worker, gen>> /\ ui' = "frame"
      /\ editor.tokenized # None
    BY DEF save_catalog_editor, SaveEnabled, Frame
<1>2. editor.tokenized \in Entries
    BY <1>0, <1>1 DEF Editors
<1>3. CASE /\ id_available(view.items)
           /\ Saving([view EXCEPT
                !.items = Append(@, [editor.tokenized EXCEPT !.id = next_id(view.items)]),
                !.selected = Len(view.items)])
    <2> DEFINE e == [editor.tokenized EXCEPT !.id = next_id(view.items)]
               more == Append(view.items, e)
               w == [view EXCEPT !.items = more, !.selected = Len(view.items)]
    <2>1. e \in Entries
        <3> DEFINE id == next_id(view.items)
        <3>1. view.items \in Seq(Counted)
            BY <1>0, <1>3, AvailableCounted DEF id_available
        <3>2. Entry(id, editor.tokenized.sample) \in Counted
            BY <1>2, <3>1, NewEntry DEF Entries
        <3> HIDE DEF id
        <3>3. id \in [zeros : Nat, value : Int]
            BY <3>2 DEF Entry, Counted
        <3> QED BY <1>2, <3>3 DEF Entries, id
    <2> HIDE DEF e
    <2>2. more \in Seq(Entries) /\ Len(more) = Len(view.items) + 1
        BY <1>0, <2>1
    <2> HIDE DEF more
    <2>3. more \in Lists
        BY <2>2, ListsAre
    <2>4. w \in Views /\ w.items = more /\ w.selected = Len(view.items)
        BY <1>0, <2>3 DEF Views
    <2>5. w.selected < Len(w.items)
        BY <1>0, <2>2, <2>4
    <2>6. Saving(w)
        BY <1>3 DEF more, e
    <2> HIDE DEF w
    <2> QED BY <1>1, <2>4, <2>5, <2>6, SavingKeeps
<1>4. CASE /\ editor.index < Len(view.items)
           /\ Saving([view EXCEPT !.items[editor.index + 1] = editor.tokenized,
                                  !.selected = editor.index])
    <2> DEFINE i == editor.index + 1
               list == [view.items EXCEPT ![i] = editor.tokenized]
               w == [view EXCEPT !.items = list, !.selected = editor.index]
    <2>1. editor.index \in Nat /\ i \in 1..Len(view.items)
        BY <1>0, <1>4 DEF Editors
    <2> HIDE DEF i
    <2>2. list \in Seq(Entries) /\ Len(list) = Len(view.items)
        <3> DEFINE s == view.items
                   x == editor.tokenized
        <3>1. s \in Seq(Entries) /\ x \in Entries /\ i \in 1..Len(s)
            BY <1>0, <1>2, <2>1
        <3> HIDE DEF s, x
        <3>2. [s EXCEPT ![i] = x] \in Seq(Entries) /\ Len([s EXCEPT ![i] = x]) = Len(s)
            BY <3>1, ExceptSeq
        <3> QED BY <3>2 DEF s, x
    <2> HIDE DEF list
    <2>3. list \in Lists
        BY <2>2, ListsAre
    <2>4. w \in Views /\ w.items = list /\ w.selected = editor.index
        BY <1>0, <2>1, <2>3 DEF Views
    <2>5. w.selected < Len(w.items)
        BY <1>4, <2>2, <2>4
    <2>6. Saving(w)
        <3>1. w = [view EXCEPT !.items[editor.index + 1] = editor.tokenized,
                               !.selected = editor.index]
            BY DEF list, i
        <3> HIDE DEF w
        <3> QED BY <1>4, <3>1
    <2> HIDE DEF w
    <2> QED BY <1>1, <2>4, <2>5, <2>6, SavingKeeps
<1>5. CASE Saving(view)
    BY <1>0, <1>1, <1>5, SavingKeeps
<1> QED BY <1>3, <1>4, <1>5 DEF save_catalog_editor

LEMMA DeleteKeeps ==
    ASSUME IInv, clicks' \in Nat, delete_selected_catalog_item
    PROVE  IInv'
<1>0. /\ editor \in Editors /\ view \in Views /\ editor.delete \in Nat
      /\ EditorType /\ OtherType
    BY DEF IInv, TypeInv, CatalogType, EditorType, Editors
<1>1. editor.popup = "delete" /\ UNCHANGED <<file, tok, worker, gen>> /\ ui' = "frame"
    BY DEF delete_selected_catalog_item, Frame
<1>2. CASE editor.delete < Len(view.items)
    <2> DEFINE w == without(view, editor.delete)
    <2>1. Saving(w)
        BY <1>2 DEF delete_selected_catalog_item
    <2>2. w \in Views /\ (w.items # <<>> => w.selected < Len(w.items))
        BY <1>0, <1>2, WithoutType
    <2> HIDE DEF w
    <2> QED BY <1>1, <2>1, <2>2, SavingKeeps
<1>3. CASE ~ (editor.delete < Len(view.items))
    <2>1. Calm /\ editor' = [editor EXCEPT !.popup = "none"] /\ trace' = trace
        BY <1>1, <1>3 DEF delete_selected_catalog_item, Calm
    <2>2. editor' \in Editors /\ SameText
        BY <1>0, <2>1 DEF Editors, SameText
    <2>3. EditorType' /\ OtherType'
        BY <1>0, <1>1, <2>1, <2>2 DEF EditorType, OtherType
    <2> QED BY <2>1, <2>2, <2>3, TextKeeps
<1> QED BY <1>2, <1>3

(* The search, the rotation and the list.                                   *)
LEMMA SelectKeeps ==
    ASSUME IInv, clicks' \in Nat, Select
    PROVE  IInv'
<1>0. /\ view \in Views /\ CatalogType /\ EditorType /\ OtherType
      /\ IndexesInRange /\ NewestApplied
      /\ view.items # <<>> => view.selected < Len(view.items)
    BY DEF IInv, TypeInv, CatalogType, IndexesInRange
<1>1. UNCHANGED <<file, job, result, ready, editor, tok, worker, gen, trace>> /\ ui' = "take"
    BY DEF Select
<1>2. view' \in Views /\ IndexesInRange' /\ view'.items = view.items
    <2>1. ASSUME NEW q \in Queries, view' = rebuild_filter([view EXCEPT !.query = q])
          PROVE  view' \in Views /\ IndexesInRange' /\ view'.items = view.items
        <3> DEFINE w == [view EXCEPT !.query = q]
        <3>1. w \in Views /\ w.items = view.items /\ w.selected = view.selected
            BY <1>0 DEF Views
        <3> HIDE DEF w
        <3>2. view' = rebuild_filter(w)
            BY <2>1 DEF w
        <3>3. view' \in Views /\ InRange(view') /\ view'.items = w.items
            BY <1>0, <3>1, <3>2, Rebuilt
        <3> QED BY <3>1, <3>3 DEF IndexesInRange, InRange
    <2>2. CASE view' = [view EXCEPT !.rotate = ~ @]
        <3>1. /\ view' \in Views /\ view'.items = view.items
              /\ view'.selected = view.selected /\ view'.filtered = view.filtered
            BY <1>0, <2>2 DEF Views
        <3> QED BY <1>0, <3>1 DEF IndexesInRange
    <2>3. ASSUME NEW i \in view.filtered, view' = [view EXCEPT !.selected = i]
          PROVE  view' \in Views /\ IndexesInRange' /\ view'.items = view.items
        <3>1. /\ view' \in Views /\ view'.items = view.items
              /\ view'.selected = i /\ view'.filtered = view.filtered
            BY <1>0, <2>3 DEF Views
        <3> QED BY <1>0, <3>1 DEF IndexesInRange
    <2> QED BY <2>1, <2>2, <2>3 DEF Select
<1>3. CatalogType' /\ EditorType' /\ OtherType' /\ NewestApplied'
    BY <1>0, <1>1, <1>2 DEF CatalogType, EditorType, OtherType, NewestApplied
<1>4. JobInv' /\ SavedInv'
    BY <1>1, <1>2 DEF IInv, JobInv, SavedInv, Waiting
<1> QED BY <1>2, <1>3, <1>4 DEF IInv, TypeInv

-----------------------------------------------------------------------------
(* The invariant holds at first and after every step.                       *)
THEOREM Inductive == Spec => []IInv
<1>1. Init => IInv
    <2> SUFFICES ASSUME Init PROVE IInv
        OBVIOUS
    <2>1. "" \in Texts /\ "" \in Queries /\ <<>> \in Lists /\ file \in Lists
        <3>1. file \in Contents
            BY DEF Init
        <3>2. <<>> \in Lists
            BY DEF Lists
        <3> QED BY <3>1, <3>2, GuiAssumption
    <2>2. view \in Views /\ job \in Jobs /\ job.at = "work" /\ job.loading /\ job.kind = "load"
        BY <2>1 DEF Init, Views, Job, Jobs
    <2>3. editor \in Editors /\ editor.popup = "none" /\ editor.tokenized = None
        BY <2>1 DEF Init, Editors
    <2>4. tok \in Shared /\ worker \in Workers /\ worker.at = "wait"
        BY DEF Init, Shared, Workers
    <2>5. gen \in Generators /\ trace \in Traces /\ trace.apart /\ ~ ready /\ result = None
        BY DEF Init, Generators, Traces
    <2>6. TypeInv
        BY <2>1, <2>2, <2>3, <2>4, <2>5 DEF Init, TypeInv, CatalogType, EditorType, OtherType
    <2>7. IndexesInRange
        BY DEF Init, IndexesInRange
    <2> QED BY <2>2, <2>3, <2>5, <2>6, <2>7 DEF IInv, NewestApplied, JobInv, SavedInv
<1>2. IInv /\ [Next]_vars => IInv'
    <2> SUFFICES ASSUME IInv, [Next]_vars PROVE IInv'
        OBVIOUS
    <2>0. clicks \in Nat
        BY DEF IInv, TypeInv, OtherType
    <2>1. CASE UNCHANGED vars
        <3>1. Calm /\ UNCHANGED <<editor, tok, worker, ui, gen, trace, clicks>>
            BY <2>1 DEF vars, Calm
        <3>2. EditorType' /\ OtherType' /\ SameText
            BY <3>1 DEF IInv, TypeInv, EditorType, OtherType, SameText
        <3> QED BY <3>1, <3>2, TextKeeps
    <2>2. CASE User
        <3>1. clicks' \in Nat
            BY <2>0, <2>2 DEF User
        <3>2. CASE Click
            BY <3>1, <3>2, RefreshKeeps, OpenKeeps, SelectKeeps, ButtonKeeps DEF Click
        <3>3. CASE Dialog
            BY <3>1, <3>3, EditKeeps, ButtonKeeps, EditorSaveKeeps, DeleteKeeps, RefreshKeeps
               DEF Dialog
        <3> QED BY <2>2, <3>2, <3>3 DEF User
    <2>3. CASE (FrameStep \/ Close \/ CatalogThread \/ Tokenizer \/ GeneratorEnds)
               /\ UNCHANGED clicks
        <3>1. clicks' \in Nat
            BY <2>0, <2>3
        <3>2. CASE FrameStep
            BY <3>1, <3>2, ApplyKeeps, ButtonKeeps, TokenizerKeeps, AnswerKeeps, QueueKeeps
               DEF FrameStep
        <3>3. CASE CatalogThread
            BY <3>1, <3>3, LoadKeeps, SaveKeeps, ImportKeeps, JobEndKeeps DEF CatalogThread
        <3>4. CASE Tokenizer
            BY <3>1, <3>4, TokenizerKeeps, ReplyKeeps DEF Tokenizer
        <3>5. CASE Close \/ GeneratorEnds
            BY <3>1, <3>5, ButtonKeeps
        <3> QED BY <2>3, <3>2, <3>3, <3>4, <3>5
    <2> QED BY <2>1, <2>2, <2>3 DEF Next
<1> QED BY <1>1, <1>2, PTL DEF Spec

(* No reload, deletion, import or search leaves an index of the window beyond
   the catalog (app.cpp: the selection, the matches, the rotation).          *)
THEOREM IndexesCorrect == Spec => []IndexesInRange
<1>1. IInv => IndexesInRange
    BY DEF IInv
<1> QED BY <1>1, Inductive, PTL

(* The editor saves the tokenized form of the text that it shows
   (apply_editor_tokenization_result compares the revision and the text).    *)
THEOREM NewestCorrect == Spec => []NewestApplied
<1>1. IInv => NewestApplied
    BY DEF IInv
<1> QED BY <1>1, Inductive, PTL

(* When the catalog thread is idle, the last job did not fail and the last
   save was not overtaken by a result, the window and the file hold the same
   logs but for tokenizing (request_catalog_load, _save, sample log import). *)
THEOREM SavedCorrect == Spec => []ShownIsSaved
<1>1. IInv => ShownIsSaved
    BY DEF IInv, JobInv, SavedInv, ShownIsSaved, Quiet, Waiting
<1> QED BY <1>1, Inductive, PTL
=============================================================================
