---------------------------- MODULE CatalogProofs ----------------------------
(***************************************************************************)
(* Catalog for any programs, any numbers of faults, saves and attempts, any *)
(* first contents of the file and any imported texts: the file implements   *)
(* the atomic catalog, the ids that the programs make up stay apart, only   *)
(* faults leave temporary files, and parse_csv reads back any table that    *)
(* was written by the quoting rules.  The last is the longer half: a text   *)
(* is read from one state of the reader to another, a character, a cell, a  *)
(* row and a line at a time, and parse_csv is where the whole of it ends.   *)
(***************************************************************************)
EXTENDS Catalog, SequenceTheorems, FiniteSetTheorems, WellFoundedInduction, TLAPS

-----------------------------------------------------------------------------
(* Natural numbers.                                                         *)

(* A set of natural numbers has a least one.                                *)
LEMMA LeastNatural ==
    ASSUME NEW T \in SUBSET Nat, T # {}
    PROVE  \E m \in T : \A k \in T : m <= k
<1>1. PICK m \in T : \A k \in T : ~(<<k, m>> \in OpToRel(<, Nat))
    BY NatLessThanWellFounded, WFMin
<1>2. \A k \in T : ~(k < m)
    BY <1>1 DEF OpToRel
<1> QED BY <1>2

(* A bounded one has a largest, which is Max.                               *)
LEMMA LargestNatural ==
    ASSUME NEW T \in SUBSET Nat, T # {}, NEW bound \in Nat, \A k \in T : k <= bound
    PROVE  Max(T) \in T /\ \A k \in T : k <= Max(T)
<1> DEFINE gaps == {bound - k : k \in T}
<1>0. \A k \in T : k \in Nat /\ bound - k \in Nat
    OBVIOUS
<1>1. gaps \in SUBSET Nat /\ gaps # {}
    BY <1>0
<1>2. PICK g \in gaps : \A h \in gaps : g <= h
    <2> HIDE DEF gaps
    <2> QED BY <1>1, LeastNatural
<1>3. PICK m \in T : g = bound - m
    OBVIOUS
<1>4. ASSUME NEW k \in T
      PROVE  m >= k
    <2>1. g <= bound - k
        BY <1>2
    <2> QED BY <1>0, <1>3, <2>1
<1> QED BY <1>3, <1>4 DEF Max

-----------------------------------------------------------------------------
(* Ids.                                                                     *)

(* While an id is available, none of the list is beyond the largest.         *)
LEMMA LargestId ==
    ASSUME NEW list \in Seq(Item), id_available(list)
    PROVE  /\ largest_id(list) \in Nat
           /\ \A i \in DOMAIN list : list[i].id.value <= largest_id(list)
<1> DEFINE values == {0} \cup {list[i].id.value : i \in DOMAIN list}
<1>1. values \in SUBSET Nat /\ values # {} /\ \A k \in values : k <= MaxId
    <2>1. \A i \in DOMAIN list : list[i] \in Item
        OBVIOUS
    <2>2. \A i \in DOMAIN list : list[i].id.value \in Nat /\ list[i].id.value <= MaxId
        BY <2>1, MaxIdAssumption DEF id_available, validate_ids, valid_sample_id, Item
    <2> QED BY <2>2, MaxIdAssumption
<1>2. Max(values) \in values /\ \A k \in values : k <= Max(values)
    <2> HIDE DEF values
    <2> QED BY <1>1, MaxIdAssumption, LargestNatural
<1> QED BY <1>1, <1>2 DEF largest_id

(* An id of the code's own making is a valid one.                           *)
LEMMA PaddedId ==
    ASSUME NEW value \in Nat
    PROVE  /\ [id |-> padded(value)] \in Item /\ padded(value).value = value
           /\ valid_sample_id(padded(value))
BY DEF padded, Id, Item, valid_sample_id

(* An added item keeps a catalog valid.                                     *)
LEMMA AddedId ==
    ASSUME NEW list \in Seq(Item), id_available(list)
    PROVE  LET more == Append(list, [id |-> next_id(list)])
           IN  more \in Seq(Item) /\ validate_ids(more)
<1> DEFINE new == [id |-> next_id(list)]
           more == Append(list, new)
<1>1. /\ largest_id(list) \in Nat
      /\ \A i \in DOMAIN list : list[i].id.value <= largest_id(list)
    BY LargestId
<1>2. new \in Item /\ new.id.value = largest_id(list) + 1 /\ valid_sample_id(new.id)
    BY <1>1, PaddedId DEF next_id
<1> HIDE DEF new
<1>3. /\ more \in Seq(Item) /\ DOMAIN more = 1..(Len(list) + 1)
      /\ more[Len(list) + 1] = new
      /\ \A i \in 1..Len(list) : more[i] = list[i] /\ i \in DOMAIN list
    BY <1>2
<1>4. validate_ids(list)
    BY DEF id_available
<1> HIDE DEF more
<1>5. \A i \in DOMAIN more : valid_sample_id(more[i].id)
    BY <1>2, <1>3, <1>4 DEF validate_ids
<1>6. ASSUME NEW i \in DOMAIN more, NEW j \in DOMAIN more, more[i].id = more[j].id
      PROVE  i = j
    <2>0. Len(list) \in Nat /\ \A k \in DOMAIN list : list[k].id.value \in Int
        <3>1. \A k \in DOMAIN list : list[k] \in Item
            OBVIOUS
        <3> QED BY <3>1 DEF Item
    <2>1. CASE i \in 1..Len(list) /\ j \in 1..Len(list)
        BY <1>3, <1>4, <1>6, <2>1 DEF validate_ids
    <2>2. CASE i \in 1..Len(list) /\ j = Len(list) + 1
        BY <1>1, <1>2, <1>3, <1>6, <2>0, <2>2
    <2>3. CASE i = Len(list) + 1 /\ j \in 1..Len(list)
        BY <1>1, <1>2, <1>3, <1>6, <2>0, <2>3
    <2> QED BY <1>3, <2>0, <2>1, <2>2, <2>3
<1>7. validate_ids(more)
    BY <1>5, <1>6 DEF validate_ids
<1> QED BY <1>3, <1>7 DEF more, new

(* So does a deletion.                                                      *)
LEMMA RemovedId ==
    ASSUME NEW list \in Seq(Item), validate_ids(list), NEW i \in DOMAIN list
    PROVE  RemoveAt(list, i) \in Seq(Item) /\ validate_ids(RemoveAt(list, i))
<1> DEFINE fewer == RemoveAt(list, i)
           from(k) == IF k < i THEN k ELSE k + 1
<1>1. /\ fewer \in Seq(Item) /\ DOMAIN fewer = 1..(Len(list) - 1)
      /\ \A k \in DOMAIN fewer : fewer[k] = list[from(k)] /\ from(k) \in DOMAIN list
    <2>1. i \in 1..Len(list) /\ Len(list) \in Nat
        OBVIOUS
    <2> DEFINE low == SubSeq(list, 1, i - 1)
               high == SubSeq(list, i + 1, Len(list))
    <2>2. /\ low \in Seq(Item) /\ Len(low) = i - 1
          /\ \A k \in 1..(i - 1) : low[k] = list[k]
        BY <2>1
    <2>3. /\ high \in Seq(Item) /\ Len(high) = Len(list) - i
          /\ \A k \in 1..(Len(list) - i) : high[k] = list[i + k]
        BY <2>1
    <2>4. fewer = low \o high
        BY DEF RemoveAt
    <2> HIDE DEF low, high, fewer
    <2>5. fewer \in Seq(Item) /\ DOMAIN fewer = 1..(Len(list) - 1)
        BY <2>1, <2>2, <2>3, <2>4
    <2>6. ASSUME NEW k \in DOMAIN fewer
          PROVE  fewer[k] = list[from(k)] /\ from(k) \in DOMAIN list
        <3>1. CASE k < i
            BY <2>1, <2>2, <2>3, <2>4, <2>5, <3>1
        <3>2. CASE k >= i
            <4>0. k \in 1..(Len(low) + Len(high)) /\ ~(k <= Len(low))
                BY <2>1, <2>2, <2>3, <2>5, <3>2
            <4>1. fewer[k] = high[k - (i - 1)] /\ k - (i - 1) \in 1..(Len(list) - i)
                <5>1. fewer[k] = high[k - Len(low)]
                    BY <2>2, <2>3, <2>4, <4>0, ConcatProperties
                <5>2. k \in Nat /\ i \in Nat /\ i <= k /\ k <= Len(list) - 1
                    BY <2>1, <2>5, <3>2
                <5> QED BY <2>1, <2>2, <5>1, <5>2
            <4>2. high[k - (i - 1)] = list[i + (k - (i - 1))] /\ i + (k - (i - 1)) = k + 1
                BY <2>1, <2>3, <2>5, <4>1
            <4> QED BY <2>1, <2>5, <3>2, <4>1, <4>2
        <3> QED BY <2>1, <2>5, <3>1, <3>2
    <2> QED BY <2>5, <2>6
<1> HIDE DEF fewer
<1>2. \A k, l \in DOMAIN fewer : from(k) = from(l) => k = l
    BY <1>1
<1> HIDE DEF from
<1>3. validate_ids(fewer)
    BY <1>1, <1>2 DEF validate_ids
<1> QED BY <1>1, <1>3 DEF fewer

(* An import yields a list of items, or None.                               *)
LEMMA ImportedType ==
    ASSUME NEW samples \in Seq(Seq(STRING)), NEW list \in Seq(Item),
           import_file(samples, list) # None
    PROVE  import_file(samples, list) \in Seq(Item)
<1> DEFINE added == [i \in DOMAIN samples |-> [id |-> padded(largest_id(list) + i)]]
<1>1. id_available(list) /\ import_file(samples, list) = list \o added
    BY DEF import_file
<1>2. Len(samples) \in Nat /\ DOMAIN samples = 1..Len(samples)
    OBVIOUS
<1>3. \A i \in 1..Len(samples) : [id |-> padded(largest_id(list) + i)] \in Item
    BY <1>1, <1>2, LargestId, PaddedId
<1>4. added \in [1..Len(samples) -> Item]
    BY <1>2, <1>3
<1>5. added \in Seq(Item)
    BY <1>2, <1>4, SeqDef
<1> HIDE DEF added
<1> QED BY <1>1, <1>5

-----------------------------------------------------------------------------
(* The invariant.                                                           *)

Places == {"off", "check", "copy", "copying", "publish", "unseed", "unseed_failed",
           "idle", "failed", "save", "write", "replace", "discard"}
Saving == {"save", "write", "replace", "discard"}

Content == Seq(Item) \cup {None, Broken}
Temp == [kind : {"seed", "tmp", "stale"}, owner : Process, seq : Nat, data : Content]

TypeInv ==
    /\ catalog \in Content /\ temps \subseteq Temp
    /\ pc \in [Process -> Places]
    /\ items \in [Process -> Seq(Item) \cup {None}]
    /\ wanted \in [Process -> Seq(Item) \cup {None}]
    /\ sequence \in [Process -> Nat] /\ faults \in Nat

(* What a save is about to put in the catalog's place has been checked.     *)
WantedInv ==
    \A p \in Process :
        /\ pc[p] \in Saving <=> wanted[p] # None
        /\ pc[p] \in Saving \ {"save"} => validate_ids(wanted[p])

(* A temporary file that is about to get the catalog's name is whole.       *)
TempInv ==
    \A p \in Process :
        /\ pc[p] = "publish" => Seed(p) # {} /\ \A t \in Seed(p) : t.data = Bundled
        /\ pc[p] = "replace" => Tmp(p) # {} /\ \A t \in Tmp(p) : t.data = wanted[p]

IInv == TypeInv /\ WantedInv /\ TempInv /\ EditsKeepIdsApart

(* The steps of one program; those of an edit have a lemma of their own.    *)
Step(p) ==
    \/ Launch(p) \/ Initialise(p) \/ Load(p)
    \/ AddItem(p) \/ DeleteItem(p) \/ Import(p)
    \/ SaveStep(p) \/ Crash(p)

(* An edit hands a list of items to a save, or none.                        *)
LEMMA EditSteps ==
    ASSUME IInv, NEW p \in Process, AddItem(p) \/ DeleteItem(p) \/ Import(p)
    PROVE  /\ UNCHANGED <<catalog, temps, sequence>>
           /\ \/ /\ pc[p] = "idle" /\ wanted[p] = None
                 /\ \E content \in Seq(Item) : wanted' = [wanted EXCEPT ![p] = content]
                 /\ pc' = [pc EXCEPT ![p] = "save"]
              \/ /\ pc[p] = "idle" /\ wanted' = wanted
                 /\ \E place \in {"idle", "failed"} : pc' = [pc EXCEPT ![p] = place]
           /\ \/ items' = items
              \/ \E list \in Seq(Item) \cup {None} :
                    /\ items' = [items EXCEPT ![p] = list]
                    /\ list # None => validate_ids(list)
<1>0. items[p] # None => items[p] \in Seq(Item) /\ validate_ids(items[p])
    BY DEF IInv, TypeInv, EditsKeepIdsApart
<1>1. pc[p] = "idle" => wanted[p] = None
    BY DEF IInv, WantedInv, Saving
<1>2. CASE AddItem(p)
    <2>1. items[p] \in Seq(Item)
        BY <1>0, <1>2 DEF AddItem
    <2>2. CASE id_available(items[p])
        <3> DEFINE more == Append(items[p], [id |-> next_id(items[p])])
        <3>1. more \in Seq(Item) /\ validate_ids(more)
            BY <2>1, <2>2, AddedId
        <3>2. /\ items' = [items EXCEPT ![p] = more] /\ wanted' = [wanted EXCEPT ![p] = more]
              /\ pc[p] = "idle" /\ pc' = [pc EXCEPT ![p] = "save"]
              /\ UNCHANGED <<catalog, temps, sequence>>
            BY <1>2, <2>2 DEF AddItem, Save, Go
        <3> HIDE DEF more
        <3> QED BY <1>1, <3>1, <3>2
    <2>3. CASE ~id_available(items[p])
        BY <1>2, <2>3 DEF AddItem, Go
    <2> QED BY <2>2, <2>3
<1>3. CASE DeleteItem(p)
    <2>1. items[p] \in Seq(Item) /\ validate_ids(items[p])
        BY <1>0, <1>3 DEF DeleteItem
    <2>2. PICK i \in DOMAIN items[p] :
             /\ items' = [items EXCEPT ![p] = RemoveAt(items[p], i)]
             /\ wanted' = [wanted EXCEPT ![p] = RemoveAt(items[p], i)]
        BY <1>3 DEF DeleteItem, Save
    <2>3. RemoveAt(items[p], i) \in Seq(Item) /\ validate_ids(RemoveAt(items[p], i))
        BY <2>1, RemovedId
    <2> QED BY <1>1, <1>3, <2>2, <2>3 DEF DeleteItem, Go
<1>4. CASE Import(p)
    <2>1. items[p] \in Seq(Item)
        BY <1>0, <1>4 DEF Import
    <2>2. PICK text \in CsvFiles :
             LET all == import_file(Samples[text], items[p])
             IN  \/ all # None /\ Save(p, all) /\ Go(p, "idle", "save")
                 \/ Go(p, "idle", "idle") /\ UNCHANGED <<wanted, saves>>
        BY <1>4 DEF Import
    <2>3. /\ UNCHANGED <<catalog, temps, items, sequence>>
        BY <1>4 DEF Import
    <2> DEFINE all == import_file(Samples[text], items[p])
    <2>4. all # None => all \in Seq(Item)
        <3>1. Samples[text] \in Seq(Seq(STRING))
            BY SamplesAssumption
        <3> QED BY <2>1, <3>1, ImportedType
    <2> HIDE DEF all
    <2>5. \/ /\ all # None /\ wanted' = [wanted EXCEPT ![p] = all]
             /\ pc[p] = "idle" /\ pc' = [pc EXCEPT ![p] = "save"]
          \/ /\ wanted' = wanted
             /\ pc[p] = "idle" /\ pc' = [pc EXCEPT ![p] = "idle"]
        BY <2>2 DEF Save, Go, all
    <2> QED BY <1>1, <2>3, <2>4, <2>5
<1> QED BY <1>2, <1>3, <1>4

(* A program works on its own variables and on its own temporary files.     *)
LEMMA LocalStep ==
    ASSUME IInv, NEW p \in Process, Step(p), NEW q \in Process, q # p
    PROVE  /\ pc'[q] = pc[q] /\ items'[q] = items[q] /\ wanted'[q] = wanted[q]
           /\ sequence'[q] = sequence[q]
           /\ Seed(q)' = Seed(q) /\ Tmp(q)' = Tmp(q)
<1> USE DEF IInv, TypeInv
<1>1. CASE AddItem(p) \/ DeleteItem(p) \/ Import(p)
    <2>1. /\ UNCHANGED <<temps, sequence>>
          /\ pc'[q] = pc[q] /\ items'[q] = items[q] /\ wanted'[q] = wanted[q]
        BY <1>1, EditSteps
    <2> QED BY <2>1 DEF Seed, Tmp, Named
<1>2. CASE Launch(p) \/ Load(p) \/ CheckCatalog(p) \/ CopyFails(p) \/ publish_catalog(p)
           \/ PublishFails(p) \/ OpenFails(p) \/ WriteFails(p) \/ RetryReplace(p) \/ ReplaceFails(p)
    <2>1. /\ UNCHANGED temps /\ sequence'[q] = sequence[q]
          /\ pc'[q] = pc[q] /\ items'[q] = items[q] /\ wanted'[q] = wanted[q]
        BY <1>2 DEF Launch, Load, CheckCatalog, CopyFails, publish_catalog, PublishFails,
                    OpenFails, WriteFails, RetryReplace, ReplaceFails, Go, Fail
    <2> QED BY <2>1 DEF Seed, Tmp, Named
<1>3. CASE CreateSeed(p) \/ CopyBundled(p) \/ RemoveSeed(p) \/ OpenTemporary(p)
           \/ WriteTemporary(p) \/ Replace(p) \/ Discard(p) \/ Crash(p)
    <2>1. /\ sequence'[q] = sequence[q]
          /\ pc'[q] = pc[q] /\ items'[q] = items[q] /\ wanted'[q] = wanted[q]
        BY <1>3 DEF CreateSeed, CopyBundled, RemoveSeed, OpenTemporary,
                    WriteTemporary, Replace, Discard, Crash, Go, Fail
    <2>2. {t \in temps' : t.owner = q} = {t \in temps : t.owner = q}
        <3>1. CASE temps' = Abandoned(p)
            <4>1. \A t \in temps : Stale(t).owner = t.owner
                BY DEF Stale, Temp
            <4> QED BY <3>1, <4>1 DEF Abandoned
        <3>2. CASE temps' = temps
            BY <3>2
        <3>3. CASE temps' = temps \ Seed(p) \/ temps' = temps \ Tmp(p)
            BY <3>3 DEF Seed, Tmp, Named
        <3>4. CASE CreateSeed(p) \/ CopyBundled(p) \/ OpenTemporary(p) \/ WriteTemporary(p)
            BY <3>4 DEF CreateSeed, CopyBundled, OpenTemporary, WriteTemporary,
                        Seed, Tmp, Named, File
        <3> QED BY <1>3, <3>1, <3>2, <3>3, <3>4 DEF RemoveSeed, Replace, Discard, Crash
    <2> QED BY <2>1, <2>2 DEF Seed, Tmp, Named
<1> QED BY <1>1, <1>2, <1>3 DEF Step, Initialise, SaveStep

(* A temporary file is a record of its own kind.                            *)
LEMMA FileType ==
    ASSUME NEW kind \in {"seed", "tmp"}, NEW p \in Process, NEW seq \in Nat, NEW data \in Content
    PROVE  /\ File(kind, p, seq, data) \in Temp
           /\ File(kind, p, seq, data).data = data
           /\ File(kind, p, seq, data).kind = kind
           /\ File(kind, p, seq, data).owner = p
           /\ File(kind, p, seq, data).seq = seq
BY DEF File, Temp

(* What gets the catalog's name.                                            *)
LEMMA Published ==
    ASSUME IInv, NEW p \in Process
    PROVE  /\ pc[p] = "publish" => (CHOOSE t \in Seed(p) : TRUE).data = Bundled
           /\ pc[p] = "replace" => (CHOOSE t \in Tmp(p) : TRUE).data = wanted[p]
BY DEF IInv, TempInv

(* Every operation preserves the types.                                     *)
LEMMA TypeStep ==
    ASSUME IInv, NEW p \in Process, Step(p)
    PROVE  TypeInv'
<1>0. Bundled \in Content /\ Broken \in Content /\ None \in Content
    BY CatalogAssumption DEF Content
<1>1. wanted[p] \in Content /\ sequence[p] \in Nat /\ sequence[p] + 1 \in Nat
    BY DEF IInv, TypeInv, Content
<1> USE DEF IInv, TypeInv
<1>14. Abandoned(p) \subseteq Temp
    BY DEF Abandoned, Stale, Temp
<1>2. CASE AddItem(p) \/ DeleteItem(p) \/ Import(p)
    <2>1. UNCHANGED faults \/ faults' \in Nat
        BY <1>2 DEF AddItem, DeleteItem, Import
    <2> QED BY <1>2, <2>1, EditSteps DEF Places
<1>3. CASE Launch(p) \/ Load(p) \/ CheckCatalog(p) \/ RetryReplace(p) \/ ReplaceFails(p)
    BY <1>3 DEF Launch, Load, CheckCatalog, RetryReplace, ReplaceFails, Go, Places,
                readable, Content
<1>4. CASE CopyFails(p) \/ PublishFails(p) \/ OpenFails(p) \/ WriteFails(p)
    <2>1. faults' \in Nat
        BY <1>4 DEF CopyFails, PublishFails, OpenFails, WriteFails
    <2>2. pc' \in [Process -> Places] /\ UNCHANGED <<catalog, temps, items>>
        BY <1>4 DEF CopyFails, PublishFails, OpenFails, WriteFails, Go, Places
    <2>3. wanted' \in [Process -> Seq(Item) \cup {None}]
        BY <1>4 DEF CopyFails, PublishFails, OpenFails, WriteFails, Fail
    <2>4. sequence' \in [Process -> Nat]
        <3>1. CASE OpenFails(p)
            <4>1. PICK n \in Nat : sequence' = [sequence EXCEPT ![p] = n]
                BY <1>1, <3>1 DEF OpenFails
            <4> QED BY <4>1
        <3> QED BY <1>4, <3>1 DEF CopyFails, PublishFails, WriteFails
    <2> QED BY <2>1, <2>2, <2>3, <2>4
<1>5. CASE CreateSeed(p)
    <2>1. File("seed", p, sequence[p], Broken) \in Temp
        BY <1>0, <1>1, FileType
    <2> QED BY <1>5, <2>1 DEF CreateSeed, Go, Places
<1>6. CASE CopyBundled(p)
    <2>1. File("seed", p, sequence[p], Bundled) \in Temp
        BY <1>0, <1>1, FileType
    <2> QED BY <1>6, <2>1 DEF CopyBundled, Go, Places
<1>7. CASE publish_catalog(p)
    BY <1>0, <1>7, Published DEF publish_catalog, Go, Places
<1>8. CASE RemoveSeed(p) \/ Discard(p)
    <2>1. temps' \subseteq Temp
        <3>1. CASE temps' = Abandoned(p)
            BY <1>14, <3>1
        <3> QED BY <1>8, <3>1 DEF RemoveSeed, Discard
    <2>2. faults' \in Nat
        BY <1>8 DEF RemoveSeed, Discard
    <2> QED BY <1>8, <2>1, <2>2 DEF RemoveSeed, Discard, Go, Fail, Places
<1>9. CASE OpenTemporary(p)
    <2>1. sequence'[p] = sequence[p] + 1 /\ sequence' \in [Process -> Nat]
        BY <1>1, <1>9 DEF OpenTemporary
    <2>2. File("tmp", p, sequence'[p], Broken) \in Temp
        BY <1>0, <1>1, <2>1, FileType
    <2> QED BY <1>9, <2>1, <2>2 DEF OpenTemporary, Go, Places
<1>10. CASE WriteTemporary(p)
    <2>1. File("tmp", p, sequence[p], wanted[p]) \in Temp
        BY <1>1, FileType
    <2> QED BY <1>10, <2>1 DEF WriteTemporary, Go, Places
<1>11. CASE Replace(p)
    <2>1. catalog' = wanted[p]
        BY <1>11, Published DEF Replace, Go
    <2> QED BY <1>1, <1>11, <2>1 DEF Replace, Go, Places
<1>12. CASE Crash(p)
    BY <1>12, <1>14 DEF Crash, Places
<1> QED BY <1>2, <1>3, <1>4, <1>5, <1>6, <1>7, <1>8, <1>9, <1>10, <1>11, <1>12
        DEF Step, Initialise, SaveStep

(* Every operation preserves what is known of a save and of its catalog.    *)
LEMMA WantedStep ==
    ASSUME IInv, NEW p \in Process, Step(p)
    PROVE  WantedInv' /\ EditsKeepIdsApart'
<1> SUFFICES /\ (pc[p] \in Saving)' <=> (wanted[p] # None)'
             /\ (pc[p] \in Saving \ {"save"})' => validate_ids(wanted[p])'
             /\ (items[p] # None)' => validate_ids(items[p])'
    BY LocalStep DEF IInv, WantedInv, EditsKeepIdsApart
<1>0. /\ pc[p] \in Saving <=> wanted[p] # None
      /\ pc[p] \in Saving \ {"save"} => validate_ids(wanted[p])
      /\ items[p] # None => validate_ids(items[p])
    BY DEF IInv, WantedInv, EditsKeepIdsApart
<1> USE DEF Saving
<1>1. /\ pc \in [Process -> Places] /\ items \in [Process -> Seq(Item) \cup {None}]
      /\ wanted \in [Process -> Seq(Item) \cup {None}]
    BY DEF IInv, TypeInv
<1>2. CASE AddItem(p) \/ DeleteItem(p) \/ Import(p)
    BY <1>0, <1>1, <1>2, EditSteps, CatalogAssumption
<1>3. CASE Launch(p) \/ Load(p) \/ Initialise(p)
    <2>1. /\ pc[p] \notin Saving /\ pc'[p] \notin Saving /\ wanted' = wanted
        BY <1>1, <1>3 DEF Launch, Load, Initialise, CheckCatalog, CreateSeed, CopyBundled,
                    CopyFails, publish_catalog, PublishFails, RemoveSeed, Go
    <2>2. items'[p] = items[p] \/ validate_ids(items'[p])
        BY <1>1, <1>3 DEF Launch, Load, Initialise, CheckCatalog, CreateSeed, CopyBundled,
                    CopyFails, publish_catalog, PublishFails, RemoveSeed, readable
    <2> QED BY <1>0, <2>1, <2>2
<1>4. CASE OpenTemporary(p) \/ WriteTemporary(p) \/ RetryReplace(p) \/ ReplaceFails(p)
    <2>1. /\ UNCHANGED <<items, wanted>> /\ pc[p] \in Saving /\ pc'[p] \in Saving
          /\ validate_ids(wanted[p])
        BY <1>0, <1>1, <1>4 DEF OpenTemporary, WriteTemporary, RetryReplace, ReplaceFails, Go
    <2> QED BY <1>0, <2>1
<1>5. CASE OpenFails(p) \/ WriteFails(p) \/ Discard(p)
    <2>1. UNCHANGED items /\ wanted'[p] = None /\ pc'[p] = "idle"
        BY <1>1, <1>5 DEF OpenFails, WriteFails, Discard, Go, Fail
    <2> QED BY <1>0, <2>1
<1>6. CASE Replace(p)
    <2>1. items'[p] = wanted[p] /\ wanted'[p] = None /\ pc'[p] = "idle" /\ pc[p] = "replace"
        BY <1>1, <1>6 DEF Replace, Go
    <2> QED BY <1>0, <2>1
<1>7. CASE Crash(p)
    <2>1. items'[p] = None /\ wanted'[p] = None /\ pc'[p] = "off"
        BY <1>1, <1>7 DEF Crash
    <2> QED BY <2>1
<1> QED BY <1>2, <1>3, <1>4, <1>5, <1>6, <1>7 DEF Step, SaveStep

(* Every operation preserves what is known of the temporary files.          *)
LEMMA TempStep ==
    ASSUME IInv, NEW p \in Process, Step(p)
    PROVE  TempInv'
<1> SUFFICES /\ (pc[p] = "publish")' => Seed(p)' # {} /\ \A t \in Seed(p)' : t.data = Bundled
             /\ (pc[p] = "replace")' => Tmp(p)' # {} /\ \A t \in Tmp(p)' : t.data = wanted'[p]
    BY LocalStep DEF IInv, TempInv
<1>0. /\ pc[p] = "publish" => Seed(p) # {} /\ \A t \in Seed(p) : t.data = Bundled
      /\ pc[p] = "replace" => Tmp(p) # {} /\ \A t \in Tmp(p) : t.data = wanted[p]
    BY DEF IInv, TempInv
<1>1. pc \in [Process -> Places] /\ wanted[p] \in Content /\ sequence[p] \in Nat
    BY DEF IInv, TypeInv, Content
<1>2. CASE AddItem(p) \/ DeleteItem(p) \/ Import(p)
    BY <1>1, <1>2, EditSteps
<1>3. CASE CopyBundled(p)
    <2> DEFINE seed == File("seed", p, sequence[p], Bundled)
    <2>1. seed.data = Bundled /\ seed.kind = "seed" /\ seed.owner = p /\ seed.seq = sequence[p]
        BY DEF File
    <2> HIDE DEF seed
    <2>2. temps' = (temps \ Seed(p)) \cup {seed} /\ sequence' = sequence /\ pc'[p] = "publish"
        BY <1>1, <1>3 DEF CopyBundled, Go, seed
    <2>3. Seed(p)' = {seed}
        BY <2>1, <2>2 DEF Seed, Named
    <2> QED BY <2>1, <2>2, <2>3
<1>4. CASE WriteTemporary(p)
    <2> DEFINE tmp == File("tmp", p, sequence[p], wanted[p])
    <2>1. tmp.data = wanted[p] /\ tmp.kind = "tmp" /\ tmp.owner = p /\ tmp.seq = sequence[p]
        BY DEF File
    <2> HIDE DEF tmp
    <2>2. /\ temps' = (temps \ Tmp(p)) \cup {tmp}
          /\ sequence' = sequence /\ wanted' = wanted /\ pc'[p] = "replace"
        BY <1>1, <1>4 DEF WriteTemporary, Go, tmp
    <2>3. Tmp(p)' = {tmp}
        BY <2>1, <2>2 DEF Tmp, Named
    <2> QED BY <2>1, <2>2, <2>3
<1>5. CASE RetryReplace(p)
    BY <1>0, <1>5 DEF RetryReplace, Tmp, Seed, Named
<1>6. CASE \/ Launch(p) \/ Load(p) \/ CheckCatalog(p) \/ CreateSeed(p) \/ CopyFails(p)
           \/ publish_catalog(p) \/ PublishFails(p) \/ RemoveSeed(p) \/ OpenTemporary(p)
           \/ OpenFails(p) \/ WriteFails(p) \/ Replace(p) \/ ReplaceFails(p) \/ Discard(p)
           \/ Crash(p)
    <2>1. pc'[p] \notin {"publish", "replace"}
        BY <1>1, <1>6 DEF Launch, Load, CheckCatalog, CreateSeed, CopyFails, publish_catalog,
                    PublishFails, RemoveSeed, OpenTemporary, OpenFails, WriteFails, Replace,
                    ReplaceFails, Discard, Crash, Go
    <2> QED BY <2>1
<1> QED BY <1>2, <1>3, <1>4, <1>5, <1>6 DEF Step, Initialise, SaveStep

(* The invariant holds at first and after every step.                       *)
THEOREM Inductive == Spec => []IInv
<1>1. Init => IInv
    BY CatalogAssumption DEF Init, IInv, TypeInv, Content, Temp, Places, Saving,
                             WantedInv, TempInv, EditsKeepIdsApart
<1>2. IInv /\ [Next]_vars => IInv'
    <2> SUFFICES ASSUME IInv, [Next]_vars PROVE IInv'
        OBVIOUS
    <2>1. CASE UNCHANGED vars
        BY <2>1 DEF vars, IInv, TypeInv, WantedInv, TempInv, EditsKeepIdsApart,
                    Seed, Tmp, Named
    <2>2. CASE Next
        <3>1. PICK p \in Process : Step(p)
            BY <2>2 DEF Next, Step
        <3> QED BY <3>1, TypeStep, WantedStep, TempStep DEF IInv
    <2> QED BY <2>1, <2>2
<1> QED BY <1>1, <1>2, PTL DEF Spec

(* The ids of a catalog in memory stay apart under every edit, import, load
   and save: next_id and the closed run of an import are new, a removal and a
   load keep them so.                                                       *)
THEOREM IdsApart == Spec => []EditsKeepIdsApart
<1>1. IInv => EditsKeepIdsApart
    BY DEF IInv
<1> QED BY <1>1, Inductive, PTL

-----------------------------------------------------------------------------
(* The refinement.                                                          *)

(* Every step is one of the atomic catalog or leaves it alone.              *)
LEMMA StepMaps ==
    ASSUME IInv, NEW p \in Process, Step(p)
    PROVE  [Abstract!Next]_Abstract!vars
<1>0. /\ pc[p] \in Saving <=> wanted[p] # None
      /\ pc[p] \in Saving \ {"save"} => validate_ids(wanted[p])
      /\ pc \in [Process -> Places] /\ wanted \in [Process -> Seq(Item) \cup {None}]
    BY DEF IInv, WantedInv, TypeInv
<1> USE DEF Abstract!vars, Abstract!Next
<1>1. CASE AddItem(p) \/ DeleteItem(p) \/ Import(p)
    <2>1. CASE UNCHANGED <<catalog, wanted>>
        BY <2>1
    <2>2. ASSUME wanted[p] = None, UNCHANGED catalog,
                 NEW content \in Seq(Item), wanted' = [wanted EXCEPT ![p] = content]
          PROVE  Abstract!Request(p)
        BY <1>0, <2>2, CatalogAssumption DEF Abstract!Request
    <2> QED BY <1>1, <2>1, <2>2, EditSteps
<1>2. CASE Launch(p) \/ Load(p) \/ CheckCatalog(p) \/ CreateSeed(p) \/ CopyBundled(p)
           \/ CopyFails(p) \/ PublishFails(p) \/ RemoveSeed(p) \/ OpenTemporary(p)
           \/ WriteTemporary(p) \/ RetryReplace(p) \/ ReplaceFails(p)
    BY <1>2 DEF Launch, Load, CheckCatalog, CreateSeed, CopyBundled, CopyFails, PublishFails,
                RemoveSeed, OpenTemporary, WriteTemporary, RetryReplace, ReplaceFails
<1>3. CASE publish_catalog(p)
    <2>1. pc[p] = "publish" /\ UNCHANGED wanted
        BY <1>3 DEF publish_catalog, Go
    <2>2. catalog' = IF catalog = None THEN Bundled ELSE catalog
        BY <1>3, <2>1, Published DEF publish_catalog
    <2> QED BY <2>1, <2>2 DEF Abstract!Install
<1>4. CASE OpenFails(p) \/ WriteFails(p) \/ Discard(p)
    <2>1. UNCHANGED catalog /\ wanted' = [wanted EXCEPT ![p] = None] /\ pc[p] \in Saving
        BY <1>4 DEF OpenFails, WriteFails, Discard, Fail, Go, Saving
    <2> QED BY <1>0, <2>1 DEF Abstract!GiveUp
<1>5. CASE Replace(p)
    <2>1. pc[p] = "replace" /\ wanted' = [wanted EXCEPT ![p] = None]
        BY <1>5 DEF Replace, Go
    <2>2. catalog' = wanted[p]
        BY <1>5, <2>1, Published DEF Replace
    <2>3. wanted[p] # None /\ readable(wanted[p])
        BY <1>0, <2>1, CatalogAssumption DEF readable, Saving
    <2> QED BY <2>1, <2>2, <2>3 DEF Abstract!Take
<1>6. CASE Crash(p)
    <2>1. UNCHANGED catalog /\ wanted' = [wanted EXCEPT ![p] = None]
        BY <1>6 DEF Crash
    <2>2. CASE wanted[p] = None
        BY <1>0, <2>1, <2>2
    <2>3. CASE wanted[p] # None
        BY <2>1, <2>3 DEF Abstract!GiveUp
    <2> QED BY <2>2, <2>3
<1> QED BY <1>1, <1>2, <1>3, <1>4, <1>5, <1>6 DEF Step, Initialise, SaveStep

(* The files, the retries and the crashes implement the atomic catalog, for
   any programs and any number of faults.                                   *)
THEOREM Refinement == Spec => ImplementsAtomicCatalog
<1>1. Init => Abstract!Init
    BY DEF Init, Abstract!Init
<1>2. IInv /\ [Next]_vars => [Abstract!Next]_Abstract!vars
    <2> SUFFICES ASSUME IInv, [Next]_vars PROVE [Abstract!Next]_Abstract!vars
        OBVIOUS
    <2>1. CASE UNCHANGED vars
        BY <2>1 DEF vars, Abstract!vars
    <2>2. CASE Next
        <3>1. PICK p \in Process : Step(p)
            BY <2>2 DEF Next, Step
        <3> QED BY <3>1, StepMaps
    <2> QED BY <2>1, <2>2
<1> QED BY <1>1, <1>2, Inductive, PTL DEF Spec, ImplementsAtomicCatalog, Abstract!Spec

-----------------------------------------------------------------------------
(* The temporary files.                                                     *)

Leftover == {t \in temps : ~ InUse(t)}

(* A program works on one temporary file at a time, and only such a file is
   named as a seed: its leftover gets a name that does not come back.       *)
LeftInv ==
    /\ IsFiniteSet(temps)
    /\ \A t \in temps : t.kind = "seed" => InUse(t)
    /\ \A t, u \in temps : InUse(t) /\ InUse(u) /\ t.owner = u.owner => t = u
    /\ Cardinality(Leftover) <= faults

(* The places where a program works on the one kind and on the other.       *)
Seeding == {"copying", "publish", "unseed", "unseed_failed"}
Filling == {"write", "replace", "discard"}

(* What a program works on are its files of the name it has made up.        *)
LEMMA WorksOn ==
    ASSUME TypeInv, NEW t \in temps
    PROVE  InUse(t) <=> \/ pc[t.owner] \in Seeding /\ t \in Seed(t.owner)
                        \/ pc[t.owner] \in Filling /\ t \in Tmp(t.owner)
BY DEF InUse, Seeding, Filling, Seed, Tmp, Named

(* Fewer leftovers, or as many as before, and no fewer faults.              *)
LEMMA NoMore ==
    ASSUME LeftInv, TypeInv, faults' \in Nat, faults <= faults', Leftover' \subseteq Leftover
    PROVE  Cardinality(Leftover') <= faults'
<1>1. IsFiniteSet(Leftover) /\ Cardinality(Leftover) \in Nat /\ Cardinality(Leftover) <= faults
    BY FS_Subset, FS_CardinalityType DEF LeftInv, Leftover
<1>2. IsFiniteSet(Leftover') /\ Cardinality(Leftover') <= Cardinality(Leftover)
    BY <1>1, FS_Subset
<1>3. Cardinality(Leftover') \in Nat
    BY <1>2, FS_CardinalityType
<1> QED BY <1>1, <1>2, <1>3 DEF TypeInv

(* One more leftover is one more fault's.                                   *)
LEMMA OneMore ==
    ASSUME LeftInv, TypeInv, NEW more
    PROVE  /\ IsFiniteSet(Leftover \cup {more})
           /\ Cardinality(Leftover \cup {more}) \in Nat
           /\ Cardinality(Leftover \cup {more}) <= faults + 1
<1>1. IsFiniteSet(Leftover) /\ Cardinality(Leftover) \in Nat /\ Cardinality(Leftover) <= faults
    BY FS_Subset, FS_CardinalityType DEF LeftInv, Leftover
<1>2. /\ IsFiniteSet(Leftover \cup {more})
      /\ \/ Cardinality(Leftover \cup {more}) = Cardinality(Leftover) + 1
         \/ Cardinality(Leftover \cup {more}) = Cardinality(Leftover)
    <2>1. /\ IsFiniteSet(Leftover \cup {more})
          /\ Cardinality(Leftover \cup {more}) =
                IF more \in Leftover THEN Cardinality(Leftover) ELSE Cardinality(Leftover) + 1
        BY <1>1, FS_AddElement
    <2> QED BY <2>1
<1> QED BY <1>1, <1>2 DEF TypeInv

(* A step of one program does not touch the files of another.               *)
LEMMA OthersUse ==
    ASSUME IInv, NEW p \in Process, Step(p), NEW t, t.owner \in Process, t.owner # p
    PROVE  InUse(t)' <=> InUse(t)
<1>1. pc'[t.owner] = pc[t.owner] /\ sequence'[t.owner] = sequence[t.owner]
    BY LocalStep
<1> QED BY <1>1 DEF InUse

(* What InUse says of a file of p.                                          *)
LEMMA UseOf ==
    ASSUME NEW p \in Process, NEW t, t.owner = p
    PROVE  /\ InUse(t) <=> /\ t.seq = sequence[p]
                           /\ \/ t.kind = "seed" /\ pc[p] \in Seeding
                              \/ t.kind = "tmp" /\ pc[p] \in Filling
           /\ InUse(t)' <=> /\ t.seq = sequence'[p]
                            /\ \/ t.kind = "seed" /\ pc'[p] \in Seeding
                               \/ t.kind = "tmp" /\ pc'[p] \in Filling
BY DEF InUse, Seeding, Filling

(* An operation that leaves the files alone, and what it works on.          *)
LEMMA SameUse ==
    ASSUME IInv, LeftInv, NEW p \in Process, Step(p), temps' = temps,
           \A t \in temps : t.owner = p => (InUse(t)' <=> InUse(t)),
           faults' \in Nat, faults <= faults'
    PROVE  LeftInv'
<1>1. \A t \in temps : InUse(t)' <=> InUse(t)
    BY OthersUse DEF IInv, TypeInv, Temp
<1>2. Leftover' = Leftover
    BY <1>1 DEF Leftover
<1>3. Cardinality(Leftover') <= faults'
    BY <1>2, NoMore DEF IInv
<1> QED BY <1>1, <1>3 DEF LeftInv

(* An operation that puts a file in the place of the one it worked on.      *)
LEMMA NewUse ==
    ASSUME IInv, LeftInv, NEW p \in Process, Step(p), NEW old \in SUBSET temps, NEW new,
           temps' = (temps \ old) \cup {new}, new.owner = p, InUse(new)', faults' = faults,
           \A t \in temps \ old : t.owner = p =>
                /\ ~InUse(t) /\ (InUse(t)' => t = new)
    PROVE  LeftInv'
<1>0. \A t \in temps : t.owner \in Process
    BY DEF IInv, TypeInv, Temp
<1>1. \A t \in temps' : t = new \/ (t \in temps \ old /\ t.owner \in Process)
    BY <1>0
<1>2. IsFiniteSet(temps')
    <2>1. IsFiniteSet(temps \ old)
        BY FS_Subset DEF LeftInv
    <2> QED BY <2>1, FS_AddElement
<1>3. ASSUME NEW t \in temps', t.kind = "seed"
      PROVE  InUse(t)'
    <2>1. CASE t = new
        BY <2>1
    <2>2. CASE t \in temps \ old /\ t.owner \in Process
        <3>1. InUse(t)
            BY <1>3, <2>2 DEF LeftInv
        <3>2. t.owner # p
            BY <2>2, <3>1
        <3> QED BY <2>2, <3>1, <3>2, OthersUse
    <2> QED BY <1>1, <2>1, <2>2
<1>4. ASSUME NEW t \in temps', NEW u \in temps', InUse(t)', InUse(u)', t.owner = u.owner
      PROVE  t = u
    <2>1. CASE t.owner = p
        <3>1. t = new
            BY <1>1, <1>4, <2>1
        <3>2. u = new
            BY <1>1, <1>4, <2>1
        <3> QED BY <3>1, <3>2
    <2>2. CASE t.owner # p
        <3>1. t \in temps /\ u \in temps /\ t.owner \in Process
            BY <1>0, <1>1, <1>4, <2>2
        <3>2. InUse(t) /\ InUse(u)
            BY <1>4, <2>2, <3>1, OthersUse
        <3> QED BY <1>4, <3>1, <3>2 DEF LeftInv
    <2> QED BY <2>1, <2>2
<1>5. Leftover' \subseteq Leftover
    <2> SUFFICES ASSUME NEW t \in Leftover' PROVE t \in Leftover
        OBVIOUS
    <2>1. t \in temps' /\ ~InUse(t)'
        BY DEF Leftover
    <2>2. t \in temps \ old /\ t.owner \in Process
        BY <1>1, <2>1
    <2>3. ~InUse(t)
        BY <2>1, <2>2, OthersUse
    <2> QED BY <2>2, <2>3 DEF Leftover
<1>6. Cardinality(Leftover') <= faults'
    <2>1. faults' \in Nat /\ faults <= faults'
        BY DEF IInv, TypeInv
    <2> QED BY <1>5, <2>1, NoMore DEF IInv
<1> QED BY <1>2, <1>3, <1>4, <1>6 DEF LeftInv

(* An operation that removes the file it worked on.                         *)
LEMMA EndOfUse ==
    ASSUME IInv, LeftInv, NEW p \in Process, Step(p), NEW old,
           temps' = temps \ old, faults' = faults,
           \A t \in temps \ old : t.owner = p => ~InUse(t) /\ ~InUse(t)'
    PROVE  LeftInv'
<1>0. \A t \in temps : t.owner \in Process
    BY DEF IInv, TypeInv, Temp
<1>1. \A t \in temps' : t \in temps /\ (InUse(t)' <=> InUse(t))
    BY <1>0, OthersUse
<1>2. IsFiniteSet(temps')
    BY FS_Subset DEF LeftInv
<1>3. Cardinality(Leftover') <= faults'
    <2>1. Leftover' \subseteq Leftover
        BY <1>1 DEF Leftover
    <2>2. faults' \in Nat /\ faults <= faults'
        BY DEF IInv, TypeInv
    <2> QED BY <2>1, <2>2, NoMore DEF IInv
<1> QED BY <1>1, <1>2, <1>3 DEF LeftInv

(* What a program leaves keeps its number, and the file in use is one more.  *)
LEMMA AbandonLeaves ==
    ASSUME IInv, LeftInv, NEW p \in Process, Step(p), temps' = Abandoned(p),
           pc'[p] \notin Seeding \cup Filling, faults' \in Nat,
           \/ faults' = faults /\ pc[p] \notin Seeding \cup Filling
           \/ faults' = faults + 1
    PROVE  LeftInv'
<1> DEFINE renamed(t) == IF t.owner = p THEN Stale(t) ELSE t
<1>0. /\ \A t \in temps : t \in Temp /\ t.owner \in Process
      /\ pc \in [Process -> Places] /\ faults \in Nat
    BY DEF IInv, TypeInv, Temp
<1>1. temps' = {renamed(t) : t \in temps}
    BY DEF Abandoned
<1>3. \A t \in temps : renamed(t).owner = t.owner
    BY <1>0 DEF Stale, Temp
<1>4. \A t \in temps : t.owner = p => renamed(t).kind # "seed"
    BY <1>0 DEF Stale, Temp
<1>5. \A t : t.owner = p => ~InUse(t)'
    BY UseOf
<1>6. \A t \in temps : t.owner # p => renamed(t) = t /\ (InUse(t)' <=> InUse(t))
    BY <1>0, OthersUse
<1>7. IsFiniteSet(temps')
    <2> DEFINE f == [t \in temps |-> renamed(t)]
    <2> HIDE DEF renamed
    <2>1. f \in Surjection(temps, temps')
        BY <1>1 DEF Surjection
    <2> QED BY <2>1, FS_Surjection DEF LeftInv
<1>8. \A t \in temps' : t.kind = "seed" => InUse(t)'
    <2> HIDE DEF renamed
    <2> SUFFICES ASSUME NEW r \in temps', r.kind = "seed" PROVE InUse(r)'
        OBVIOUS
    <2>1. PICK t \in temps : r = renamed(t)
        BY <1>1
    <2>2. t.owner # p
        BY <1>4, <2>1
    <2> QED BY <1>6, <2>1, <2>2 DEF LeftInv
<1>9. \A t, u \in temps' : InUse(t)' /\ InUse(u)' /\ t.owner = u.owner => t = u
    <2> HIDE DEF renamed
    <2>1. \A t \in temps' : InUse(t)' => t \in temps /\ InUse(t)
        BY <1>1, <1>3, <1>5, <1>6
    <2> QED BY <2>1 DEF LeftInv
<1>10. Cardinality(Leftover') <= faults'
    <2> DEFINE own == {t \in temps : t.owner = p}
    <2>1. Leftover' = {renamed(t) : t \in Leftover \cup own}
        <3> HIDE DEF renamed
        <3>1. ASSUME NEW t \in temps, NEW r, r = renamed(t)
              PROVE  InUse(r)' <=> InUse(t) /\ t.owner # p
            BY <1>3, <1>5, <1>6, <3>1
        <3>2. Leftover' = {r \in {renamed(t) : t \in temps} : ~InUse(r)'}
            BY <1>1 DEF Leftover
        <3>3. Leftover \cup own = {t \in temps : ~(InUse(t) /\ t.owner # p)}
            BY DEF Leftover
        <3> QED BY <3>1, <3>2, <3>3
    <2>2. CASE \A t \in own : ~InUse(t)
        <3>1. Leftover \cup own = Leftover
            BY <2>2 DEF Leftover
        <3> DEFINE f == [t \in Leftover |-> renamed(t)]
        <3> HIDE DEF renamed
        <3>2. f \in Surjection(Leftover, Leftover')
            BY <2>1, <3>1 DEF Surjection
        <3>3. IsFiniteSet(Leftover) /\ Cardinality(Leftover) <= faults
            BY FS_Subset DEF LeftInv, Leftover
        <3> HIDE DEF f
        <3>4. /\ IsFiniteSet(Leftover') /\ Cardinality(Leftover') <= Cardinality(Leftover)
            BY <3>2, <3>3, FS_Surjection
        <3>5. Cardinality(Leftover') \in Nat /\ Cardinality(Leftover) \in Nat
            BY <3>3, <3>4, FS_CardinalityType
        <3>6. faults <= faults'
            BY <1>0
        <3> QED BY <1>0, <3>3, <3>4, <3>5, <3>6
    <2>3. CASE \E t \in own : InUse(t)
        <3>1. PICK more \in own : InUse(more)
            BY <2>3
        <3>2. faults' = faults + 1
            <4>1. more.owner = p
                BY <3>1
            <4> QED BY <3>1, <4>1, UseOf
        <3>3. Leftover \cup own = Leftover \cup {more}
            <4>1. \A t \in own : InUse(t) => t = more
                BY <3>1 DEF LeftInv
            <4> QED BY <3>1, <4>1 DEF Leftover
        <3> DEFINE f == [t \in Leftover \cup {more} |-> renamed(t)]
        <3> HIDE DEF renamed
        <3>4. f \in Surjection(Leftover \cup {more}, Leftover')
            BY <2>1, <3>3 DEF Surjection
        <3> HIDE DEF f
        <3>5. /\ IsFiniteSet(Leftover \cup {more})
              /\ Cardinality(Leftover \cup {more}) \in Nat
              /\ Cardinality(Leftover \cup {more}) <= faults + 1
            BY OneMore DEF IInv
        <3>6. /\ IsFiniteSet(Leftover')
              /\ Cardinality(Leftover') <= Cardinality(Leftover \cup {more})
            BY <3>4, <3>5, FS_Surjection
        <3>7. Cardinality(Leftover') \in Nat
            BY <3>6, FS_CardinalityType
        <3> QED BY <1>0, <3>2, <3>5, <3>6, <3>7
    <2> QED BY <2>2, <2>3
<1> QED BY <1>7, <1>8, <1>9, <1>10 DEF LeftInv

(* The file of a save that is given up and not removed.                      *)
LEMMA KeptLeaves ==
    ASSUME IInv, LeftInv, NEW p \in Process, Step(p), temps' = temps,
           pc[p] \in Filling, pc'[p] = "idle", faults' = faults + 1
    PROVE  LeftInv'
<1>1. \A t \in temps : t.owner = p => t.kind # "seed"
    BY UseOf DEF LeftInv, Seeding, Filling
<1>2. temps' = Abandoned(p)
    <2>1. \A t \in temps : t.owner = p => Stale(t) = t
        BY <1>1 DEF Stale
    <2> QED BY <2>1 DEF Abandoned
<1>3. pc'[p] \notin Seeding \cup Filling
    BY DEF Seeding, Filling
<1>4. faults' \in Nat
    BY DEF IInv, TypeInv
<1> QED BY <1>2, <1>3, <1>4, AbandonLeaves

(* Every operation leaves behind only what a fault explains.                *)
LEMMA LeftStep ==
    ASSUME IInv, LeftInv, NEW p \in Process, Step(p)
    PROVE  LeftInv'
<1>0. /\ pc \in [Process -> Places] /\ sequence \in [Process -> Nat] /\ faults \in Nat
      /\ temps \subseteq Temp
    BY DEF IInv, TypeInv
<1>1. CASE AddItem(p) \/ DeleteItem(p) \/ Import(p)
    <2>1. /\ temps' = temps /\ sequence' = sequence
          /\ pc[p] = "idle" /\ pc'[p] \in {"idle", "failed", "save"}
        BY <1>0, <1>1, EditSteps
    <2>2. faults' = faults
        BY <1>1 DEF AddItem, DeleteItem, Import
    <2>3. \A t \in temps : t.owner = p => (InUse(t)' <=> InUse(t))
        BY <2>1, UseOf DEF Seeding, Filling
    <2> QED BY <1>0, <2>1, <2>2, <2>3, SameUse
<1>2. CASE Launch(p) \/ CheckCatalog(p) \/ Load(p) \/ OpenFails(p)
    <2>1. /\ temps' = temps /\ faults' = faults
          /\ pc[p] \notin Seeding \cup Filling /\ pc'[p] \notin Seeding \cup Filling
        BY <1>0, <1>2 DEF Launch, CheckCatalog, Load, OpenFails, Go, Seeding, Filling
    <2>2. \A t \in temps : t.owner = p => (InUse(t)' <=> InUse(t))
        BY <2>1, UseOf
    <2> QED BY <1>0, <2>1, <2>2, SameUse
<1>3. CASE CopyFails(p) \/ publish_catalog(p) \/ PublishFails(p)
    <2>1. /\ temps' = temps /\ sequence' = sequence /\ pc[p] \in Seeding /\ pc'[p] \in Seeding
          /\ (faults' = faults \/ faults' = faults + 1)
        BY <1>0, <1>3 DEF CopyFails, publish_catalog, PublishFails, Go, Seeding
    <2>2. \A t \in temps : t.owner = p => (InUse(t)' <=> InUse(t))
        BY <2>1, UseOf DEF Seeding, Filling
    <2>3. faults' \in Nat /\ faults <= faults'
        BY <1>0, <2>1
    <2> QED BY <2>1, <2>2, <2>3, SameUse
<1>4. CASE RetryReplace(p) \/ ReplaceFails(p)
    <2>1. /\ temps' = temps /\ sequence' = sequence /\ pc[p] \in Filling /\ pc'[p] \in Filling
          /\ faults' = faults
        BY <1>0, <1>4 DEF RetryReplace, ReplaceFails, Go, Filling
    <2>2. \A t \in temps : t.owner = p => (InUse(t)' <=> InUse(t))
        BY <2>1, UseOf DEF Seeding, Filling
    <2> QED BY <1>0, <2>1, <2>2, SameUse
<1>5. CASE CreateSeed(p)
    <2>0. PICK new : new = File("seed", p, sequence[p], Broken)
        OBVIOUS
    <2>1. new.kind = "seed" /\ new.owner = p /\ new.seq = sequence[p]
        BY <2>0 DEF File
    <2>2. /\ temps' = (temps \ {}) \cup {new} /\ sequence' = sequence /\ faults' = faults
          /\ pc[p] = "copy" /\ pc'[p] = "copying"
        BY <1>0, <1>5, <2>0 DEF CreateSeed, Go
    <2>3. InUse(new)'
        BY <2>1, <2>2, UseOf DEF Seeding
    <2>4. \A t \in temps \ {} : t.owner = p => ~InUse(t) /\ (InUse(t)' => t = new)
        <3>1. \A t \in temps : t.owner = p => ~InUse(t) /\ t.kind # "seed"
            BY <2>2, UseOf DEF Seeding, Filling, LeftInv
        <3> QED BY <2>2, <3>1, UseOf DEF Seeding, Filling
    <2>5. PICK old \in SUBSET temps : old = {}
        OBVIOUS
    <2>6. /\ temps' = (temps \ old) \cup {new}
          /\ \A t \in temps \ old : t.owner = p => ~InUse(t) /\ (InUse(t)' => t = new)
        BY <2>2, <2>4, <2>5
    <2> QED BY <2>1, <2>2, <2>3, <2>6, NewUse
<1>6. CASE CopyBundled(p)
    <2>0. PICK new : new = File("seed", p, sequence[p], Bundled)
        OBVIOUS
    <2>1. new.kind = "seed" /\ new.owner = p /\ new.seq = sequence[p]
        BY <2>0 DEF File
    <2>2. /\ temps' = (temps \ Seed(p)) \cup {new} /\ sequence' = sequence /\ faults' = faults
          /\ pc[p] = "copying" /\ pc'[p] = "publish" /\ Seed(p) \in SUBSET temps
        BY <1>0, <1>6, <2>0 DEF CopyBundled, Go, Seed, Named
    <2>3. InUse(new)'
        BY <2>1, <2>2, UseOf DEF Seeding
    <2>4. \A t \in temps \ Seed(p) : t.owner = p => ~InUse(t) /\ (InUse(t)' => t = new)
        BY <2>2, UseOf DEF Seed, Named, Seeding, Filling
    <2> QED BY <2>1, <2>2, <2>3, <2>4, NewUse
<1>7. CASE OpenTemporary(p)
    <2> DEFINE old == Named("tmp", p, sequence'[p])
    <2>0. PICK new : new = File("tmp", p, sequence'[p], Broken)
        OBVIOUS
    <2>1. new.kind = "tmp" /\ new.owner = p /\ new.seq = sequence'[p]
        BY <2>0 DEF File
    <2>2. /\ temps' = (temps \ old) \cup {new} /\ faults' = faults
          /\ pc[p] = "save" /\ pc'[p] = "write"
        BY <1>0, <1>7, <2>0 DEF OpenTemporary, Go
    <2>3. /\ old \in SUBSET temps
          /\ \A t \in temps \ old : t.owner = p => ~(t.kind = "tmp" /\ t.seq = sequence'[p])
        BY DEF Named
    <2> HIDE DEF old
    <2>4. InUse(new)'
        BY <2>1, <2>2, UseOf DEF Filling
    <2>5. \A t \in temps \ old : t.owner = p => ~InUse(t) /\ (InUse(t)' => t = new)
        BY <2>2, <2>3, UseOf DEF Seeding, Filling
    <2> QED BY <2>1, <2>2, <2>3, <2>4, <2>5, NewUse
<1>8. CASE WriteTemporary(p)
    <2>0. PICK new : new = File("tmp", p, sequence[p], wanted[p])
        OBVIOUS
    <2>1. new.kind = "tmp" /\ new.owner = p /\ new.seq = sequence[p]
        BY <2>0 DEF File
    <2>2. /\ temps' = (temps \ Tmp(p)) \cup {new} /\ sequence' = sequence /\ faults' = faults
          /\ pc[p] = "write" /\ pc'[p] = "replace" /\ Tmp(p) \in SUBSET temps
        BY <1>0, <1>8, <2>0 DEF WriteTemporary, Go, Tmp, Named
    <2>3. InUse(new)'
        BY <2>1, <2>2, UseOf DEF Filling
    <2>4. \A t \in temps \ Tmp(p) : t.owner = p => ~InUse(t) /\ (InUse(t)' => t = new)
        BY <2>2, UseOf DEF Tmp, Named, Seeding, Filling
    <2> QED BY <2>1, <2>2, <2>3, <2>4, NewUse
<1>9. CASE RemoveSeed(p)
    <2>1. /\ pc[p] \in Seeding /\ pc'[p] \in {"idle", "failed"} /\ sequence' = sequence
          /\ \/ temps' = temps \ Seed(p) /\ faults' = faults
             \/ temps' = Abandoned(p) /\ faults' = faults + 1
        BY <1>0, <1>9 DEF RemoveSeed, Go, Seeding
    <2>2. CASE temps' = temps \ Seed(p) /\ faults' = faults
        <3>1. \A t \in temps \ Seed(p) : t.owner = p => ~InUse(t) /\ ~InUse(t)'
            BY <2>1, UseOf DEF Seed, Named, Seeding, Filling
        <3> QED BY <2>2, <3>1, EndOfUse
    <2>3. CASE temps' = Abandoned(p) /\ faults' = faults + 1
        <3>1. pc'[p] \notin Seeding \cup Filling /\ faults' \in Nat
            BY <1>0, <2>1, <2>3 DEF Seeding, Filling
        <3> QED BY <2>3, <3>1, AbandonLeaves
    <2> QED BY <2>1, <2>2, <2>3
<1>10. CASE Replace(p) \/ Discard(p) \/ WriteFails(p)
    <2>1. /\ pc[p] \in Filling /\ pc'[p] = "idle" /\ sequence' = sequence
          /\ \/ temps' = temps \ Tmp(p) /\ faults' = faults
             \/ temps' = temps /\ faults' = faults + 1
        BY <1>0, <1>10 DEF Replace, Discard, WriteFails, Go, Filling
    <2>2. CASE temps' = temps \ Tmp(p) /\ faults' = faults
        <3>1. \A t \in temps \ Tmp(p) : t.owner = p => ~InUse(t) /\ ~InUse(t)'
            BY <2>1, UseOf DEF Tmp, Named, Seeding, Filling
        <3> QED BY <2>2, <3>1, EndOfUse
    <2>3. CASE temps' = temps /\ faults' = faults + 1
        BY <2>1, <2>3, KeptLeaves
    <2> QED BY <2>1, <2>2, <2>3
<1>11. CASE Crash(p)
    <2>1. /\ temps' = Abandoned(p) /\ pc'[p] \notin Seeding \cup Filling
          /\ \/ faults' = faults /\ pc[p] \notin Seeding \cup Filling
             \/ faults' = faults + 1
        BY <1>0, <1>11 DEF Crash, Seeding, Filling
    <2>2. faults' \in Nat
        BY <1>0, <2>1
    <2> QED BY <2>1, <2>2, AbandonLeaves
<1> QED BY <1>1, <1>2, <1>3, <1>4, <1>5, <1>6, <1>7, <1>8, <1>9, <1>10, <1>11
        DEF Step, Initialise, SaveStep

(* A write that fails, a removal that fails and a crash at any point, with a
   restart under the same process id, leave at most one temporary file each;
   every other way out of initialising and saving removes what it made.      *)
THEOREM LeftoversBounded == Spec => []LeftoversExplained
<1>1. Init => LeftInv
    <2>1. Init => temps = {} /\ faults = 0
        BY DEF Init
    <2>2. temps = {} => Leftover = {}
        BY DEF Leftover
    <2> QED BY <2>1, <2>2, FS_EmptySet DEF LeftInv
<1>2. IInv /\ LeftInv /\ [Next]_vars => LeftInv'
    <2> SUFFICES ASSUME IInv, LeftInv, [Next]_vars PROVE LeftInv'
        OBVIOUS
    <2>1. CASE UNCHANGED vars
        BY <2>1 DEF vars, LeftInv, Leftover, InUse
    <2>2. CASE Next
        <3>1. PICK p \in Process : Step(p)
            BY <2>2 DEF Next, Step
        <3> QED BY <3>1, LeftStep
    <2> QED BY <2>1, <2>2
<1>3. LeftInv => LeftoversExplained
    BY DEF LeftInv, LeftoversExplained, Leftover
<1> QED BY <1>1, <1>2, <1>3, Inductive, PTL DEF Spec

(* More on natural numbers.                                                 *)

(* What holds of 0 and of each successor holds of every natural number.     *)
LEMMA Naturals ==
    ASSUME NEW T, 0 \in T, \A n \in Nat : n \in T => n + 1 \in T
    PROVE  Nat \subseteq T
<1> SUFFICES ASSUME Nat \ T # {} PROVE FALSE
    OBVIOUS
<1>1. PICK m \in Nat \ T : \A k \in Nat \ T : m <= k
    BY LeastNatural
<1>2. m # 0 /\ m - 1 \in Nat
    BY <1>1
<1>3. m - 1 \in T
    BY <1>1, <1>2
<1> QED BY <1>1, <1>2, <1>3

(* Taking away the largest of 1..k + 1 leaves 1..k.                         *)
LEMMA Largest ==
    ASSUME NEW k \in Nat
    PROVE  Max(1..(k + 1)) = k + 1 /\ 1..(k + 1) # {} /\ (1..(k + 1)) \ {k + 1} = 1..k
<1> DEFINE m == Max(1..(k + 1))
<1>1. m \in 1..(k + 1) /\ \A i \in 1..(k + 1) : i <= m
    <2>1. /\ 1..(k + 1) \in SUBSET Nat /\ 1..(k + 1) # {} /\ k + 1 \in Nat
          /\ \A i \in 1..(k + 1) : i <= k + 1
        OBVIOUS
    <2> DEFINE T == 1..(k + 1)
    <2> HIDE DEF T
    <2>2. Max(T) \in T /\ \A i \in T : i <= Max(T)
        BY <2>1, LargestNatural DEF T
    <2> QED BY <2>2 DEF T
<1> HIDE DEF m
<1>2. m = k + 1
    BY <1>1
<1> QED BY <1>2 DEF m

(* Without its largest member a set of numbers ends one earlier.             *)
LEMMA Removed ==
    ASSUME NEW k \in Nat, NEW s \in SUBSET (1..(k + 1)), s # {}
    PROVE  Max(s) \in s /\ s \ {Max(s)} \in SUBSET (1..k)
<1> DEFINE m == Max(s)
<1>1. s \in SUBSET Nat /\ k + 1 \in Nat /\ \A i \in s : i <= k + 1
    OBVIOUS
<1>2. m \in s /\ \A i \in s : i <= m
    BY <1>1, LargestNatural
<1> HIDE DEF m
<1>3. ASSUME NEW i \in s \ {m}
      PROVE  i \in 1..k
    <2>1. i \in Nat /\ i >= 1 /\ i <= m /\ i # m /\ m <= k + 1
        BY <1>1, <1>2
    <2>2. m \in Nat
        BY <1>1, <1>2
    <2> QED BY <2>1, <2>2
<1>4. m \in s /\ s \ {m} \in SUBSET (1..k)
    BY <1>2, <1>3
<1> QED BY <1>4 DEF m

(* The largest member of numbers up to n, and the others.                   *)
LEMMA LargestMember ==
    ASSUME NEW n \in Nat, NEW s \in SUBSET (1..n), s # {}
    PROVE  Max(s) \in 1..n /\ Max(s) \in s /\ s \ {Max(s)} \in SUBSET (1..n)
<1>1. s \in SUBSET Nat /\ \A i \in s : i <= n
    OBVIOUS
<1>2. Max(s) \in s
    BY <1>1, LargestNatural
<1> QED BY <1>2

-----------------------------------------------------------------------------
(* Folds: functions that step through the subsets of 1..n.                   *)

Stepped(g, s, base, step) ==
    g[s] = IF s = {} THEN base ELSE step[<<Max(s), g[s \ {Max(s)}]>>]
Solves(g, k, base, step) == \A s \in SUBSET (1..k) : Stepped(g, s, base, step)

(* The recursive functions that step through the subsets of 1..n exist: this
   one has the values that a step given as a function yields.               *)
LEMMA FoldExists ==
    ASSUME NEW n \in Nat, NEW V, NEW base \in V, NEW step \in [(1..n) \X V -> V]
    PROVE  \E g \in [SUBSET (1..n) -> V] : Solves(g, n, base, step)
<1> DEFINE Found(k) == \E g \in [SUBSET (1..n) -> V] : Solves(g, k, base, step)
           T == {k \in Nat : k <= n => Found(k)}
<1>1. 0 \in T
    <2> DEFINE g == [s \in SUBSET (1..n) |-> base]
    <2>1. Solves(g, 0, base, step) /\ g \in [SUBSET (1..n) -> V]
        BY DEF Solves, Stepped
    <2> QED BY <2>1
<1> HIDE DEF Found
<1>2. ASSUME NEW k \in Nat, k \in T, k + 1 <= n
      PROVE  Found(k + 1)
    <2>0. Found(k)
        BY <1>2
    <2>1. PICK g \in [SUBSET (1..n) -> V] : Solves(g, k, base, step)
        BY <2>0 DEF Found
    <2> DEFINE h == [s \in SUBSET (1..n) |->
                        IF s \in SUBSET (1..k) THEN g[s] ELSE IF Max(s) \in 1..n
                        THEN step[<<Max(s), g[s \ {Max(s)}]>>] ELSE base]
    <2>2. h \in [SUBSET (1..n) -> V]
        OBVIOUS
    <2>3. ASSUME NEW s \in SUBSET (1..(k + 1)), s # {}
          PROVE  Max(s) \in s /\ Max(s) \in 1..n /\ s \ {Max(s)} \in SUBSET (1..k)
        <3>1. Max(s) \in s /\ s \ {Max(s)} \in SUBSET (1..k)
            BY <2>3, Removed
        <3>2. Max(s) \in 1..(k + 1)
            BY <3>1
        <3>3. 1..(k + 1) \subseteq 1..n
            BY <1>2
        <3> QED BY <3>1, <3>2, <3>3
    <2>4. ASSUME NEW s \in SUBSET (1..(k + 1))
          PROVE  Stepped(h, s, base, step)
        <3>0. s \in SUBSET (1..n)
            BY <1>2
        <3>1. CASE s = {}
            <4>1. h[s] = g[s] /\ g[s] = base
                BY <2>1, <3>1 DEF Solves, Stepped
            <4> QED BY <3>1, <4>1 DEF Stepped
        <3>2. CASE s # {}
            <4>1. Max(s) \in 1..n /\ s \ {Max(s)} \in SUBSET (1..k) /\ s \ {Max(s)} \in SUBSET (1..n)
                BY <1>2, <2>3, <3>2
            <4>2. h[s \ {Max(s)}] = g[s \ {Max(s)}]
                BY <4>1
            <4>3. h[s] = step[<<Max(s), g[s \ {Max(s)}]>>]
                <5>1. CASE s \in SUBSET (1..k)
                    BY <2>1, <3>0, <3>2, <5>1 DEF Solves, Stepped
                <5>2. CASE s \notin SUBSET (1..k)
                    BY <3>0, <4>1, <5>2
                <5> QED BY <5>1, <5>2
            <4> HIDE DEF h
            <4> QED BY <3>2, <4>2, <4>3 DEF Stepped
        <3> QED BY <3>1, <3>2
    <2>5. Solves(h, k + 1, base, step)
        BY <2>4 DEF Solves
    <2> HIDE DEF h
    <2> QED BY <2>2, <2>5 DEF Found
<1>3. \A k \in Nat : k \in T => k + 1 \in T
    BY <1>2
<1>4. n \in T
    <2> HIDE DEF T
    <2> QED BY <1>1, <1>3, Naturals
<1>5. Found(n)
    BY <1>4
<1> QED BY <1>5 DEF Found

-----------------------------------------------------------------------------
(* FlattenSeq.  A recursive function is a CHOOSE: that one exists, and that it
   is the same for a longer sequence, is shown by induction.                *)

FlatBody(f, s, i) == IF i = 1 THEN s[i] ELSE f[i - 1] \o s[i]
Flat(s) == CHOOSE f : f = [i \in 1..Len(s) |-> FlatBody(f, s, i)]

(* FlattenSeq is the last value of that function.                           *)
LEMMA FlattenIs ==
    ASSUME NEW s, Len(s) # 0
    PROVE  FlattenSeq(s) = Flat(s)[Len(s)]
BY DEF FlattenSeq, Flat, FlatBody

(* The function exists.                                                     *)
LEMMA FlatExists ==
    ASSUME NEW s, NEW n \in Nat
    PROVE  \E f : f = [i \in 1..n |-> FlatBody(f, s, i)]
<1> DEFINE T == {m \in Nat : \E f : f = [i \in 1..m |-> FlatBody(f, s, i)]}
<1>1. 0 \in T
    <2> DEFINE f == [i \in 1..0 |-> 0]
    <2>1. f = [i \in 1..0 |-> FlatBody(f, s, i)]
        OBVIOUS
    <2> QED BY <2>1
<1>2. ASSUME NEW m \in Nat, m \in T
      PROVE  m + 1 \in T
    <2>1. PICK f : f = [i \in 1..m |-> FlatBody(f, s, i)]
        BY <1>2
    <2> DEFINE g == [i \in 1..(m + 1) |-> FlatBody(f, s, i)]
    <2>2. ASSUME NEW i \in 1..(m + 1)
          PROVE  g[i] = FlatBody(g, s, i)
        <3>1. CASE i = 1
            BY <3>1 DEF FlatBody
        <3>2. CASE i # 1
            <4>1. i - 1 \in 1..m /\ i - 1 \in 1..(m + 1)
                BY <3>2
            <4>2. g[i - 1] = f[i - 1]
                BY <2>1, <4>1
            <4> HIDE DEF g
            <4>3. g[i] = f[i - 1] \o s[i]
                BY <3>2 DEF g, FlatBody
            <4> QED BY <3>2, <4>2, <4>3 DEF FlatBody
        <3> QED BY <3>1, <3>2
    <2>3. g = [i \in 1..(m + 1) |-> FlatBody(g, s, i)]
        BY <2>2
    <2> HIDE DEF g
    <2> QED BY <2>3
<1>3. n \in T
    <2> HIDE DEF T
    <2> QED BY <1>1, <1>2, Naturals
<1> QED BY <1>3

(* What is chosen satisfies the recursion.                                  *)
LEMMA FlatDefined ==
    ASSUME NEW s, Len(s) \in Nat
    PROVE  \A i \in 1..Len(s) : Flat(s)[i] = FlatBody(Flat(s), s, i)
<1>1. \E f : f = [i \in 1..Len(s) |-> FlatBody(f, s, i)]
    BY FlatExists
<1>2. Flat(s) = [i \in 1..Len(s) |-> FlatBody(Flat(s), s, i)]
    BY <1>1 DEF Flat
<1> QED BY <1>2

(* It depends on the elements up to its argument only.                      *)
LEMMA FlatAgree ==
    ASSUME NEW s, NEW t, Len(s) \in Nat, Len(t) \in Nat, Len(s) <= Len(t),
           \A i \in 1..Len(s) : s[i] = t[i]
    PROVE  \A i \in 1..Len(s) : Flat(s)[i] = Flat(t)[i]
<1> DEFINE T == {i \in Nat : i \in 1..Len(s) => Flat(s)[i] = Flat(t)[i]}
<1>0. /\ \A i \in 1..Len(s) : Flat(s)[i] = FlatBody(Flat(s), s, i)
      /\ \A i \in 1..Len(s) : Flat(t)[i] = FlatBody(Flat(t), t, i)
    BY FlatDefined
<1>1. 0 \in T
    OBVIOUS
<1>2. ASSUME NEW n \in Nat, n \in T
      PROVE  n + 1 \in T
    <2>1. CASE n = 0
        BY <1>0, <2>1 DEF FlatBody
    <2>2. CASE n # 0 /\ n + 1 \in 1..Len(s)
        <3>1. n \in 1..Len(s) /\ (n + 1) - 1 = n /\ n + 1 # 1
            BY <2>2
        <3>2. Flat(s)[n] = Flat(t)[n]
            BY <1>2, <3>1
        <3>3. Flat(s)[n + 1] = Flat(s)[n] \o s[n + 1] /\ Flat(t)[n + 1] = Flat(t)[n] \o t[n + 1]
            BY <1>0, <2>2, <3>1 DEF FlatBody
        <3>4. s[n + 1] = t[n + 1]
            BY <2>2
        <3>5. Flat(s)[n + 1] = Flat(t)[n + 1]
            BY <3>2, <3>3, <3>4
        <3> QED BY <3>5
    <2> QED BY <2>1, <2>2
<1>3. Nat \subseteq T
    <2> HIDE DEF T
    <2> QED BY <1>1, <1>2, Naturals
<1> QED BY <1>3

(* Nothing flattens to nothing.                                             *)
LEMMA FlattenEmpty == FlattenSeq(<<>>) = <<>>
BY DEF FlattenSeq

(* One more sequence is put at the end.                                     *)
LEMMA FlattenAppend ==
    ASSUME NEW S, NEW s \in Seq(Seq(S)), NEW x \in Seq(S), FlattenSeq(s) \in Seq(S)
    PROVE  FlattenSeq(Append(s, x)) = FlattenSeq(s) \o x
<1> DEFINE t == Append(s, x)
<1>1. Len(s) \in Nat /\ Len(t) = Len(s) + 1 /\ t[Len(t)] = x
      /\ \A i \in 1..Len(s) : s[i] = t[i]
    OBVIOUS
<1> HIDE DEF t
<1>2. FlattenSeq(t) = Flat(t)[Len(t)] /\ Flat(t)[Len(t)] = FlatBody(Flat(t), t, Len(t))
    BY <1>1, FlattenIs, FlatDefined
<1>3. CASE Len(s) = 0
    <2>1. s = <<>>
        BY <1>3
    <2>2. FlattenSeq(t) = x
        BY <1>1, <1>2, <1>3 DEF FlatBody
    <2> QED BY <2>1, <2>2, FlattenEmpty DEF t
<1>4. CASE Len(s) # 0
    <2>1. FlattenSeq(t) = Flat(t)[Len(s)] \o x
        BY <1>1, <1>2, <1>4 DEF FlatBody
    <2>2. Flat(s)[Len(s)] = Flat(t)[Len(s)]
        <3>1. Len(s) \in 1..Len(s) /\ Len(t) \in Nat /\ Len(s) <= Len(t)
            BY <1>1, <1>4
        <3>2. \A i \in 1..Len(s) : Flat(s)[i] = Flat(t)[i]
            BY <1>1, <3>1, FlatAgree
        <3> QED BY <3>1, <3>2
    <2>3. FlattenSeq(s) = Flat(s)[Len(s)]
        BY <1>4, FlattenIs
    <2> QED BY <2>1, <2>2, <2>3 DEF t
<1> QED BY <1>3, <1>4

(* A sequence of sequences flattens to a sequence.                          *)
LEMMA FlattenType ==
    ASSUME NEW S, NEW s \in Seq(Seq(S))
    PROVE  FlattenSeq(s) \in Seq(S)
<1> DEFINE T == {n \in Nat : \A r \in Seq(Seq(S)) : Len(r) = n => FlattenSeq(r) \in Seq(S)}
<1>1. 0 \in T
    BY FlattenEmpty
<1>2. ASSUME NEW n \in Nat, n \in T
      PROVE  n + 1 \in T
    <2> SUFFICES ASSUME NEW r \in Seq(Seq(S)), Len(r) = n + 1
                 PROVE  FlattenSeq(r) \in Seq(S)
        OBVIOUS
    <2>1. PICK q \in Seq(Seq(S)), x \in Seq(S) : r = Append(q, x) /\ Len(q) = n
        <3> DEFINE q == SubSeq(r, 1, n)
        <3>1. q \in Seq(Seq(S)) /\ Len(q) = n /\ r[n + 1] \in Seq(S) /\ \A i \in 1..n : q[i] = r[i]
            OBVIOUS
        <3> HIDE DEF q
        <3>2. r = Append(q, r[n + 1])
            BY <3>1
        <3> QED BY <3>1, <3>2
    <2>2. FlattenSeq(q) \in Seq(S)
        BY <1>2, <2>1
    <2>3. FlattenSeq(r) = FlattenSeq(q) \o x
        BY <2>1, <2>2, FlattenAppend
    <2> QED BY <2>2, <2>3
<1>3. Nat \subseteq T
    <2> HIDE DEF T
    <2> QED BY <1>1, <1>2, Naturals
<1> QED BY <1>3

-----------------------------------------------------------------------------
(* The ids of an import, asked for one by one.                              *)

Added(list) ==
    IF list = None \/ ~ id_available(list) THEN None ELSE Append(list, [id |-> next_id(list)])

AddBody(g, existing, s) == IF s = {} THEN existing ELSE LET x == Max(s) IN Added(g[s \ {x}])
AddFold(existing, samples) ==
    CHOOSE g : g = [s \in SUBSET DOMAIN samples |-> AddBody(g, existing, s)]

LEMMA OneByOneIs ==
    ASSUME NEW samples, NEW existing, samples # <<>>
    PROVE  import_one_by_one(samples, existing) = AddFold(existing, samples)[DOMAIN samples]
BY DEF import_one_by_one, FoldLeft, MapThenFoldSet, AddFold, AddBody, Added

(* After an addition the largest id is one more, and an id is available while
   that is not the last.                                                     *)
LEMMA AddedLargest ==
    ASSUME NEW list \in Seq(Item), id_available(list)
    PROVE  /\ Added(list) = Append(list, [id |-> padded(largest_id(list) + 1)])
           /\ Added(list) \in Seq(Item) /\ largest_id(list) \in Nat
           /\ largest_id(Added(list)) = largest_id(list) + 1
           /\ id_available(Added(list)) <=> largest_id(list) + 1 < MaxId
<1> DEFINE l == largest_id(list)
           new == [id |-> next_id(list)]
           more == Append(list, new)
           values == {0} \cup {more[i].id.value : i \in DOMAIN more}
<1>1. l \in Nat /\ \A i \in DOMAIN list : list[i].id.value <= l
    BY LargestId
<1>2. Added(list) = more /\ more \in Seq(Item) /\ validate_ids(more)
    <2>1. list # None
        BY CatalogAssumption
    <2> QED BY <2>1, AddedId DEF Added
<1>3. new.id.value = l + 1 /\ new = [id |-> padded(l + 1)]
    <2>1. new = [id |-> padded(l + 1)]
        BY DEF next_id
    <2> HIDE DEF l
    <2>2. l + 1 \in Nat
        BY <1>1
    <2> DEFINE v == l + 1
    <2> HIDE DEF v
    <2>3. padded(v).value = v
        BY <2>2, PaddedId DEF v
    <2> QED BY <2>1, <2>3 DEF v
<1> HIDE DEF new, l
<1>4. Len(list) \in Nat /\ DOMAIN list = 1..Len(list)
      /\ DOMAIN more = 1..(Len(list) + 1) /\ more[Len(list) + 1] = new
      /\ \A i \in 1..Len(list) : more[i] = list[i]
    OBVIOUS
<1> HIDE DEF more
<1>5. \A i \in DOMAIN more : more[i].id.value <= l + 1 /\ more[i].id.value \in Int
    <2>1. \A i \in DOMAIN more : more[i] \in Item
        BY <1>2
    <2>2. \A i \in DOMAIN more : more[i].id.value \in Int
        BY <2>1 DEF Item
    <2>3. \A i \in 1..Len(list) : more[i].id.value <= l
        BY <1>1, <1>4
    <2> QED BY <1>1, <1>3, <1>4, <2>2, <2>3
<1>6. \A i \in DOMAIN more : more[i].id.value >= 0
    BY <1>2 DEF validate_ids, valid_sample_id
<1>7. l + 1 \in values /\ values \in SUBSET Nat /\ \A k \in values : k <= l + 1
    <2>1. Len(list) + 1 \in DOMAIN more
        BY <1>4
    <2>2. l + 1 \in values
        BY <1>3, <1>4, <2>1
    <2>3. \A k \in values : k = 0 \/ \E i \in DOMAIN more : k = more[i].id.value
        OBVIOUS
    <2> HIDE DEF values
    <2> QED BY <1>1, <1>5, <1>6, <2>2, <2>3
<1>8. Max(values) = l + 1
    <2> HIDE DEF values
    <2>1. Max(values) \in values /\ \A k \in values : k <= Max(values)
        <3>1. l + 1 \in Nat /\ values # {}
            BY <1>1, <1>7
        <3> QED BY <1>7, <3>1, LargestNatural
    <2> DEFINE m == Max(values)
    <2>2. m \in Nat /\ m <= l + 1 /\ l + 1 <= m
        BY <1>7, <2>1
    <2> HIDE DEF m
    <2>3. m = l + 1
        BY <1>1, <2>2
    <2> QED BY <2>3 DEF m
<1>9. largest_id(more) = l + 1
    BY <1>8 DEF largest_id
<1>10. id_available(more) <=> l + 1 < MaxId
    <2>1. (\A i \in DOMAIN more : more[i].id.value < MaxId) <=> l + 1 < MaxId
        <3>1. Len(list) + 1 \in DOMAIN more
            BY <1>4
        <3> QED BY <1>1, <1>3, <1>4, <1>5, <3>1, MaxIdAssumption
    <2> QED BY <1>2, <2>1 DEF id_available
<1> QED BY <1>1, <1>2, <1>3, <1>9, <1>10 DEF l, more

(* The first k samples.                                                     *)
Run(existing, k) == [i \in 1..k |-> [id |-> padded(largest_id(existing) + i)]]

LEMMA RunGrows ==
    ASSUME NEW existing \in Seq(Item), largest_id(existing) \in Nat, NEW k \in Nat
    PROVE  /\ Run(existing, k) \in Seq(Item)
           /\ existing \o Run(existing, k + 1)
                  = Append(existing \o Run(existing, k), [id |-> padded(largest_id(existing) + k + 1)])
<1> DEFINE e(i) == [id |-> padded(largest_id(existing) + i)]
           new == [id |-> padded(largest_id(existing) + k + 1)]
<1>1. \A i \in Nat : e(i) \in Item
    BY PaddedId
<1>2. e(k + 1) = new
    <2>1. largest_id(existing) + (k + 1) = largest_id(existing) + k + 1
        OBVIOUS
    <2> QED BY <2>1
<1>3. Run(existing, k) = [i \in 1..k |-> e(i)] /\ Run(existing, k + 1) = [i \in 1..(k + 1) |-> e(i)]
    BY DEF Run
<1> HIDE DEF e, new
<1> DEFINE a == Run(existing, k)
           b == Run(existing, k + 1)
<1>4. a \in Seq(Item) /\ Len(a) = k /\ b \in Seq(Item) /\ Len(b) = k + 1
      /\ (\A i \in 1..k : a[i] = e(i)) /\ (\A i \in 1..(k + 1) : b[i] = e(i)) /\ new \in Item
    <2>1. a \in [1..k -> Item] /\ b \in [1..(k + 1) -> Item]
        BY <1>1, <1>3
    <2>2. a \in Seq(Item) /\ b \in Seq(Item)
        BY <2>1, SeqDef
    <2> QED BY <1>1, <1>2, <1>3, <2>1, <2>2
<1> HIDE DEF a, b
<1>5. b = Append(a, new)
    BY <1>2, <1>4
<1>6. existing \o Append(a, new) = Append(existing \o a, new)
    BY <1>4
<1> QED BY <1>4, <1>5, <1>6 DEF a, b, new

(* What is there after k samples: the run of ids that fits, or nothing.      *)
Dealt(existing, k, list) ==
    IF largest_id(existing) + k > MaxId THEN list = None
    ELSE /\ list = existing \o Run(existing, k) /\ list \in Seq(Item)
         /\ largest_id(list) = largest_id(existing) + k
         /\ id_available(list) <=> largest_id(existing) + k < MaxId

LEMMA DealtNext ==
    ASSUME NEW existing \in Seq(Item), id_available(existing), NEW k \in Nat, NEW list,
           Dealt(existing, k, list)
    PROVE  Dealt(existing, k + 1, Added(list))
<1> DEFINE l == largest_id(existing)
<1>1. l \in Nat /\ MaxId \in Nat
    BY LargestId, MaxIdAssumption
<1>2. CASE l + k > MaxId
    <2>1. list = None
        BY <1>2 DEF Dealt
    <2>2. Added(list) = None
        BY <2>1 DEF Added
    <2>3. l + (k + 1) > MaxId
        BY <1>1, <1>2
    <2> QED BY <2>2, <2>3 DEF Dealt
<1>3. CASE l + k = MaxId
    <2>1. list \in Seq(Item) /\ ~id_available(list)
        BY <1>1, <1>3 DEF Dealt
    <2>2. Added(list) = None
        BY <2>1 DEF Added
    <2>3. l + (k + 1) > MaxId
        BY <1>1, <1>3
    <2> QED BY <2>2, <2>3 DEF Dealt
<1>4. CASE l + k < MaxId
    <2>1. /\ list = existing \o Run(existing, k) /\ list \in Seq(Item)
          /\ largest_id(list) = l + k /\ id_available(list)
        BY <1>1, <1>4 DEF Dealt
    <2>2. /\ Added(list) = Append(list, [id |-> padded(l + k + 1)])
          /\ Added(list) \in Seq(Item)
          /\ largest_id(Added(list)) = l + k + 1
          /\ id_available(Added(list)) <=> l + k + 1 < MaxId
        <3>1. /\ Added(list) = Append(list, [id |-> padded(largest_id(list) + 1)])
              /\ Added(list) \in Seq(Item)
              /\ largest_id(Added(list)) = largest_id(list) + 1
              /\ id_available(Added(list)) <=> largest_id(list) + 1 < MaxId
            BY <2>1, AddedLargest
        <3> QED BY <2>1, <3>1
    <2>3. existing \o Run(existing, k + 1) = Append(list, [id |-> padded(l + k + 1)])
        BY <1>1, <2>1, RunGrows
    <2>4. l + (k + 1) = l + k + 1 /\ ~(l + (k + 1) > MaxId)
        BY <1>1, <1>4
    <2> QED BY <2>2, <2>3, <2>4 DEF Dealt
<1> QED BY <1>1, <1>2, <1>3, <1>4

LEMMA DealtFirst ==
    ASSUME NEW existing \in Seq(Item), id_available(existing)
    PROVE  Dealt(existing, 0, existing)
<1> DEFINE l == largest_id(existing)
           values == {0} \cup {existing[i].id.value : i \in DOMAIN existing}
<1>1. l \in Nat /\ MaxId \in Nat \ {0} /\ l < MaxId
    <2>1. l \in Nat /\ MaxId \in Nat \ {0}
        BY LargestId, MaxIdAssumption
    <2>2. \A k \in values : k < MaxId
        BY MaxIdAssumption DEF id_available
    <2>3. \A k \in values : k \in Nat
        <3>1. \A i \in DOMAIN existing : existing[i] \in Item
            OBVIOUS
        <3> QED BY <3>1 DEF id_available, validate_ids, valid_sample_id, Item
    <2>4. Max(values) \in values
        <3>0. values # {}
            OBVIOUS
        <3> HIDE DEF values
        <3>1. values \in SUBSET Nat /\ values # {} /\ \A k \in values : k <= MaxId
            BY <2>1, <2>2, <2>3, <3>0
        <3> QED BY <2>1, <3>1, LargestNatural
    <2>5. l = Max(values)
        BY DEF largest_id
    <2> HIDE DEF l, values
    <2> QED BY <2>1, <2>2, <2>4, <2>5
<1>2. Run(existing, 0) = <<>>
    BY DEF Run
<1>3. existing \o <<>> = existing
    BY ConcatEmptySeq
<1>4. l + 0 = l
    BY <1>1
<1> QED BY <1>1, <1>2, <1>3, <1>4 DEF Dealt

LEMMA OneByOne ==
    ASSUME NEW samples \in Seq(Seq(STRING)), NEW existing \in Seq(Item)
    PROVE  import_one_by_one(samples, existing) = import_file(samples, existing)
<1> DEFINE n == Len(samples)
           V == Seq(Item) \cup {None}
           step == [p \in (1..n) \X V |-> Added(p[2])]
           h == AddFold(existing, samples)
<1>1. n \in Nat /\ DOMAIN samples = 1..n
    OBVIOUS
<1>2. CASE samples = <<>>
    BY <1>2 DEF import_one_by_one, import_file
<1>3. CASE samples # <<>>
    <2>0. n \in Nat /\ n # 0
        BY <1>3
    <2>1. \A v \in V : Added(v) \in V
        BY AddedLargest DEF Added
    <2> HIDE DEF n
    <2>2. step \in [(1..n) \X V -> V]
        BY <2>1
    <2>3. PICK g \in [SUBSET (1..n) -> V] : Solves(g, n, existing, step)
        <3> HIDE DEF step
        <3>1. existing \in V
            OBVIOUS
        <3> HIDE DEF V
        <3> QED BY <1>1, <2>2, <3>1, FoldExists
    <2> HIDE DEF V
    <2>4. ASSUME NEW s \in SUBSET (1..n)
          PROVE  g[s] = AddBody(g, existing, s)
        <3>1. CASE s = {}
            BY <2>3, <3>1 DEF Solves, Stepped, AddBody
        <3>2. CASE s # {}
            <4> DEFINE x == Max(s)
            <4>1. x \in 1..n /\ s \ {x} \in SUBSET (1..n)
                BY <1>1, <3>2, LargestMember
            <4> HIDE DEF x
            <4>2. g[s] = step[<<x, g[s \ {x}]>>]
                BY <2>3, <3>2 DEF Solves, Stepped, x
            <4>3. step[<<x, g[s \ {x}]>>] = Added(g[s \ {x}])
                BY <4>1
            <4> HIDE DEF step
            <4> QED BY <3>2, <4>2, <4>3 DEF AddBody, x
        <3> QED BY <3>1, <3>2
    <2>5. h = [s \in SUBSET (1..n) |-> AddBody(h, existing, s)]
        <3>1. g = [s \in SUBSET DOMAIN samples |-> AddBody(g, existing, s)]
            BY <1>1, <2>4
        <3>2. h = [s \in SUBSET DOMAIN samples |-> AddBody(h, existing, s)]
            BY <3>1 DEF AddFold
        <3> QED BY <1>1, <3>2
    <2> HIDE DEF h
    <2>6. h[1..0] = existing
        BY <2>5 DEF AddBody
    <2>7. \A k \in Nat : k + 1 <= n => h[1..(k + 1)] = Added(h[1..k])
        <3> SUFFICES ASSUME NEW k \in Nat, k + 1 <= n PROVE h[1..(k + 1)] = Added(h[1..k])
            OBVIOUS
        <3>1. 1..(k + 1) \in SUBSET (1..n)
            BY <1>1
        <3>2. h[1..(k + 1)] = AddBody(h, existing, 1..(k + 1))
            BY <2>5, <3>1
        <3>3. Max(1..(k + 1)) = k + 1 /\ 1..(k + 1) # {} /\ (1..(k + 1)) \ {k + 1} = 1..k
            BY Largest
        <3> QED BY <3>2, <3>3 DEF AddBody
    <2>8. import_one_by_one(samples, existing) = h[1..n]
        BY <1>1, <1>3, OneByOneIs DEF h
    <2>9. CASE id_available(existing)
        <3> DEFINE T == {k \in Nat : k <= n => Dealt(existing, k, h[1..k])}
        <3>1. 0 \in T
            BY <2>6, <2>9, DealtFirst
        <3>2. ASSUME NEW k \in Nat, k \in T
              PROVE  k + 1 \in T
            <4>1. CASE k + 1 <= n
                <5>1. Dealt(existing, k, h[1..k])
                    BY <1>1, <3>2, <4>1
                <5>2. Dealt(existing, k + 1, Added(h[1..k]))
                    BY <2>9, <5>1, DealtNext
                <5> QED BY <2>7, <4>1, <5>2
            <4>2. CASE ~(k + 1 <= n)
                BY <4>2
            <4> QED BY <4>1, <4>2
        <3>3. n \in T
            <4> HIDE DEF T
            <4> QED BY <1>1, <3>1, <3>2, Naturals
        <3>4. Dealt(existing, n, h[1..n])
            BY <1>1, <3>3
        <3>5. import_file(samples, existing)
                  = IF largest_id(existing) + n > MaxId THEN None ELSE existing \o Run(existing, n)
            BY <1>1, <1>3, <2>9 DEF import_file, Run, n
        <3> QED BY <2>8, <3>4, <3>5 DEF Dealt
    <2>10. CASE ~id_available(existing)
        <3> DEFINE T == {k \in Nat : k + 1 <= n => h[1..(k + 1)] = None}
        <3>1. 0 \in T
            <4>1. h[1..1] = Added(h[1..0])
                <5>1. 0 \in Nat /\ 0 + 1 <= n /\ 0 + 1 = 1
                    BY <2>0
                <5>2. h[1..(0 + 1)] = Added(h[1..0])
                    BY <2>7, <5>1
                <5> QED BY <5>1, <5>2
            <4>2. h[1..1] = None
                BY <2>6, <2>10, <4>1 DEF Added
            <4> QED BY <4>2
        <3>2. ASSUME NEW k \in Nat, k \in T
              PROVE  k + 1 \in T
            <4>1. CASE (k + 1) + 1 <= n
                <5>1. h[1..(k + 1)] = None
                    BY <1>1, <3>2, <4>1
                <5>2. k + 1 \in Nat
                    OBVIOUS
                <5>3. h[1..((k + 1) + 1)] = Added(h[1..(k + 1)])
                    BY <2>7, <4>1, <5>2
                <5>4. h[1..((k + 1) + 1)] = None
                    BY <5>1, <5>3 DEF Added
                <5> QED BY <5>2, <5>4
            <4>2. CASE ~((k + 1) + 1 <= n)
                BY <4>2
            <4> QED BY <4>1, <4>2
        <3>3. n - 1 \in T
            <4>1. n - 1 \in Nat
                BY <2>0
            <4> HIDE DEF T
            <4> QED BY <3>1, <3>2, <4>1, Naturals
        <3>4. h[1..n] = None
            BY <2>0, <3>3
        <3>5. import_file(samples, existing) = None
            BY <2>10 DEF import_file
        <3> QED BY <2>8, <3>4, <3>5
    <2> QED BY <2>9, <2>10
<1> QED BY <1>2, <1>3

-----------------------------------------------------------------------------
(* The reader's loop: a text is read from one state to another.             *)

State(D) ==
    [rows : Seq(Seq(Seq(D))), row : Seq(Seq(D)), field : Seq(D), quoted : BOOLEAN,
     quote_closed : BOOLEAN, row_started : BOOLEAN, skip : BOOLEAN, error : BOOLEAN]

LEMMA StartType == ASSUME NEW D PROVE Start \in State(D)
BY DEF Start, State

LEMMA FinishType ==
    ASSUME NEW D, NEW s \in State(D)
    PROVE  finish_field(s) \in State(D) /\ finish_row(s) \in State(D)
<1> DEFINE row == Append(s.row, s.field)
           some == s.row_started \/ s.field # <<>> \/ s.row # <<>> \/ s.quote_closed
           rows == IF some THEN Append(s.rows, row) ELSE s.rows
           R == Seq(Seq(D))
<1>1. s.rows \in Seq(R) /\ s.row \in Seq(Seq(D)) /\ s.field \in Seq(D)
    BY DEF State
<1>2. row \in R
    <2> DEFINE F == Seq(D)
    <2> HIDE DEF F
    <2>1. s.row \in Seq(F) /\ s.field \in F
        BY <1>1 DEF F
    <2>2. Append(s.row, s.field) \in Seq(F)
        BY <2>1
    <2> QED BY <2>2 DEF F
<1> HIDE DEF row, some, R
<1>3. rows \in Seq(R)
    BY <1>1, <1>2
<1>4. finish_field(s) = [s EXCEPT !.row = row, !.field = <<>>, !.quote_closed = FALSE]
    BY DEF finish_field, row
<1>5. finish_row(s) = [s EXCEPT !.rows = rows, !.row = <<>>, !.field = <<>>,
                                !.row_started = FALSE, !.quote_closed = FALSE]
    BY DEF finish_row, row, some
<1> HIDE DEF rows
<1> DEFINE A == Seq(R)
           C == Seq(D)
<1>6. /\ State(D) = [rows : A, row : R, field : C, quoted : BOOLEAN, quote_closed : BOOLEAN,
                     row_started : BOOLEAN, skip : BOOLEAN, error : BOOLEAN]
      /\ <<>> \in R /\ <<>> \in C /\ row \in R /\ rows \in A
    BY <1>2, <1>3 DEF State, R
<1> DEFINE empty == <<>>
<1> HIDE DEF A, C, empty
<1>7. finish_field(s) = [s EXCEPT !.row = row, !.field = empty, !.quote_closed = FALSE]
    BY <1>4 DEF empty
<1>8. finish_row(s) = [s EXCEPT !.rows = rows, !.row = empty, !.field = empty,
                                !.row_started = FALSE, !.quote_closed = FALSE]
    BY <1>5 DEF empty
<1>9. empty \in R /\ empty \in C
    BY <1>6 DEF empty
<1>10. finish_field(s) \in State(D)
    BY <1>6, <1>7, <1>9
<1>11. finish_row(s) \in State(D)
    BY <1>6, <1>8, <1>9
<1> QED BY <1>10, <1>11

LEMMA FieldType ==
    ASSUME NEW D, NEW s \in State(D), NEW v \in D
    PROVE  [s EXCEPT !.field = Append(@, v)] \in State(D)
<1> DEFINE field == Append(s.field, v)
<1>1. field \in Seq(D)
    BY DEF State
<1>2. [s EXCEPT !.field = Append(@, v)] = [s EXCEPT !.field = field]
    OBVIOUS
<1> HIDE DEF field
<1> QED BY <1>1, <1>2 DEF State

(* The four symbols that the reader tells apart are four.                   *)
LEMMA Distinct ==
    /\ Quote # Comma /\ Quote # CR /\ Quote # LF /\ Quote # NUL
    /\ Comma # CR /\ Comma # LF /\ Comma # NUL /\ CR # LF /\ CR # NUL /\ LF # NUL
BY DEF Quote, Comma, CR, LF, NUL

(* What the reader does, case by case.                                      *)
Doubled(s) == [s EXCEPT !.field = Append(@, Quote), !.skip = TRUE]
Closed(s) == [s EXCEPT !.quoted = FALSE, !.quote_closed = TRUE]
LineBroken(s, next) == [s EXCEPT !.field = Append(@, LF), !.skip = (next = LF)]
Extended(s, v) == [s EXCEPT !.field = Append(@, v)]

LEMMA Quoted ==
    ASSUME NEW s, NEW v, NEW next
    PROVE  /\ v = Quote /\ next = Quote => scan_quoted(s, v, next) = Doubled(s)
           /\ v = Quote /\ next # Quote => scan_quoted(s, v, next) = Closed(s)
           /\ v = CR => scan_quoted(s, v, next) = LineBroken(s, next)
           /\ v # Quote /\ v # CR => scan_quoted(s, v, next) = Extended(s, v)
<1>1. scan_quoted(s, v, next) = CASE v = Quote /\ next = Quote -> Doubled(s)
                                  [] v = Quote /\ next # Quote -> Closed(s)
                                  [] v = CR -> LineBroken(s, next)
                                  [] OTHER -> Extended(s, v)
    BY DEF scan_quoted, Doubled, Closed, LineBroken, Extended
<1> QED BY <1>1, Distinct

LEMMA Plain ==
    ASSUME NEW s, NEW v, NEW next
    PROVE  /\ v = Comma => scan_plain(s, v, next) = [finish_field(s) EXCEPT !.row_started = TRUE]
           /\ v \in {CR, LF} =>
                  scan_plain(s, v, next) = [finish_row(s) EXCEPT !.skip = (v = CR /\ next = LF)]
           /\ v # Comma /\ v \notin {CR, LF} => scan_plain(s, v, next) = scan_field(s, v)
<1> DEFINE a == [finish_field(s) EXCEPT !.row_started = TRUE]
           b == [finish_row(s) EXCEPT !.skip = (v = CR /\ next = LF)]
           c == scan_field(s, v)
           r == scan_plain(s, v, next)
<1>1. r = CASE v = Comma -> a [] v \in {CR, LF} -> b [] OTHER -> c
    BY DEF scan_plain
<1> HIDE DEF r, a, b, c
<1>2. /\ v = Comma => r = a
      /\ v \in {CR, LF} => r = b
      /\ v # Comma /\ v \notin {CR, LF} => r = c
    BY <1>1, Distinct
<1> QED BY <1>2 DEF r, a, b, c

LEMMA ScanType ==
    ASSUME NEW D, LF \in D, Quote \in D, NEW s \in State(D), NEW v \in D, NEW next
    PROVE  scan(s, v, next) \in State(D)
<1>1. /\ [s EXCEPT !.error = TRUE] \in State(D) /\ [s EXCEPT !.skip = FALSE] \in State(D)
      /\ [s EXCEPT !.quoted = FALSE, !.quote_closed = TRUE] \in State(D)
      /\ [s EXCEPT !.quoted = TRUE, !.row_started = TRUE] \in State(D)
    BY DEF State
<1>2. ASSUME NEW c \in D, NEW b \in BOOLEAN
      PROVE  /\ [s EXCEPT !.field = Append(@, c)] \in State(D)
             /\ [s EXCEPT !.field = Append(@, c), !.skip = b] \in State(D)
             /\ [s EXCEPT !.field = Append(@, c), !.row_started = TRUE] \in State(D)
    <2> DEFINE field == Append(s.field, c)
    <2>1. field \in Seq(D)
        BY DEF State
    <2> HIDE DEF field
    <2>2. /\ [s EXCEPT !.field = field] \in State(D)
          /\ [s EXCEPT !.field = field, !.skip = b] \in State(D)
          /\ [s EXCEPT !.field = field, !.row_started = TRUE] \in State(D)
        BY <2>1 DEF State
    <2> QED BY <2>2 DEF field
<1>3. scan_quoted(s, v, next) \in State(D)
    <2> DEFINE lf == next = LF
    <2>1. lf \in BOOLEAN
        OBVIOUS
    <2> HIDE DEF lf
    <2>2. /\ [s EXCEPT !.field = Append(@, Quote), !.skip = TRUE] \in State(D)
          /\ [s EXCEPT !.field = Append(@, LF), !.skip = lf] \in State(D)
          /\ [s EXCEPT !.field = Append(@, v)] \in State(D)
        BY <1>2, <2>1
    <2>3. [s EXCEPT !.field = Append(@, LF), !.skip = (next = LF)] \in State(D)
        BY <2>2 DEF lf
    <2>4. /\ Doubled(s) \in State(D) /\ Closed(s) \in State(D)
          /\ LineBroken(s, next) \in State(D) /\ Extended(s, v) \in State(D)
        BY <1>1, <2>2, <2>3 DEF Doubled, Closed, LineBroken, Extended
    <2> QED BY <2>4, Quoted
<1>4. scan_field(s, v) \in State(D)
    <2>1. /\ [s EXCEPT !.field = Append(@, v), !.row_started = TRUE] \in State(D)
        BY <1>2
    <2> QED BY <1>1, <2>1, Zenon DEF scan_field
<1>5. scan_plain(s, v, next) \in State(D)
    <2>1. CASE v = Comma
        <3> DEFINE t == finish_field(s)
        <3>1. t \in State(D)
            BY FinishType
        <3>2. scan_plain(s, v, next) = [t EXCEPT !.row_started = TRUE]
            BY <2>1, Plain DEF t
        <3> HIDE DEF t
        <3>3. [t EXCEPT !.row_started = TRUE] \in State(D)
            BY <3>1 DEF State
        <3> QED BY <3>2, <3>3
    <2>2. CASE v \in {CR, LF}
        <3> DEFINE t == finish_row(s)
                   b == v = CR /\ next = LF
        <3>1. t \in State(D) /\ b \in BOOLEAN
            BY FinishType
        <3>3. scan_plain(s, v, next) = [t EXCEPT !.skip = b]
            BY <2>2, Plain DEF t, b
        <3> HIDE DEF t, b
        <3>4. [t EXCEPT !.skip = b] \in State(D)
            BY <3>1 DEF State
        <3> QED BY <3>3, <3>4
    <2>3. CASE v # Comma /\ v \notin {CR, LF}
        BY <1>4, <2>3, Plain, Zenon
    <2> QED BY <2>1, <2>2, <2>3
<1> QED BY <1>1, <1>3, <1>5, Zenon DEF scan

After(text, i, next) == IF i < Len(text) THEN text[i + 1] ELSE next

(* From s the text, with next after it, is read to t.                        *)
Traces(f, s, text, next, t) ==
    /\ f[0] = s /\ f[Len(text)] = t
    /\ \A i \in 1..Len(text) : f[i] = scan(f[i - 1], text[i], After(text, i, next))
Reads(s, text, next, t) == \E f : Traces(f, s, text, next, t)

Ahead(text, next) == IF Len(text) = 0 THEN next ELSE text[1]

LEMMA ReadsNothing == ASSUME NEW s, NEW next PROVE Reads(s, <<>>, next, s)
<1> DEFINE f == [i \in {0} |-> s]
<1>1. Traces(f, s, <<>>, next, s)
    BY DEF Traces
<1> QED BY <1>1 DEF Reads

LEMMA ReadsOne ==
    ASSUME NEW s, NEW v, NEW next
    PROVE  Reads(s, <<v>>, next, scan(s, v, next))
<1> DEFINE f == [i \in {0, 1} |-> IF i = 0 THEN s ELSE scan(s, v, next)]
<1>1. f[0] = s /\ f[1] = scan(s, v, next)
    OBVIOUS
<1> HIDE DEF f
<1>2. Len(<<v>>) = 1 /\ <<v>>[1] = v
    OBVIOUS
<1>3. After(<<v>>, 1, next) = next
    BY <1>2 DEF After
<1>4. Traces(f, s, <<v>>, next, scan(s, v, next))
    BY <1>1, <1>2, <1>3 DEF Traces
<1> QED BY <1>4 DEF Reads

(* One text after another.                                                  *)
LEMMA ReadsBoth ==
    ASSUME NEW S, NEW a \in Seq(S), NEW b \in Seq(S), NEW s, NEW u, NEW t, NEW next,
           Reads(s, a, Ahead(b, next), u), Reads(u, b, next, t)
    PROVE  Reads(s, a \o b, next, t)
<1> DEFINE m == Len(a)
           n == Len(b)
           text == a \o b
<1>1. m \in Nat /\ n \in Nat /\ Len(text) = m + n
      /\ (\A i \in 1..m : text[i] = a[i]) /\ (\A i \in 1..n : text[m + i] = b[i])
    <2>1. m \in Nat /\ n \in Nat
        OBVIOUS
    <2>2. /\ Len(text) = m + n
          /\ \A i \in 1..(m + n) : text[i] = IF i <= m THEN a[i] ELSE b[i - m]
        BY ConcatProperties
    <2> HIDE DEF m, n, text
    <2>3. \A i \in 1..m : text[i] = a[i]
        BY <2>1, <2>2
    <2>4. ASSUME NEW i \in 1..n PROVE text[m + i] = b[i]
        <3>1. m + i \in 1..(m + n) /\ ~(m + i <= m) /\ (m + i) - m = i
            BY <2>1
        <3> QED BY <2>2, <3>1
    <2> QED BY <2>1, <2>2, <2>3, <2>4
<1>2. PICK f : Traces(f, s, a, Ahead(b, next), u)
    BY DEF Reads
<1>3. PICK g : Traces(g, u, b, next, t)
    BY DEF Reads
<1> HIDE DEF text
<1> DEFINE h == [i \in 0..(m + n) |-> IF i <= m THEN f[i] ELSE g[i - m]]
<1>4. f[0] = s /\ f[m] = u /\ g[0] = u /\ g[n] = t
      /\ (\A i \in 1..m : f[i] = scan(f[i - 1], a[i], After(a, i, Ahead(b, next))))
      /\ (\A i \in 1..n : g[i] = scan(g[i - 1], b[i], After(b, i, next)))
    BY <1>2, <1>3 DEF Traces
<1>5. ASSUME NEW i \in 1..m
      PROVE  h[i] = scan(h[i - 1], text[i], After(text, i, next))
    <2>0. i \in Nat /\ i >= 1 /\ i <= m /\ i \in 0..(m + n) /\ i - 1 \in 0..(m + n) /\ i - 1 <= m
        BY <1>1
    <2>1. After(text, i, next) = After(a, i, Ahead(b, next))
        <3>1. CASE i < m
            <4>1. i + 1 \in 1..m /\ i < m + n
                BY <1>1, <2>0, <3>1
            <4> HIDE DEF m, n
            <4> QED BY <1>1, <3>1, <4>1 DEF After, m
        <3>2. CASE i = m /\ n # 0
            <4>1. 1 \in 1..n /\ i < m + n /\ text[m + 1] = b[1]
                BY <1>1, <2>0, <3>2
            <4>2. After(text, i, next) = b[1]
                BY <1>1, <3>2, <4>1 DEF After
            <4>3. After(a, i, Ahead(b, next)) = b[1]
                BY <1>1, <3>2 DEF After, Ahead
            <4> QED BY <4>2, <4>3
        <3>3. CASE i = m /\ n = 0
            BY <1>1, <2>0, <3>3 DEF After, Ahead
        <3> QED BY <1>1, <2>0, <3>1, <3>2, <3>3
    <2>2. h[i] = f[i] /\ h[i - 1] = f[i - 1] /\ text[i] = a[i]
        BY <1>1, <2>0
    <2> QED BY <1>4, <2>1, <2>2
<1>6. ASSUME NEW i \in 1..n
      PROVE  h[m + i] = scan(h[m + i - 1], text[m + i], After(text, m + i, next))
    <2>0. i \in Nat /\ i >= 1 /\ i <= n /\ m + i \in 0..(m + n) /\ m + i - 1 \in 0..(m + n)
          /\ ~(m + i <= m) /\ (m + i) - m = i
        BY <1>1
    <2>1. After(text, m + i, next) = After(b, i, next)
        <3>1. CASE i < n
            <4>1. i + 1 \in 1..n /\ m + i < m + n /\ m + (i + 1) = (m + i) + 1
                BY <1>1, <2>0, <3>1
            <4>2. text[(m + i) + 1] = b[i + 1]
                <5>1. text[m + (i + 1)] = b[i + 1]
                    BY <1>1, <4>1
                <5> QED BY <4>1, <5>1
            <4> QED BY <1>1, <3>1, <4>1, <4>2 DEF After
        <3>2. CASE ~(i < n)
            <4>1. ~(m + i < m + n)
                BY <1>1, <2>0, <3>2
            <4> QED BY <1>1, <3>2, <4>1 DEF After
        <3> QED BY <3>1, <3>2
    <2>2. h[m + i] = g[i]
        BY <2>0
    <2>3. h[m + i - 1] = g[i - 1]
        <3>1. CASE i = 1
            <4>1. m + i - 1 = m /\ i - 1 = 0 /\ m \in 0..(m + n) /\ m <= m
                BY <1>1, <3>1
            <4>2. h[m] = f[m]
                BY <4>1
            <4> HIDE DEF h
            <4> QED BY <1>4, <4>1, <4>2
        <3>2. CASE i # 1
            <4>1. ~(m + i - 1 <= m) /\ (m + i - 1) - m = i - 1
                BY <1>1, <2>0, <3>2
            <4> QED BY <2>0, <4>1
        <3> QED BY <3>1, <3>2
    <2>4. text[m + i] = b[i]
        BY <1>1
    <2> QED BY <1>4, <2>1, <2>2, <2>3, <2>4
<1>7. h[0] = s /\ h[m + n] = t
    <2>1. h[0] = f[0]
        BY <1>1
    <2>2. h[m + n] = t
        <3>1. CASE n = 0
            BY <1>1, <1>4, <3>1
        <3>2. CASE n # 0
            <4>1. m + n \in 0..(m + n) /\ ~(m + n <= m) /\ (m + n) - m = n
                BY <1>1, <3>2
            <4> QED BY <1>4, <4>1
        <3> QED BY <3>1, <3>2
    <2> QED BY <1>4, <2>1, <2>2
<1> HIDE DEF h
<1>8. ASSUME NEW i \in 1..(m + n)
      PROVE  h[i] = scan(h[i - 1], text[i], After(text, i, next))
    <2>1. CASE i \in 1..m
        BY <1>5, <2>1
    <2>2. CASE i \notin 1..m
        <3> DEFINE j == i - m
        <3>1. j \in 1..n /\ i = m + j
            BY <1>1, <2>2
        <3> HIDE DEF j
        <3> QED BY <1>6, <3>1
    <2> QED BY <2>1, <2>2
<1>9. Traces(h, s, text, next, t)
    <2> HIDE DEF m, n
    <2> QED BY <1>1, <1>7, <1>8 DEF Traces
<1> QED BY <1>9 DEF Reads, text

(* parse_csv is the end of such a reading from Start.                       *)
Behind == ""
Turn(input, s, i) == scan(s, input[i], After(input, i, Behind))
ReadBody(g, input, s) ==
    IF s = {} THEN Start
    ELSE LET x == Max(s) IN Turn(input, g[s \ {x}], [i \in 1..Len(input) |-> i][x])
ReadFold(input) ==
    CHOOSE g : g = [s \in SUBSET DOMAIN [i \in 1..Len(input) |-> i] |-> ReadBody(g, input, s)]
Parsed(t) == IF t.error \/ t.quoted THEN [error |-> TRUE, rows |-> <<>>]
             ELSE [error |-> FALSE, rows |-> finish_row(t).rows]

LEMMA ParseFold ==
    ASSUME NEW input
    PROVE  parse_csv(input) = Parsed(ReadFold(input)[DOMAIN [i \in 1..Len(input) |-> i]])
BY DEF parse_csv, FoldLeft, MapThenFoldSet, ReadFold, ReadBody, Turn, After, Behind, Parsed

LEMMA ParseIs ==
    ASSUME NEW D, LF \in D, Quote \in D, NEW input \in Seq(D), NEW t,
           Reads(Start, input, Behind, t)
    PROVE  parse_csv(input) = Parsed(t)
<1> DEFINE n == Len(input)
           index == [i \in 1..n |-> i]
           V == State(D)
           step == [p \in (1..n) \X V |-> Turn(input, p[2], p[1])]
           h == ReadFold(input)
<1>1. n \in Nat /\ \A i \in 1..n : input[i] \in D
    OBVIOUS
<1>2. \A i \in 1..n : \A v \in V : Turn(input, v, i) \in V
    BY <1>1, ScanType DEF Turn
<1>3. Start \in V
    BY StartType
<1> HIDE DEF n, V
<1>4. step \in [(1..n) \X V -> V]
    <2>1. \A p \in (1..n) \X V : Turn(input, p[2], p[1]) \in V
        BY <1>2
    <2> QED BY <2>1
<1>5. PICK g \in [SUBSET (1..n) -> V] : Solves(g, n, Start, step)
    <2> HIDE DEF step
    <2> QED BY <1>1, <1>3, <1>4, FoldExists
<1>6. DOMAIN index = 1..n /\ \A i \in 1..n : index[i] = i
    OBVIOUS
<1>7. \A g1 : \A s : ReadBody(g1, input, s) = IF s = {} THEN Start ELSE
                Turn(input, g1[s \ {Max(s)}], index[Max(s)])
    BY DEF ReadBody, index, n
<1>8. h = CHOOSE g1 : g1 = [s \in SUBSET DOMAIN index |-> ReadBody(g1, input, s)]
    BY DEF ReadFold, index, n
<1>9. parse_csv(input) = Parsed(h[DOMAIN index])
    BY ParseFold DEF h, index, n
<1> HIDE DEF index, h
<1>10. ASSUME NEW s \in SUBSET (1..n)
      PROVE  g[s] = ReadBody(g, input, s)
    <2>1. CASE s = {}
        BY <1>5, <1>7, <2>1 DEF Solves, Stepped
    <2>2. CASE s # {}
        <3> DEFINE x == Max(s)
        <3>1. x \in 1..n /\ s \ {x} \in SUBSET (1..n)
            BY <1>1, <2>2, LargestMember
        <3> HIDE DEF x
        <3>2. g[s] = step[<<x, g[s \ {x}]>>]
            BY <1>5, <2>2 DEF Solves, Stepped, x
        <3>3. step[<<x, g[s \ {x}]>>] = Turn(input, g[s \ {x}], x)
            BY <3>1
        <3> HIDE DEF step
        <3>4. ReadBody(g, input, s) = Turn(input, g[s \ {x}], index[x])
            BY <1>7, <2>2 DEF x
        <3> QED BY <1>6, <3>1, <3>2, <3>3, <3>4
    <2> QED BY <2>1, <2>2
<1>11. h = [s \in SUBSET (1..n) |-> ReadBody(h, input, s)]
    <2>1. g = [s \in SUBSET DOMAIN index |-> ReadBody(g, input, s)]
        BY <1>6, <1>10
    <2>2. h = [s \in SUBSET DOMAIN index |-> ReadBody(h, input, s)]
        BY <1>8, <2>1
    <2> QED BY <1>6, <2>2
<1>12. h[1..0] = Start
    BY <1>7, <1>11
<1>13. ASSUME NEW k \in Nat, k + 1 <= n
       PROVE  h[1..(k + 1)] = Turn(input, h[1..k], k + 1)
    <2>1. 1..(k + 1) \in SUBSET (1..n) /\ k + 1 \in 1..n
        BY <1>1, <1>13
    <2>2. h[1..(k + 1)] = ReadBody(h, input, 1..(k + 1))
        BY <1>11, <2>1
    <2>3. Max(1..(k + 1)) = k + 1 /\ 1..(k + 1) # {} /\ (1..(k + 1)) \ {k + 1} = 1..k
        BY Largest
    <2>4. ReadBody(h, input, 1..(k + 1)) = Turn(input, h[1..k], index[k + 1])
        BY <1>7, <2>3
    <2> QED BY <1>6, <2>1, <2>2, <2>4
<1>14. PICK f : Traces(f, Start, input, Behind, t)
    BY DEF Reads
<1>15. f[0] = Start /\ f[n] = t /\ \A i \in 1..n : f[i] = Turn(input, f[i - 1], i)
    BY <1>14 DEF Traces, Turn, n
<1> DEFINE T == {k \in Nat : k <= n => h[1..k] = f[k]}
<1>16. 0 \in T
    BY <1>12, <1>15
<1>17. ASSUME NEW k \in Nat, k \in T
       PROVE  k + 1 \in T
    <2>1. CASE k + 1 <= n
        <3>1. h[1..k] = f[k] /\ k + 1 \in 1..n /\ (k + 1) - 1 = k
            BY <1>1, <1>17, <2>1
        <3>2. h[1..(k + 1)] = f[k + 1]
            BY <1>13, <1>15, <2>1, <3>1
        <3> QED BY <3>2
    <2>2. CASE ~(k + 1 <= n)
        BY <2>2
    <2> QED BY <2>1, <2>2
<1>18. n \in T
    <2> HIDE DEF T
    <2> QED BY <1>1, <1>16, <1>17, Naturals
<1>19. h[1..n] = t
    BY <1>1, <1>15, <1>18
<1> QED BY <1>6, <1>9, <1>19

-----------------------------------------------------------------------------
(* The places of the reader: at an unquoted symbol, at a quoted one, behind
   a closed quote.                                                          *)
Yes == TRUE
No == FALSE
At(rows, row, field, quoted, closed, started, skip) ==
    [rows |-> rows, row |-> row, field |-> field, quoted |-> quoted,
     quote_closed |-> closed, row_started |-> started, skip |-> skip, error |-> No]
Outside(rows, row, field, started) == At(rows, row, field, No, No, started, No)
Inside(rows, row, field) == At(rows, row, field, Yes, No, Yes, No)
Unquoted(rows, row, field) == At(rows, row, field, No, Yes, Yes, No)

(* Changes of one variable.                                                 *)
PutRows(s, x) == [s EXCEPT !.rows = x]
PutRow(s, x) == [s EXCEPT !.row = x]
PutField(s, x) == [s EXCEPT !.field = x]
PutQuoted(s, x) == [s EXCEPT !.quoted = x]
PutClosed(s, x) == [s EXCEPT !.quote_closed = x]
PutStarted(s, x) == [s EXCEPT !.row_started = x]
PutSkip(s, x) == [s EXCEPT !.skip = x]

LEMMA Changed ==
    ASSUME NEW rows, NEW row, NEW field, NEW quoted, NEW closed, NEW started, NEW skip, NEW x
    PROVE  /\ PutRows(At(rows, row, field, quoted, closed, started, skip), x) = At(x, row, field, quoted, closed, started, skip)
           /\ PutRow(At(rows, row, field, quoted, closed, started, skip), x) = At(rows, x, field, quoted, closed, started, skip)
           /\ PutField(At(rows, row, field, quoted, closed, started, skip), x) = At(rows, row, x, quoted, closed, started, skip)
           /\ PutQuoted(At(rows, row, field, quoted, closed, started, skip), x) = At(rows, row, field, x, closed, started, skip)
           /\ PutClosed(At(rows, row, field, quoted, closed, started, skip), x) = At(rows, row, field, quoted, x, started, skip)
           /\ PutStarted(At(rows, row, field, quoted, closed, started, skip), x) = At(rows, row, field, quoted, closed, x, skip)
           /\ PutSkip(At(rows, row, field, quoted, closed, started, skip), x) = At(rows, row, field, quoted, closed, started, x)
<1> DEFINE F == {"rows", "row", "field", "quoted", "quote_closed", "row_started", "skip", "error"}
           r == At(rows, row, field, quoted, closed, started, skip)
           Holds(s, a, b, c, d, e, f, g) ==
               /\ s = [n \in F |-> s[n]]
               /\ s.rows = a /\ s.row = b /\ s.field = c /\ s.quoted = d
               /\ s.quote_closed = e /\ s.row_started = f /\ s.skip = g /\ s.error = No
<1>1. \A a, b, c, d, e, f, g : Holds(At(a, b, c, d, e, f, g), a, b, c, d, e, f, g)
    BY DEF At
<1>2. Holds(r, rows, row, field, quoted, closed, started, skip)
    BY <1>1
<1>3. PutRows(r, x) = At(x, row, field, quoted, closed, started, skip)
    <2> DEFINE t == At(x, row, field, quoted, closed, started, skip)
    <2>1. Holds(t, x, row, field, quoted, closed, started, skip)
        BY <1>1
    <2> HIDE DEF r, t
    <2>2. [r EXCEPT !.rows = x] = [f \in F |-> IF f = "rows" THEN x ELSE r[f]]
        BY <1>2
    <2>3. \A f \in F : (IF f = "rows" THEN x ELSE r[f]) = t[f]
        BY <1>2, <2>1
    <2>4. [r EXCEPT !.rows = x] = [f \in F |-> t[f]]
        BY <2>2, <2>3
    <2> QED BY <2>1, <2>4 DEF t, PutRows
<1>4. PutRow(r, x) = At(rows, x, field, quoted, closed, started, skip)
    <2> DEFINE t == At(rows, x, field, quoted, closed, started, skip)
    <2>1. Holds(t, rows, x, field, quoted, closed, started, skip)
        BY <1>1
    <2> HIDE DEF r, t
    <2>2. [r EXCEPT !.row = x] = [f \in F |-> IF f = "row" THEN x ELSE r[f]]
        BY <1>2
    <2>3. \A f \in F : (IF f = "row" THEN x ELSE r[f]) = t[f]
        BY <1>2, <2>1
    <2>4. [r EXCEPT !.row = x] = [f \in F |-> t[f]]
        BY <2>2, <2>3
    <2> QED BY <2>1, <2>4 DEF t, PutRow
<1>5. PutField(r, x) = At(rows, row, x, quoted, closed, started, skip)
    <2> DEFINE t == At(rows, row, x, quoted, closed, started, skip)
    <2>1. Holds(t, rows, row, x, quoted, closed, started, skip)
        BY <1>1
    <2> HIDE DEF r, t
    <2>2. [r EXCEPT !.field = x] = [f \in F |-> IF f = "field" THEN x ELSE r[f]]
        BY <1>2
    <2>3. \A f \in F : (IF f = "field" THEN x ELSE r[f]) = t[f]
        BY <1>2, <2>1
    <2>4. [r EXCEPT !.field = x] = [f \in F |-> t[f]]
        BY <2>2, <2>3
    <2> QED BY <2>1, <2>4 DEF t, PutField
<1>6. PutQuoted(r, x) = At(rows, row, field, x, closed, started, skip)
    <2> DEFINE t == At(rows, row, field, x, closed, started, skip)
    <2>1. Holds(t, rows, row, field, x, closed, started, skip)
        BY <1>1
    <2> HIDE DEF r, t
    <2>2. [r EXCEPT !.quoted = x] = [f \in F |-> IF f = "quoted" THEN x ELSE r[f]]
        BY <1>2
    <2>3. \A f \in F : (IF f = "quoted" THEN x ELSE r[f]) = t[f]
        BY <1>2, <2>1
    <2>4. [r EXCEPT !.quoted = x] = [f \in F |-> t[f]]
        BY <2>2, <2>3
    <2> QED BY <2>1, <2>4 DEF t, PutQuoted
<1>7. PutClosed(r, x) = At(rows, row, field, quoted, x, started, skip)
    <2> DEFINE t == At(rows, row, field, quoted, x, started, skip)
    <2>1. Holds(t, rows, row, field, quoted, x, started, skip)
        BY <1>1
    <2> HIDE DEF r, t
    <2>2. [r EXCEPT !.quote_closed = x] = [f \in F |-> IF f = "quote_closed" THEN x ELSE r[f]]
        BY <1>2
    <2>3. \A f \in F : (IF f = "quote_closed" THEN x ELSE r[f]) = t[f]
        BY <1>2, <2>1
    <2>4. [r EXCEPT !.quote_closed = x] = [f \in F |-> t[f]]
        BY <2>2, <2>3
    <2> QED BY <2>1, <2>4 DEF t, PutClosed
<1>8. PutStarted(r, x) = At(rows, row, field, quoted, closed, x, skip)
    <2> DEFINE t == At(rows, row, field, quoted, closed, x, skip)
    <2>1. Holds(t, rows, row, field, quoted, closed, x, skip)
        BY <1>1
    <2> HIDE DEF r, t
    <2>2. [r EXCEPT !.row_started = x] = [f \in F |-> IF f = "row_started" THEN x ELSE r[f]]
        BY <1>2
    <2>3. \A f \in F : (IF f = "row_started" THEN x ELSE r[f]) = t[f]
        BY <1>2, <2>1
    <2>4. [r EXCEPT !.row_started = x] = [f \in F |-> t[f]]
        BY <2>2, <2>3
    <2> QED BY <2>1, <2>4 DEF t, PutStarted
<1>9. PutSkip(r, x) = At(rows, row, field, quoted, closed, started, x)
    <2> DEFINE t == At(rows, row, field, quoted, closed, started, x)
    <2>1. Holds(t, rows, row, field, quoted, closed, started, x)
        BY <1>1
    <2> HIDE DEF r, t
    <2>2. [r EXCEPT !.skip = x] = [f \in F |-> IF f = "skip" THEN x ELSE r[f]]
        BY <1>2
    <2>3. \A f \in F : (IF f = "skip" THEN x ELSE r[f]) = t[f]
        BY <1>2, <2>1
    <2>4. [r EXCEPT !.skip = x] = [f \in F |-> t[f]]
        BY <2>2, <2>3
    <2> QED BY <2>1, <2>4 DEF t, PutSkip
<1> HIDE DEF F, Holds
<1> QED BY <1>3, <1>4, <1>5, <1>6, <1>7, <1>8, <1>9 DEF r

(* Their values.                                                            *)
LEMMA Values ==
    ASSUME NEW rows, NEW row, NEW field, NEW quoted, NEW closed, NEW started, NEW skip,
           NEW s, s = At(rows, row, field, quoted, closed, started, skip)
    PROVE  /\ s.rows = rows /\ s.row = row /\ s.field = field /\ s.quoted = quoted
           /\ s.quote_closed = closed /\ s.row_started = started /\ s.skip = skip
           /\ s.error = No
BY DEF At

Ordinary(v) == v \notin {Quote, Comma, CR, LF, NUL}

LEMMA InsideScan ==
    ASSUME NEW rows, NEW row, NEW field, NEW v, NEW next
    PROVE  /\ v \notin {Quote, CR, NUL} =>
                  scan(Inside(rows, row, field), v, next) = Inside(rows, row, Append(field, v))
           /\ next = Quote => scan(Inside(rows, row, field), Quote, next)
                  = At(rows, row, Append(field, Quote), Yes, No, Yes, Yes)
           /\ next # Quote =>
                  scan(Inside(rows, row, field), Quote, next) = Unquoted(rows, row, field)
           /\ next = LF => scan(Inside(rows, row, field), CR, next)
                  = At(rows, row, Append(field, LF), Yes, No, Yes, Yes)
           /\ next # LF =>
                  scan(Inside(rows, row, field), CR, next) = Inside(rows, row, Append(field, LF))
<1> DEFINE s == Inside(rows, row, field)
<1>1. s.error = FALSE /\ s.skip = FALSE /\ s.quoted = TRUE /\ s.field = field
    BY DEF Inside, At, Yes, No
<1>2. /\ Extended(s, v) = PutField(s, Append(s.field, v))
      /\ Doubled(s) = PutSkip(PutField(s, Append(s.field, Quote)), Yes)
      /\ Closed(s) = PutClosed(PutQuoted(s, No), Yes)
      /\ next = LF => LineBroken(s, next) = PutSkip(PutField(s, Append(s.field, LF)), Yes)
      /\ next # LF => LineBroken(s, next) = PutSkip(PutField(s, Append(s.field, LF)), No)
    <2> HIDE DEF s
    <2> QED BY DEF Extended, Doubled, Closed, LineBroken, PutField, PutSkip, PutClosed, PutQuoted, Yes, No
<1>5. /\ PutField(s, Append(s.field, v)) = Inside(rows, row, Append(field, v))
      /\ PutSkip(PutField(s, Append(s.field, Quote)), Yes)
             = At(rows, row, Append(field, Quote), Yes, No, Yes, Yes)
      /\ PutClosed(PutQuoted(s, No), Yes) = Unquoted(rows, row, field)
      /\ PutSkip(PutField(s, Append(s.field, LF)), Yes)
             = At(rows, row, Append(field, LF), Yes, No, Yes, Yes)
      /\ PutSkip(PutField(s, Append(s.field, LF)), No) = Inside(rows, row, Append(field, LF))
    <2>1. s = At(rows, row, field, Yes, No, Yes, No)
        BY DEF Inside
    <2> DEFINE f == Append(field, v)
               g == Append(field, Quote)
               h == Append(field, LF)
    <2> HIDE DEF s, f, g, h
    <2>2. /\ PutField(s, f) = At(rows, row, f, Yes, No, Yes, No)
          /\ PutField(s, g) = At(rows, row, g, Yes, No, Yes, No)
          /\ PutField(s, h) = At(rows, row, h, Yes, No, Yes, No)
        BY <2>1, Changed
    <2>3. PutQuoted(s, No) = At(rows, row, field, No, No, Yes, No)
        BY <2>1, Changed
    <2>4. /\ PutSkip(PutField(s, g), Yes) = At(rows, row, g, Yes, No, Yes, Yes)
          /\ PutSkip(PutField(s, h), Yes) = At(rows, row, h, Yes, No, Yes, Yes)
          /\ PutSkip(PutField(s, h), No) = At(rows, row, h, Yes, No, Yes, No)
        BY <2>2, Changed
    <2>5. PutClosed(PutQuoted(s, No), Yes) = At(rows, row, field, No, Yes, Yes, No)
        BY <2>3, Changed
    <2>6. s.field = field
        BY <1>1
    <2> QED BY <2>2, <2>4, <2>5, <2>6 DEF Inside, Unquoted, f, g, h
<1> HIDE DEF s
<1>3. /\ v # NUL => scan(s, v, next) = scan_quoted(s, v, next)
      /\ scan(s, Quote, next) = scan_quoted(s, Quote, next)
      /\ scan(s, CR, next) = scan_quoted(s, CR, next)
    BY <1>1, Distinct DEF scan
<1>4. /\ v \notin {Quote, CR} => scan_quoted(s, v, next) = Extended(s, v)
      /\ next = Quote => scan_quoted(s, Quote, next) = Doubled(s)
      /\ next # Quote => scan_quoted(s, Quote, next) = Closed(s)
      /\ scan_quoted(s, CR, next) = LineBroken(s, next)
    BY Quoted, Distinct
<1> QED BY <1>2, <1>3, <1>4, <1>5 DEF s

LEMMA SkipScan ==
    ASSUME NEW rows, NEW row, NEW field, NEW v, NEW next, NEW q \in BOOLEAN, NEW b \in BOOLEAN
    PROVE  scan(At(rows, row, field, q, No, b, Yes), v, next)
               = At(rows, row, field, q, No, b, No)
BY DEF scan, At, Yes, No

LEMMA OutsideScan ==
    ASSUME NEW rows, NEW row, NEW field, NEW b \in BOOLEAN, NEW v, NEW next
    PROVE  /\ Ordinary(v) => scan(Outside(rows, row, field, b), v, next)
                                 = Outside(rows, row, Append(field, v), Yes)
           /\ scan(Outside(rows, row, <<>>, b), Quote, next) = Inside(rows, row, <<>>)
           /\ scan(Outside(rows, row, field, b), Comma, next)
                  = Outside(rows, Append(row, field), <<>>, Yes)
<1> DEFINE s == Outside(rows, row, field, b)
           e == Outside(rows, row, <<>>, b)
<1>1. /\ s.error = FALSE /\ s.skip = FALSE /\ s.quoted = FALSE /\ s.field = field /\ s.quote_closed = FALSE
      /\ e.error = FALSE /\ e.skip = FALSE /\ e.quoted = FALSE /\ e.field = <<>> /\ e.quote_closed = FALSE
      /\ s.row = row
    BY DEF Outside, At, Yes, No
<1>2. /\ PutStarted(PutField(s, Append(s.field, v)), Yes) = Outside(rows, row, Append(field, v), Yes)
      /\ PutStarted(PutQuoted(e, Yes), Yes) = Inside(rows, row, <<>>)
      /\ PutStarted(PutClosed(PutField(PutRow(s, Append(s.row, s.field)), <<>>), No), Yes)
             = Outside(rows, Append(row, field), <<>>, Yes)
    BY <1>1, Changed DEF Outside, Inside
<1>3. /\ [s EXCEPT !.field = Append(@, v), !.row_started = TRUE]
             = PutStarted(PutField(s, Append(s.field, v)), Yes)
      /\ [e EXCEPT !.quoted = TRUE, !.row_started = TRUE] = PutStarted(PutQuoted(e, Yes), Yes)
    <2> HIDE DEF s, e
    <2> QED BY DEF PutStarted, PutField, PutQuoted, Yes
<1>4. \A t : [finish_field(t) EXCEPT !.row_started = TRUE]
             = PutStarted(PutClosed(PutField(PutRow(t, Append(t.row, t.field)), <<>>), No), Yes)
    BY DEF finish_field, PutStarted, PutField, PutRow, PutClosed, Yes, No
<1> HIDE DEF s, e
<1>5. /\ Ordinary(v) => scan(s, v, next) = scan_plain(s, v, next)
      /\ scan(e, Quote, next) = scan_plain(e, Quote, next)
      /\ scan(s, Comma, next) = scan_plain(s, Comma, next)
    BY <1>1, Distinct DEF scan, Ordinary
<1>6. /\ Ordinary(v) => scan_plain(s, v, next) = scan_field(s, v)
      /\ scan_plain(e, Quote, next) = scan_field(e, Quote)
      /\ scan_plain(s, Comma, next) = [finish_field(s) EXCEPT !.row_started = TRUE]
    BY Plain, Distinct DEF Ordinary
<1>7. /\ Ordinary(v) => scan_field(s, v) = [s EXCEPT !.field = Append(@, v), !.row_started = TRUE]
      /\ scan_field(e, Quote) = [e EXCEPT !.quoted = TRUE, !.row_started = TRUE]
    BY <1>1 DEF scan_field, Ordinary
<1> QED BY <1>2, <1>3, <1>4, <1>5, <1>6, <1>7 DEF s, e

LEMMA UnquotedScan ==
    ASSUME NEW rows, NEW row, NEW field, NEW next
    PROVE  scan(Unquoted(rows, row, field), Comma, next) = Outside(rows, Append(row, field), <<>>, Yes)
<1> DEFINE q == Unquoted(rows, row, field)
<1>1. q.error = FALSE /\ q.skip = FALSE /\ q.quoted = FALSE /\ q.field = field /\ q.row = row
    BY DEF Unquoted, At, Yes, No
<1>2. PutStarted(PutClosed(PutField(PutRow(q, Append(q.row, q.field)), <<>>), No), Yes)
          = Outside(rows, Append(row, field), <<>>, Yes)
    BY <1>1, Changed DEF Outside, Unquoted
<1> HIDE DEF q
<1>3. [finish_field(q) EXCEPT !.row_started = TRUE]
          = PutStarted(PutClosed(PutField(PutRow(q, Append(q.row, q.field)), <<>>), No), Yes)
    BY DEF finish_field, PutStarted, PutField, PutRow, PutClosed, Yes, No
<1>4. scan(q, Comma, next) = scan_plain(q, Comma, next)
    BY <1>1, Distinct DEF scan
<1>5. scan_plain(q, Comma, next) = [finish_field(q) EXCEPT !.row_started = TRUE]
    BY Plain
<1> QED BY <1>2, <1>3, <1>4, <1>5 DEF q

-----------------------------------------------------------------------------
(* What a writer makes of fields of symbols C is text over P; if CR alone ends
   its lines, there is no LF in it.                                         *)
Alphabet(P, C, eol) ==
    /\ CR \notin C /\ NUL \notin C
    /\ Quote \in P /\ Comma \in P /\ C \ {LF} \subseteq P
    /\ \/ eol = <<LF>> /\ LF \in P
       \/ eol = <<CR>> /\ CR \in P /\ LF \notin P
       \/ eol = <<CR, LF>> /\ CR \in P /\ LF \in P
Follows(eol, next) == eol = <<CR>> => next # LF

Encode(c, eol) == CASE c = Quote -> <<Quote, Quote>> [] c = LF -> eol [] OTHER -> <<c>>

LEMMA ReadsTwo ==
    ASSUME NEW s, NEW v, NEW w, NEW next
    PROVE  Reads(s, <<v, w>>, next, scan(scan(s, v, w), w, next))
<1> DEFINE S == {v, w}
           u == scan(s, v, w)
           t == scan(u, w, next)
<1>1. Reads(s, <<v>>, w, u) /\ Reads(u, <<w>>, next, t)
    BY ReadsOne
<1>2. Ahead(<<w>>, next) = w /\ <<v>> \in Seq(S) /\ <<w>> \in Seq(S)
    BY DEF Ahead
<1> HIDE DEF S, u, t
<1>3. Reads(s, <<v>> \o <<w>>, next, t)
    BY <1>1, <1>2, ReadsBoth
<1>4. <<v>> \o <<w>> = <<v, w>>
    <2>1. <<v>> \in Seq({v, w}) /\ <<w>> \in Seq({v, w})
        OBVIOUS
    <2> DEFINE a == <<v>> \o <<w>>
    <2>2. a \in Seq({v, w}) /\ Len(a) = 2 /\ a[1] = v /\ a[2] = w
        BY <2>1
    <2> HIDE DEF a
    <2>3. a = <<v, w>>
        BY <2>2
    <2> QED BY <2>3 DEF a
<1> QED BY <1>3, <1>4 DEF t, u

LEMMA EncodeIs ==
    ASSUME NEW c, NEW eol
    PROVE  /\ c = Quote => Encode(c, eol) = <<Quote, Quote>>
           /\ c = LF => Encode(c, eol) = eol
           /\ c # Quote /\ c # LF => Encode(c, eol) = <<c>>
<1> DEFINE a == <<Quote, Quote>>
           b == <<c>>
           r == Encode(c, eol)
<1>1. r = CASE c = Quote -> a [] c = LF -> eol [] OTHER -> b
    BY DEF Encode
<1> HIDE DEF a, b, r
<1>2. /\ c = Quote => r = a
      /\ c = LF => r = eol
      /\ c # Quote /\ c # LF => r = b
    BY <1>1, Distinct
<1> QED BY <1>2 DEF a, b, r

(* A character between quotes.                                              *)
LEMMA CharRead ==
    ASSUME NEW P, NEW C, NEW eol, Alphabet(P, C, eol), NEW c \in C,
           NEW rows, NEW row, NEW field, NEW next, Follows(eol, next)
    PROVE  /\ Encode(c, eol) \in Seq(P) /\ Follows(eol, Ahead(Encode(c, eol), next))
           /\ Reads(Inside(rows, row, field), Encode(c, eol), next,
                    Inside(rows, row, Append(field, c)))
<1> DEFINE s == Inside(rows, row, field)
           t == Inside(rows, row, Append(field, c))
<1>0. /\ \A x, n : x \notin {Quote, CR, NUL} => scan(s, x, n) = Inside(rows, row, Append(field, x))
      /\ \A v : scan(At(rows, row, Append(field, c), Yes, No, Yes, Yes), v, next) = t
    <2>1. Yes \in BOOLEAN
        BY DEF Yes
    <2> QED BY <2>1, InsideScan, SkipScan DEF Inside
<1>1. CASE c = Quote
    <2>1. scan(scan(s, Quote, Quote), Quote, next) = t
        <3>1. scan(s, Quote, Quote) = At(rows, row, Append(field, Quote), Yes, No, Yes, Yes)
            BY InsideScan
        <3> QED BY <1>0, <1>1, <3>1
    <2>2. Encode(c, eol) = <<Quote, Quote>>
        BY <1>1, EncodeIs
    <2>3. <<Quote, Quote>> \in Seq(P) /\ Ahead(<<Quote, Quote>>, next) = Quote
        BY DEF Alphabet, Ahead
    <2>4. Reads(s, <<Quote, Quote>>, next, scan(scan(s, Quote, Quote), Quote, next))
        BY ReadsTwo
    <2> QED BY <2>1, <2>2, <2>3, <2>4, Distinct DEF Follows
<1>2. CASE c = LF
    <2>0. Encode(c, eol) = eol
        BY <1>2, EncodeIs
    <2>1. CASE eol = <<LF>>
        <3>1. scan(s, LF, next) = t
            BY <1>0, <1>2, Distinct
        <3>2. Reads(s, <<LF>>, next, scan(s, LF, next))
            BY ReadsOne
        <3>3. <<LF>> \in Seq(P) /\ <<LF>> # <<CR>>
            <4>1. LF \in P
                BY <2>1, Distinct DEF Alphabet
            <4> QED BY <4>1, Distinct
        <3> QED BY <2>0, <2>1, <3>1, <3>2, <3>3 DEF Follows
    <2>2. CASE eol = <<CR>>
        <3>1. scan(s, CR, next) = t
            BY <1>2, <2>2, InsideScan DEF Follows
        <3>2. Reads(s, <<CR>>, next, scan(s, CR, next))
            BY ReadsOne
        <3>3. <<CR>> \in Seq(P) /\ Ahead(<<CR>>, next) = CR
            <4>1. CR \in P
                BY <2>2, Distinct DEF Alphabet
            <4> QED BY <4>1 DEF Ahead
        <3> QED BY <2>0, <2>2, <3>1, <3>2, <3>3, Distinct DEF Follows
    <2>3. CASE eol = <<CR, LF>>
        <3>1. scan(s, CR, LF) = At(rows, row, Append(field, LF), Yes, No, Yes, Yes)
            BY InsideScan
        <3>2. scan(scan(s, CR, LF), LF, next) = t
            BY <1>0, <1>2, <3>1
        <3>3. Reads(s, <<CR, LF>>, next, scan(scan(s, CR, LF), LF, next))
            BY ReadsTwo
        <3>4. <<CR, LF>> \in Seq(P) /\ <<CR, LF>> # <<CR>>
            <4>1. CR \in P /\ LF \in P
                BY <2>3, Distinct DEF Alphabet
            <4> QED BY <4>1
        <3> QED BY <2>0, <2>3, <3>2, <3>3, <3>4 DEF Follows
    <2> QED BY <2>1, <2>2, <2>3 DEF Alphabet
<1>3. CASE c # Quote /\ c # LF
    <2>0. Encode(c, eol) = <<c>> /\ c \in P /\ c \notin {Quote, CR, NUL, LF}
        BY <1>3, EncodeIs DEF Alphabet
    <2>1. scan(s, c, next) = t
        BY <1>0, <2>0
    <2>2. Reads(s, <<c>>, next, scan(s, c, next))
        BY ReadsOne
    <2>3. <<c>> \in Seq(P) /\ Ahead(<<c>>, next) = c
        BY <2>0 DEF Ahead
    <2> QED BY <2>0, <2>1, <2>2, <2>3 DEF Follows
<1> QED BY <1>1, <1>2, <1>3

-----------------------------------------------------------------------------
(* Sequences from the front.                                                *)
UpTo(f, k) == FlattenSeq([i \in 1..k |-> f[i]])

LEMMA UpToNext ==
    ASSUME NEW S, NEW n \in Nat, NEW f \in [1..n -> Seq(S)], NEW k \in Nat, k + 1 <= n
    PROVE  UpTo(f, k + 1) = UpTo(f, k) \o f[k + 1] /\ f[k + 1] \in Seq(S) /\ UpTo(f, k) \in Seq(S)
<1> DEFINE T == Seq(S)
           a == [i \in 1..k |-> f[i]]
           b == [i \in 1..(k + 1) |-> f[i]]
<1>1. f[k + 1] \in T /\ \A i \in 1..(k + 1) : f[i] \in T
    OBVIOUS
<1> HIDE DEF T
<1>2. a \in Seq(T) /\ b \in Seq(T) /\ Len(a) = k /\ Len(b) = k + 1
      /\ (\A i \in 1..k : a[i] = f[i]) /\ (\A i \in 1..(k + 1) : b[i] = f[i])
    <2>1. a \in [1..k -> T] /\ b \in [1..(k + 1) -> T]
        BY <1>1
    <2>2. a \in Seq(T) /\ b \in Seq(T)
        BY <2>1, SeqDef
    <2> QED BY <2>1, <2>2
<1> HIDE DEF a, b
<1>3. b = Append(a, f[k + 1])
    BY <1>1, <1>2
<1>4. FlattenSeq(a) \in T
    BY <1>2, FlattenType DEF T
<1>5. FlattenSeq(Append(a, f[k + 1])) = FlattenSeq(a) \o f[k + 1]
    BY <1>1, <1>2, <1>4, FlattenAppend DEF T
<1> QED BY <1>1, <1>3, <1>4, <1>5 DEF UpTo, a, b, T

LEMMA UpToAll ==
    ASSUME NEW S, NEW n \in Nat, NEW f \in [1..n -> Seq(S)]
    PROVE  UpTo(f, n) \in Seq(S) /\ UpTo(f, 0) = <<>> /\ UpTo(f, n) = FlattenSeq(f)
<1> DEFINE T == Seq(S)
<1>1. [i \in 1..n |-> f[i]] = f /\ [i \in 1..0 |-> f[i]] = <<>>
    OBVIOUS
<1>2. f \in Seq(T)
    <2>1. f \in [1..n -> T]
        OBVIOUS
    <2> HIDE DEF T
    <2> QED BY <2>1, SeqDef
<1>3. FlattenSeq(f) \in T
    BY <1>2, FlattenType
<1> QED BY <1>1, <1>3, FlattenEmpty DEF UpTo

LEMMA Prefix ==
    ASSUME NEW S, NEW s \in Seq(S)
    PROVE  /\ SubSeq(s, 1, 0) = <<>> /\ SubSeq(s, 1, Len(s)) = s
           /\ \A k \in Nat : k + 1 <= Len(s) =>
                 SubSeq(s, 1, k + 1) = Append(SubSeq(s, 1, k), s[k + 1]) /\ s[k + 1] \in S
<1>1. SubSeq(s, 1, 0) = <<>> /\ SubSeq(s, 1, Len(s)) = s
    OBVIOUS
<1>2. ASSUME NEW k \in Nat, k + 1 <= Len(s)
      PROVE  SubSeq(s, 1, k + 1) = Append(SubSeq(s, 1, k), s[k + 1]) /\ s[k + 1] \in S
    <2> DEFINE a == SubSeq(s, 1, k)
               b == SubSeq(s, 1, k + 1)
    <2>1. Len(a) = k /\ Len(b) = k + 1 /\ a \in Seq(S) /\ b \in Seq(S) /\ s[k + 1] \in S
          /\ (\A i \in 1..k : a[i] = s[i]) /\ (\A i \in 1..(k + 1) : b[i] = s[i])
        BY <1>2
    <2> HIDE DEF a, b
    <2>2. b = Append(a, s[k + 1])
        BY <2>1
    <2> QED BY <2>1, <2>2 DEF a, b
<1> QED BY <1>1, <1>2

(* A field between quotes.                                                  *)
Encoded(field, eol) == FlattenSeq([i \in DOMAIN field |-> Encode(field[i], eol)])

LEMMA ContentRead ==
    ASSUME NEW P, NEW C, NEW eol, Alphabet(P, C, eol), NEW field \in Seq(C), NEW rows, NEW row
    PROVE  /\ Encoded(field, eol) \in Seq(P)
           /\ Reads(Inside(rows, row, <<>>), Encoded(field, eol), Quote, Inside(rows, row, field))
<1> DEFINE n == Len(field)
           f == [i \in 1..n |-> Encode(field[i], eol)]
           s == Inside(rows, row, <<>>)
           To(k) == Inside(rows, row, SubSeq(field, 1, k))
           Good(k) == \A next : Follows(eol, next) => Reads(s, UpTo(f, k), next, To(k))
           T == {k \in Nat : k <= n => Good(k)}
<1>1. n \in Nat /\ DOMAIN field = 1..n /\ \A i \in 1..n : field[i] \in C
    OBVIOUS
<1>2. Quote # LF /\ Follows(eol, Quote)
    BY Distinct DEF Follows
<1>3. \A i \in 1..n : f[i] = Encode(field[i], eol) /\ Encode(field[i], eol) \in Seq(P)
    BY <1>1, <1>2, CharRead
<1>4. f \in [1..n -> Seq(P)] /\ Encoded(field, eol) = FlattenSeq(f)
    BY <1>1, <1>3 DEF Encoded
<1>5. SubSeq(field, 1, 0) = <<>> /\ SubSeq(field, 1, n) = field
      /\ \A k \in Nat : k + 1 <= n =>
            SubSeq(field, 1, k + 1) = Append(SubSeq(field, 1, k), field[k + 1])
    BY Prefix
<1> HIDE DEF n, f
<1>6. UpTo(f, n) \in Seq(P) /\ UpTo(f, 0) = <<>> /\ UpTo(f, n) = FlattenSeq(f)
    BY <1>1, <1>4, UpToAll
<1>7. 0 \in T
    <2>1. Good(0)
        BY <1>5, <1>6, ReadsNothing
    <2> QED BY <2>1
<1>8. ASSUME NEW k \in Nat, k \in T
      PROVE  k + 1 \in T
    <2>1. CASE k + 1 <= n
        <3>1. k + 1 \in 1..n /\ Good(k)
            BY <1>1, <1>8, <2>1
        <3> DEFINE a == UpTo(f, k)
                   b == f[k + 1]
                   u == To(k)
                   t == To(k + 1)
        <3>2. UpTo(f, k + 1) = a \o b /\ a \in Seq(P) /\ b \in Seq(P)
            BY <1>1, <1>4, <2>1, UpToNext
        <3>3. ASSUME NEW next, Follows(eol, next)
              PROVE  Reads(s, UpTo(f, k + 1), next, t)
            <4>1. Follows(eol, Ahead(b, next)) /\ Reads(u, b, next, t)
                <5>1. field[k + 1] \in C /\ b = Encode(field[k + 1], eol)
                    BY <1>1, <1>3, <3>1
                <5>2. t = Inside(rows, row, Append(SubSeq(field, 1, k), field[k + 1]))
                    BY <1>5, <2>1
                <5> HIDE DEF b, t
                <5> QED BY <3>3, <5>1, <5>2, CharRead
            <4>2. Reads(s, a, Ahead(b, next), u)
                BY <3>1, <4>1
            <4> HIDE DEF a, b, u, t, s
            <4>3. Reads(s, a \o b, next, t)
                BY <3>2, <4>1, <4>2, ReadsBoth
            <4> QED BY <3>2, <4>3
        <3>4. Good(k + 1)
            BY <3>3
        <3> QED BY <3>4
    <2>2. CASE ~(k + 1 <= n)
        BY <2>2
    <2> QED BY <2>1, <2>2
<1>9. n \in T
    <2> HIDE DEF T
    <2> QED BY <1>1, <1>7, <1>8, Naturals
<1>10. Good(n)
    BY <1>1, <1>9
<1>11. Reads(s, UpTo(f, n), Quote, Inside(rows, row, field))
    BY <1>2, <1>5, <1>10
<1> QED BY <1>4, <1>6, <1>11

(* A field without quotes.                                                  *)
LEMMA PlainRead ==
    ASSUME NEW field, NEW C, field \in Seq(C), CR \notin C, NUL \notin C,
           \A i \in DOMAIN field : field[i] \notin Special,
           NEW rows, NEW row, NEW b \in BOOLEAN, NEW next
    PROVE  \E c \in BOOLEAN :
               Reads(Outside(rows, row, <<>>, b), field, next, Outside(rows, row, field, c))
<1> DEFINE n == Len(field)
           s == Outside(rows, row, <<>>, b)
           To(k, c) == Outside(rows, row, SubSeq(field, 1, k), c)
           Good(k) == \A after : \E c \in BOOLEAN : Reads(s, SubSeq(field, 1, k), after, To(k, c))
           T == {k \in Nat : k <= n => Good(k)}
<1>1. n \in Nat /\ DOMAIN field = 1..n /\ \A i \in 1..n : field[i] \in C
    OBVIOUS
<1>2. \A i \in 1..n : Ordinary(field[i])
    BY <1>1 DEF Ordinary, Special
<1>3. SubSeq(field, 1, 0) = <<>> /\ SubSeq(field, 1, n) = field
      /\ \A k \in Nat : k + 1 <= n =>
            SubSeq(field, 1, k + 1) = Append(SubSeq(field, 1, k), field[k + 1])
    BY Prefix
<1>4. \A k \in Nat : k <= n => SubSeq(field, 1, k) \in Seq(C)
    BY <1>1
<1> HIDE DEF n
<1>5. 0 \in T
    <2>1. Good(0)
        BY <1>3, ReadsNothing
    <2> QED BY <2>1
<1>6. ASSUME NEW k \in Nat, k \in T
      PROVE  k + 1 \in T
    <2>1. CASE k + 1 <= n
        <3>1. k + 1 \in 1..n /\ Good(k) /\ k <= n
            BY <1>1, <1>6, <2>1
        <3> DEFINE p == SubSeq(field, 1, k)
                   v == field[k + 1]
        <3>2. Ordinary(v) /\ p \in Seq(C) /\ <<v>> \in Seq(C)
              /\ SubSeq(field, 1, k + 1) = Append(p, v)
            BY <1>1, <1>2, <1>3, <1>4, <2>1, <3>1
        <3>3. ASSUME NEW after
              PROVE  \E c \in BOOLEAN : Reads(s, SubSeq(field, 1, k + 1), after, To(k + 1, c))
            <4>1. PICK c \in BOOLEAN : Reads(s, p, v, To(k, c))
                BY <3>1
            <4>2. Reads(To(k, c), <<v>>, after, scan(To(k, c), v, after)) /\ Ahead(<<v>>, after) = v
                BY ReadsOne DEF Ahead
            <4>3. scan(To(k, c), v, after) = Outside(rows, row, Append(p, v), Yes)
                BY <3>2, OutsideScan
            <4>4. p \o <<v>> = Append(p, v)
                BY <3>2
            <4> DEFINE u == To(k, c)
                       t == Outside(rows, row, Append(p, v), Yes)
            <4>5. To(k + 1, Yes) = t
                BY <3>2
            <4> HIDE DEF p, v, u, t, s
            <4>6. Reads(s, p \o <<v>>, after, t)
                <5>1. Reads(s, p, Ahead(<<v>>, after), u) /\ Reads(u, <<v>>, after, t)
                    BY <4>1, <4>2, <4>3 DEF u, t
                <5> QED BY <3>2, <5>1, ReadsBoth
            <4>7. Reads(s, SubSeq(field, 1, k + 1), after, To(k + 1, Yes)) /\ Yes \in BOOLEAN
                BY <3>2, <4>4, <4>5, <4>6 DEF Yes
            <4> QED BY <4>7
        <3>4. Good(k + 1)
            BY <3>3
        <3> QED BY <3>4
    <2>2. CASE ~(k + 1 <= n)
        BY <2>2
    <2> QED BY <2>1, <2>2
<1>7. n \in T
    <2> HIDE DEF T
    <2> QED BY <1>1, <1>5, <1>6, Naturals
<1>8. Good(n)
    BY <1>1, <1>7
<1> QED BY <1>3, <1>8

-----------------------------------------------------------------------------
(* Where a cell ends.                                                       *)
CellEnd(u, rows, row, field, must) ==
    \/ u = Unquoted(rows, row, field)
    \/ ~must /\ \E b \in BOOLEAN : u = Outside(rows, row, field, b)

EndsCell(s, text, next, rows, row, field, must) ==
    \E u : CellEnd(u, rows, row, field, must) /\ Reads(s, text, next, u)

LEMMA WriteFieldIs ==
    ASSUME NEW field, NEW must, NEW eol
    PROVE  WriteField(field, must, eol) =
               IF must \/ \E i \in DOMAIN field : field[i] \in Special
               THEN <<Quote>> \o Encoded(field, eol) \o <<Quote>> ELSE field
BY DEF WriteField, Encoded, Encode

LEMMA FieldRead ==
    ASSUME NEW P, NEW C, NEW eol, Alphabet(P, C, eol), NEW field \in Seq(C),
           NEW must \in BOOLEAN, NEW rows, NEW row, NEW b \in BOOLEAN, NEW next, next # Quote
    PROVE  /\ WriteField(field, must, eol) \in Seq(P)
           /\ EndsCell(Outside(rows, row, <<>>, b), WriteField(field, must, eol), next,
                       rows, row, field, must)
<1> DEFINE s == Outside(rows, row, <<>>, b)
           w == WriteField(field, must, eol)
           some == \E i \in DOMAIN field : field[i] \in Special
<1>1. w = IF must \/ some THEN <<Quote>> \o Encoded(field, eol) \o <<Quote>> ELSE field
    BY WriteFieldIs
<1>2. CASE must \/ some
    <2> DEFINE q == <<Quote>>
               c == Encoded(field, eol)
               m == Inside(rows, row, <<>>)
               e == Inside(rows, row, field)
               u == Unquoted(rows, row, field)
    <2>1. q \in Seq(P) /\ c \in Seq(P) /\ Reads(m, c, Quote, e)
        <3>1. <<Quote>> \in Seq(P)
            BY DEF Alphabet
        <3>2. c \in Seq(P) /\ Reads(m, c, Quote, e)
            BY ContentRead
        <3> QED BY <3>1, <3>2
    <2>2. ASSUME NEW n PROVE Reads(s, q, n, m)
        <3>1. scan(s, Quote, n) = m
            BY OutsideScan
        <3> QED BY <3>1, ReadsOne
    <2>3. Reads(e, q, next, u) /\ Ahead(q, next) = Quote
        <3>1. scan(e, Quote, next) = u
            BY InsideScan
        <3> QED BY <3>1, ReadsOne DEF Ahead
    <2>4. w = (q \o c) \o q
        BY <1>1, <1>2
    <2>5. CellEnd(u, rows, row, field, must)
        BY DEF CellEnd
    <2> HIDE DEF q, c, m, e, u, s, w
    <2>6. Reads(s, q \o c, Quote, e)
        BY <2>1, <2>2, ReadsBoth
    <2>7. q \o c \in Seq(P) /\ (q \o c) \o q \in Seq(P)
        BY <2>1
    <2>8. Reads(s, (q \o c) \o q, next, u)
        BY <2>1, <2>3, <2>6, <2>7, ReadsBoth
    <2>9. w \in Seq(P) /\ Reads(s, w, next, u)
        BY <2>4, <2>7, <2>8
    <2> QED BY <2>5, <2>9 DEF s, w, EndsCell
<1>3. CASE ~must /\ ~some
    <2>1. w = field
        BY <1>1, <1>3
    <2>2. PICK c \in BOOLEAN : Reads(s, field, next, Outside(rows, row, field, c))
        BY <1>3, PlainRead DEF Alphabet
    <2>3. CellEnd(Outside(rows, row, field, c), rows, row, field, must)
        BY <1>3 DEF CellEnd
    <2>4. field \in Seq(P)
        <3>1. \A i \in 1..Len(field) : field[i] \in C /\ field[i] # LF
            BY <1>3 DEF Special
        <3>2. \A i \in 1..Len(field) : field[i] \in P
            BY <3>1 DEF Alphabet
        <3>3. Len(field) \in Nat /\ field = [i \in 1..Len(field) |-> field[i]]
            OBVIOUS
        <3>4. field \in [1..Len(field) -> P]
            BY <3>2, <3>3
        <3> QED BY <3>3, <3>4, SeqDef
    <2> HIDE DEF s, w
    <2> QED BY <2>1, <2>2, <2>3, <2>4 DEF s, w, EndsCell
<1> QED BY <1>2, <1>3

LEMMA FieldText ==
    ASSUME NEW P, NEW C, NEW eol, Alphabet(P, C, eol), NEW field \in Seq(C), NEW must \in BOOLEAN
    PROVE  WriteField(field, must, eol) \in Seq(P)
<1> DEFINE text == WriteField(field, must, eol)
<1>1. ASSUME NEW rows, NEW row, NEW next, next # Quote
      PROVE  text \in Seq(P)
    <2>1. Yes \in BOOLEAN
        BY DEF Yes
    <2>2. /\ text \in Seq(P)
          /\ EndsCell(Outside(rows, row, <<>>, Yes), text, next, rows, row, field, must)
        BY <1>1, <2>1, FieldRead
    <2> QED BY <2>2
<1> HIDE DEF text
<1>2. text \in Seq(P)
    BY <1>1, Distinct
<1> QED BY <1>2 DEF text

(* The end of a line.                                                       *)
LEMMA FinishIs ==
    ASSUME NEW rows, NEW row, NEW field, NEW must \in BOOLEAN, NEW u,
           CellEnd(u, rows, row, field, must), must \/ row # <<>> \/ field # <<>>
    PROVE  /\ u.error = FALSE /\ u.skip = FALSE /\ u.quoted = FALSE
           /\ finish_row(u) = Outside(Append(rows, Append(row, field)), <<>>, <<>>, No)
<1>1. CASE u = Unquoted(rows, row, field)
    <2>1. u.rows = rows /\ u.row = row /\ u.field = field /\ u.quote_closed = TRUE
          /\ u.error = FALSE /\ u.skip = FALSE /\ u.quoted = FALSE
        BY <1>1 DEF Unquoted, At, Yes, No
    <2> DEFINE more == Append(rows, Append(row, field))
               t == PutClosed(PutStarted(PutField(PutRow(PutRows(u, more), <<>>), <<>>), No), No)
    <2>2. t = Outside(more, <<>>, <<>>, No)
        BY <1>1, Changed DEF Unquoted, Outside
    <2>3. finish_row(u) = t
        BY <2>1 DEF finish_row, PutClosed, PutStarted, PutField, PutRow, PutRows, No
    <2> QED BY <2>1, <2>2, <2>3
<1>2. CASE u # Unquoted(rows, row, field)
    <2>0. PICK b \in BOOLEAN : u = Outside(rows, row, field, b)
        BY <1>2 DEF CellEnd
    <2>00. row # <<>> \/ field # <<>>
        BY <1>2 DEF CellEnd
    <2>1. u.rows = rows /\ u.row = row /\ u.field = field
          /\ u.error = FALSE /\ u.skip = FALSE /\ u.quoted = FALSE
        BY <2>0 DEF Outside, At, Yes, No
    <2> DEFINE more == Append(rows, Append(row, field))
               t == PutClosed(PutStarted(PutField(PutRow(PutRows(u, more), <<>>), <<>>), No), No)
    <2>2. t = Outside(more, <<>>, <<>>, No)
        BY <2>0, Changed DEF Outside
    <2>3. finish_row(u) = t
        BY <2>00, <2>1 DEF finish_row, PutClosed, PutStarted, PutField, PutRow, PutRows, No
    <2> QED BY <2>1, <2>2, <2>3
<1> QED BY <1>1, <1>2

LEMMA EndRead ==
    ASSUME NEW P, NEW C, NEW eol, Alphabet(P, C, eol),
           NEW rows, NEW row, NEW field, NEW must \in BOOLEAN, NEW u,
           CellEnd(u, rows, row, field, must), must \/ row # <<>> \/ field # <<>>,
           NEW next, Follows(eol, next)
    PROVE  Reads(u, eol, next, Outside(Append(rows, Append(row, field)), <<>>, <<>>, No))
<1> DEFINE more == Append(rows, Append(row, field))
           t == Outside(more, <<>>, <<>>, No)
           v == At(more, <<>>, <<>>, No, No, No, Yes)
<1>1. u.error = FALSE /\ u.skip = FALSE /\ u.quoted = FALSE /\ finish_row(u) = t
    BY FinishIs
<1>2. PutSkip(t, No) = t /\ PutSkip(t, Yes) = v
    BY Changed DEF Outside
<1>3. \A n : scan(v, LF, n) = t
    <2>1. No \in BOOLEAN
        BY DEF No
    <2> QED BY <2>1, SkipScan DEF Outside
<1> HIDE DEF t, v
<1>4. \A x \in {CR, LF} : \A n : scan(u, x, n) = scan_plain(u, x, n)
    BY <1>1, Distinct DEF scan
<1>5. \A x \in {CR, LF} : \A n : scan_plain(u, x, n) = [t EXCEPT !.skip = (x = CR /\ n = LF)]
    BY <1>1, Plain
<1>6. /\ \A n : scan(u, LF, n) = t
      /\ \A n : n # LF => scan(u, CR, n) = t
      /\ scan(u, CR, LF) = v
    <2>1. [t EXCEPT !.skip = FALSE] = t /\ [t EXCEPT !.skip = TRUE] = v
        BY <1>2 DEF PutSkip, Yes, No
    <2>2. ASSUME NEW n PROVE scan(u, LF, n) = t
        <3>1. scan(u, LF, n) = [t EXCEPT !.skip = (LF = CR /\ n = LF)]
            BY <1>4, <1>5
        <3>2. (LF = CR /\ n = LF) = FALSE
            BY Distinct
        <3> QED BY <2>1, <3>1, <3>2
    <2>3. ASSUME NEW n, n # LF PROVE scan(u, CR, n) = t
        <3>1. scan(u, CR, n) = [t EXCEPT !.skip = (CR = CR /\ n = LF)]
            BY <1>4, <1>5
        <3>2. (CR = CR /\ n = LF) = FALSE
            BY <2>3
        <3> QED BY <2>1, <3>1, <3>2
    <2>4. scan(u, CR, LF) = v
        <3>1. scan(u, CR, LF) = [t EXCEPT !.skip = (CR = CR /\ LF = LF)]
            BY <1>4, <1>5
        <3> QED BY <2>1, <3>1
    <2> QED BY <2>2, <2>3, <2>4
<1>7. CASE eol = <<LF>>
    <2>1. Reads(u, <<LF>>, next, scan(u, LF, next))
        BY ReadsOne
    <2> QED BY <1>6, <1>7, <2>1 DEF t
<1>8. CASE eol = <<CR>>
    <2>1. Reads(u, <<CR>>, next, scan(u, CR, next))
        BY ReadsOne
    <2> QED BY <1>6, <1>8, <2>1 DEF t, Follows
<1>9. CASE eol = <<CR, LF>>
    <2>1. Reads(u, <<CR, LF>>, next, scan(scan(u, CR, LF), LF, next))
        BY ReadsTwo
    <2> QED BY <1>3, <1>6, <1>9, <2>1 DEF t
<1> QED BY <1>7, <1>8, <1>9 DEF Alphabet

-----------------------------------------------------------------------------
(* A row, cell by cell.                                                     *)
Must(row, always) == always \/ row = << <<>> >>
Cell(row, always, eol, i) ==
    (IF i > 1 THEN <<Comma>> ELSE <<>>) \o WriteField(row[i], Must(row, always), eol)

LEMMA WriteRowIs ==
    ASSUME NEW row, NEW always, NEW eol
    PROVE  WriteRow(row, always, eol) = FlattenSeq([i \in DOMAIN row |-> Cell(row, always, eol, i)])
BY DEF WriteRow, Cell, Must

LEMMA CommaScan ==
    ASSUME NEW rows, NEW row, NEW field, NEW must, NEW u, CellEnd(u, rows, row, field, must), NEW next
    PROVE  scan(u, Comma, next) = Outside(rows, Append(row, field), <<>>, Yes)
<1>1. CASE u = Unquoted(rows, row, field)
    BY <1>1, UnquotedScan
<1>2. CASE u # Unquoted(rows, row, field)
    <2>1. PICK b \in BOOLEAN : u = Outside(rows, row, field, b)
        BY <1>2 DEF CellEnd
    <2> QED BY <2>1, OutsideScan
<1> QED BY <1>1, <1>2

LEMMA RowRead ==
    ASSUME NEW P, NEW C, NEW eol, Alphabet(P, C, eol), NEW row \in Seq(Seq(C)), row # <<>>,
           NEW always \in BOOLEAN, NEW rows, NEW next, next # Quote
    PROVE  /\ WriteRow(row, always, eol) \in Seq(P)
           /\ EndsCell(Outside(rows, <<>>, <<>>, No), WriteRow(row, always, eol), next,
                       rows, SubSeq(row, 1, Len(row) - 1), row[Len(row)], Must(row, always))
<1> DEFINE n == Len(row)
           must == Must(row, always)
           f == [i \in 1..n |-> Cell(row, always, eol, i)]
           s == Outside(rows, <<>>, <<>>, No)
           w(i) == WriteField(row[i], must, eol)
           End(u, k) == CellEnd(u, rows, SubSeq(row, 1, k), row[k + 1], must)
           Good(k) == \A after : after # Quote => \E u : End(u, k) /\ Reads(s, UpTo(f, k + 1), after, u)
           T == {k \in Nat : k + 1 <= n => Good(k)}
<1>1. n \in Nat /\ n # 0 /\ DOMAIN row = 1..n /\ \A i \in 1..n : row[i] \in Seq(C)
    OBVIOUS
<1>2. must \in BOOLEAN /\ Yes \in BOOLEAN /\ No \in BOOLEAN
    BY DEF Must, Yes, No
<1>3. SubSeq(row, 1, 0) = <<>>
      /\ \A k \in Nat : k + 1 <= n =>
            SubSeq(row, 1, k + 1) = Append(SubSeq(row, 1, k), row[k + 1])
    <2> DEFINE F == Seq(C)
    <2>1. row \in Seq(F)
        OBVIOUS
    <2> HIDE DEF F
    <2> QED BY <2>1, Prefix
<1>4. \A i \in 1..n : f[i] = (IF i > 1 THEN <<Comma>> ELSE <<>>) \o w(i)
    BY DEF Cell
<1> HIDE DEF must
<1>5. ASSUME NEW i \in 1..n
      PROVE  w(i) \in Seq(P)
    <2>1. row[i] \in Seq(C)
        BY <1>1
    <2> QED BY <1>2, <2>1, FieldText
<1>6. <<Comma>> \in Seq(P)
    BY DEF Alphabet
<1>7. f \in [1..n -> Seq(P)]
    <2> DEFINE Q == Seq(P)
               x == <<Comma>>
    <2>0. \A a \in Q : x \o a \in Q /\ <<>> \o a \in Q
        BY <1>6
    <2> HIDE DEF Q, w, x
    <2>1. \A i \in 1..n : f[i] \in Q
        BY <1>4, <1>5, <2>0 DEF x, Q
    <2>2. DOMAIN f = 1..n /\ f = [i \in 1..n |-> f[i]]
        OBVIOUS
    <2> HIDE DEF f
    <2> QED BY <2>1, <2>2 DEF Q
<1>8. WriteRow(row, always, eol) = FlattenSeq(f)
    BY <1>1, WriteRowIs
<1> HIDE DEF n, f
<1>9. UpTo(f, n) \in Seq(P) /\ UpTo(f, 0) = <<>> /\ UpTo(f, n) = FlattenSeq(f)
    BY <1>1, <1>7, UpToAll
<1>10. 0 \in T
    <2>1. CASE 1 <= n
        <3>1. UpTo(f, 0 + 1) = UpTo(f, 0) \o f[0 + 1]
            <4>1. 0 \in Nat /\ 0 + 1 <= n
                BY <2>1
            <4> QED BY <1>1, <1>7, <4>1, UpToNext
        <3>2. 0 + 1 = 1 /\ 1 \in 1..n /\ ~(1 > 1)
            BY <1>1, <2>1
        <3>3. UpTo(f, 1) = <<>> \o (<<>> \o w(1)) /\ w(1) \in Seq(P)
            BY <1>4, <1>5, <1>9, <3>1, <3>2
        <3>4. UpTo(f, 1) = w(1)
            <4> HIDE DEF w
            <4> QED BY <3>3
        <3>5. ASSUME NEW after, after # Quote
              PROVE  \E u : End(u, 0) /\ Reads(s, w(1), after, u)
            <4>1. row[1] \in Seq(C)
                BY <1>1, <3>2
            <4>2. PICK u : CellEnd(u, rows, <<>>, row[1], must) /\ Reads(s, w(1), after, u)
                <5>1. EndsCell(s, w(1), after, rows, <<>>, row[1], must)
                    BY <1>2, <3>5, <4>1, FieldRead
                <5> QED BY <5>1 DEF EndsCell
            <4> QED BY <1>3, <3>2, <4>2
        <3>6. Good(0)
            BY <3>2, <3>4, <3>5
        <3> QED BY <3>6
    <2>2. CASE ~(1 <= n)
        BY <2>2
    <2> QED BY <2>1, <2>2
<1>11. ASSUME NEW k \in Nat, k \in T
       PROVE  k + 1 \in T
    <2>1. CASE (k + 1) + 1 <= n
        <3> DEFINE j == k + 1
                   i == j + 1
                   a == UpTo(f, j)
                   c == <<Comma>>
                   v == w(i)
        <3>0. j \in Nat /\ i \in 1..n /\ j \in 1..n /\ i > 1 /\ k + 1 <= n
            BY <1>1, <2>1
        <3>1. j \in Nat /\ i \in 1..n /\ j \in 1..n /\ i > 1 /\ Good(k)
            BY <1>11, <3>0
        <3>2. UpTo(f, i) = a \o f[i] /\ a \in Seq(P)
            BY <1>1, <1>7, <2>1, <3>1, UpToNext
        <3>3. f[i] = c \o v /\ v \in Seq(P) /\ c \in Seq(P)
            <4>1. f[i] = (IF i > 1 THEN <<Comma>> ELSE <<>>) \o w(i) /\ w(i) \in Seq(P)
                BY <1>4, <1>5, <3>1
            <4> QED BY <1>6, <3>1, <4>1
        <3>4. ASSUME NEW after, after # Quote
              PROVE  \E u : End(u, j) /\ Reads(s, UpTo(f, i), after, u)
            <4>1. PICK u : End(u, k) /\ Reads(s, a, Comma, u)
                BY <3>1, Distinct
            <4> DEFINE t == Outside(rows, SubSeq(row, 1, j), <<>>, Yes)
            <4>2. \A x : Reads(u, c, x, t)
                <5>1. t = Outside(rows, Append(SubSeq(row, 1, k), row[j]), <<>>, Yes)
                    BY <1>3, <3>0
                <5>2. \A x : scan(u, Comma, x) = t
                    <6> HIDE DEF t
                    <6> QED BY <4>1, <5>1, CommaScan
                <5> HIDE DEF t
                <5> QED BY <5>2, ReadsOne
            <4>3. PICK e : CellEnd(e, rows, SubSeq(row, 1, j), row[i], must) /\ Reads(t, v, after, e)
                <5>1. row[i] \in Seq(C)
                    BY <1>1, <3>1
                <5>2. EndsCell(t, v, after, rows, SubSeq(row, 1, j), row[i], must)
                    BY <1>2, <3>4, <5>1, FieldRead
                <5> QED BY <5>2 DEF EndsCell
            <4>4. Ahead(c \o v, after) = Comma
                <5>1. Len(c \o v) # 0 /\ (c \o v)[1] = Comma
                    <6> HIDE DEF v
                    <6> QED BY <3>3
                <5> QED BY <5>1 DEF Ahead
            <4> HIDE DEF a, c, v, t, s
            <4>5. Reads(u, c \o v, after, e)
                BY <3>3, <4>2, <4>3, ReadsBoth
            <4>6. c \o v \in Seq(P)
                BY <3>3
            <4>7. Reads(s, a \o (c \o v), after, e)
                BY <3>2, <4>1, <4>4, <4>5, <4>6, ReadsBoth
            <4> QED BY <3>2, <3>3, <4>3, <4>7
        <3>5. Good(j)
            BY <3>4
        <3> QED BY <3>1, <3>5
    <2>2. CASE ~((k + 1) + 1 <= n)
        BY <2>2
    <2> QED BY <2>1, <2>2
<1>12. n - 1 \in T /\ n - 1 \in Nat /\ (n - 1) + 1 = n
    <2>1. n - 1 \in Nat /\ (n - 1) + 1 = n
        BY <1>1
    <2> HIDE DEF T
    <2> QED BY <1>10, <1>11, <2>1, Naturals
<1>13. Good(n - 1)
    <2> DEFINE m == n - 1
    <2>1. m \in T /\ m + 1 <= n
        BY <1>1, <1>12
    <2> HIDE DEF m
    <2>2. Good(m)
        BY <2>1
    <2> QED BY <2>2 DEF m
<1>14. \E u : End(u, n - 1) /\ Reads(s, UpTo(f, n), next, u)
    BY <1>12, <1>13
<1> QED BY <1>8, <1>9, <1>12, <1>14 DEF n, must, EndsCell

-----------------------------------------------------------------------------
(* A row and the end of its line.                                           *)
LEMMA LastCell ==
    ASSUME NEW S, NEW row \in Seq(S), row # <<>>
    PROVE  /\ Append(SubSeq(row, 1, Len(row) - 1), row[Len(row)]) = row
           /\ SubSeq(row, 1, Len(row) - 1) = <<>> => row = <<row[Len(row)]>>
<1> DEFINE n == Len(row)
           m == n - 1
<1>1. n \in Nat /\ n # 0
    OBVIOUS
<1>2. m \in Nat /\ m + 1 = n
    BY <1>1
<1>3. SubSeq(row, 1, n) = row /\ \A k \in Nat : k + 1 <= n =>
          SubSeq(row, 1, k + 1) = Append(SubSeq(row, 1, k), row[k + 1])
    BY Prefix
<1> HIDE DEF n, m
<1>4. Append(SubSeq(row, 1, m), row[n]) = row
    BY <1>1, <1>2, <1>3
<1>5. Append(<<>>, row[n]) = <<row[n]>>
    OBVIOUS
<1> QED BY <1>4, <1>5 DEF m, n

(* A row of one empty cell is quoted.                                       *)
LEMMA RowShows ==
    ASSUME NEW S, NEW row \in Seq(Seq(S)), row # <<>>, NEW always
    PROVE  Must(row, always) \/ SubSeq(row, 1, Len(row) - 1) # <<>> \/ row[Len(row)] # <<>>
<1> DEFINE F == Seq(S)
<1>1. row \in Seq(F)
    OBVIOUS
<1> HIDE DEF F
<1>2. SubSeq(row, 1, Len(row) - 1) = <<>> => row = <<row[Len(row)]>>
    BY <1>1, LastCell
<1> QED BY <1>2 DEF Must

RowEnds(P, eol, row, always, rows, next) ==
    /\ WriteRow(row, always, eol) \in Seq(P)
    /\ EndsCell(Outside(rows, <<>>, <<>>, No), WriteRow(row, always, eol), next,
                rows, SubSeq(row, 1, Len(row) - 1), row[Len(row)], Must(row, always))

LEMMA RowIsRead ==
    ASSUME NEW P, NEW C, NEW eol, Alphabet(P, C, eol), NEW row, row \in Seq(Seq(C)), row # <<>>,
           NEW always \in BOOLEAN, NEW rows, NEW next, next # Quote
    PROVE  RowEnds(P, eol, row, always, rows, next)
<1>1. WriteRow(row, always, eol) \in Seq(P)
    BY RowRead, Distinct
<1>2. EndsCell(Outside(rows, <<>>, <<>>, No), WriteRow(row, always, eol), next,
               rows, SubSeq(row, 1, Len(row) - 1), row[Len(row)], Must(row, always))
    BY RowRead
<1> QED BY <1>1, <1>2 DEF RowEnds

LEMMA LineRead ==
    ASSUME NEW P, NEW C, NEW eol, Alphabet(P, C, eol), NEW row \in Seq(Seq(C)), row # <<>>,
           NEW always \in BOOLEAN, NEW rows, NEW next, Follows(eol, next)
    PROVE  /\ WriteRow(row, always, eol) \o eol \in Seq(P)
           /\ Reads(Outside(rows, <<>>, <<>>, No), WriteRow(row, always, eol) \o eol, next,
                    Outside(Append(rows, row), <<>>, <<>>, No))
<1> DEFINE w == WriteRow(row, always, eol)
           must == Must(row, always)
           a == SubSeq(row, 1, Len(row) - 1)
           c == row[Len(row)]
           x == Ahead(eol, next)
           s == Outside(rows, <<>>, <<>>, No)
           t == Outside(Append(rows, row), <<>>, <<>>, No)
<1>1. x # Quote /\ eol \in Seq(P)
    <2>1. CASE eol = <<LF>>
        <3>1. LF \in P
            BY <2>1, Distinct DEF Alphabet
        <3> QED BY <2>1, <3>1, Distinct DEF Ahead
    <2>2. CASE eol = <<CR>>
        <3>1. CR \in P
            BY <2>2, Distinct DEF Alphabet
        <3> QED BY <2>2, <3>1, Distinct DEF Ahead
    <2>3. CASE eol = <<CR, LF>>
        <3>1. CR \in P /\ LF \in P
            BY <2>3, Distinct DEF Alphabet
        <3> QED BY <2>3, <3>1, Distinct DEF Ahead
    <2> QED BY <2>1, <2>2, <2>3 DEF Alphabet
<1>2. must \in BOOLEAN
    BY DEF Must
<1>3. must \/ a # <<>> \/ c # <<>>
    BY RowShows
<1>4. Append(a, c) = row
    <2> DEFINE F == Seq(C)
    <2>1. row \in Seq(F)
        OBVIOUS
    <2> HIDE DEF F
    <2> QED BY <2>1, LastCell
<1> HIDE DEF x
<1>5. w \in Seq(P) /\ EndsCell(s, w, x, rows, a, c, must)
    <2>1. RowEnds(P, eol, row, always, rows, x)
        BY <1>1, RowIsRead
    <2> QED BY <2>1 DEF RowEnds
<1> HIDE DEF must, a, c
<1>6. PICK u : CellEnd(u, rows, a, c, must) /\ Reads(s, w, x, u)
    BY <1>5 DEF EndsCell
<1>7. Reads(u, eol, next, t)
    <2>1. Reads(u, eol, next, Outside(Append(rows, Append(a, c)), <<>>, <<>>, No))
        BY <1>2, <1>3, <1>6, EndRead
    <2> QED BY <1>4, <2>1
<1> HIDE DEF w, s, t
<1>8. Reads(s, w \o eol, next, t)
    BY <1>1, <1>5, <1>6, <1>7, ReadsBoth DEF x
<1>9. w \o eol \in Seq(P)
    BY <1>1, <1>5
<1> QED BY <1>8, <1>9 DEF w, s, t

LEMMA AheadFollows ==
    ASSUME NEW P, NEW C, NEW eol, Alphabet(P, C, eol), NEW text \in Seq(P), NEW next,
           Follows(eol, next)
    PROVE  Follows(eol, Ahead(text, next))
<1>1. CASE eol = <<CR>>
    <2>1. LF \notin P
        BY <1>1, Distinct DEF Alphabet
    <2>2. CASE Len(text) = 0
        BY <2>2 DEF Ahead
    <2>3. CASE Len(text) # 0
        <3>1. text[1] \in P
            BY <2>3
        <3> QED BY <2>1, <2>3, <3>1 DEF Ahead, Follows
    <2> QED BY <2>2, <2>3
<1>2. CASE eol # <<CR>>
    BY <1>2 DEF Follows
<1> QED BY <1>1, <1>2

(* The lines of a table, but for a last one without an end.                 *)
Line(rows, always, eol, trim, i) ==
    WriteRow(rows[i], always, eol) \o (IF trim /\ i = Len(rows) THEN <<>> ELSE eol)

Lines(rows, always, eol, trim) == [i \in DOMAIN rows |-> Line(rows, always, eol, trim, i)]

LEMMA WriteCsvIs ==
    ASSUME NEW rows, NEW always, NEW eol, NEW trim
    PROVE  WriteCsv(rows, always, eol, trim) = FlattenSeq(Lines(rows, always, eol, trim))
BY DEF WriteCsv, Line, Lines

LinesOver(P, rows, always, eol, trim) ==
    /\ Lines(rows, always, eol, trim) \in [1..Len(rows) -> Seq(P)]
    /\ \A i \in 1..Len(rows) :
          /\ WriteRow(rows[i], always, eol) \in Seq(P)
          /\ WriteRow(rows[i], always, eol) \o eol \in Seq(P)
          /\ Lines(rows, always, eol, trim)[i]
                 = WriteRow(rows[i], always, eol) \o (IF trim /\ i = Len(rows) THEN <<>> ELSE eol)

LEMMA LinesType ==
    ASSUME NEW P, NEW C, NEW eol, Alphabet(P, C, eol), NEW rows \in Seq(Seq(Seq(C)) \ {<<>>}),
           NEW always \in BOOLEAN, NEW trim \in BOOLEAN
    PROVE  LinesOver(P, rows, always, eol, trim)
<1> DEFINE f == Lines(rows, always, eol, trim)
           n == Len(rows)
           R == Seq(Seq(C)) \ {<<>>}
           w(i) == WriteRow(rows[i], always, eol)
<1>1. n \in Nat /\ DOMAIN rows = 1..n /\ \A i \in 1..n : rows[i] \in R
    OBVIOUS
<1> HIDE DEF n
<1>3. Follows(eol, Quote)
    BY Distinct DEF Follows
<1>4. ASSUME NEW i \in 1..n
      PROVE  w(i) \in Seq(P) /\ w(i) \o eol \in Seq(P)
    <2>1. rows[i] \in Seq(Seq(C)) /\ rows[i] # <<>>
        BY <1>1
    <2>2. ASSUME NEW r PROVE w(i) \in Seq(P) /\ w(i) \o eol \in Seq(P)
        <3> DEFINE s == Outside(r, <<>>, <<>>, No)
        <3>1. w(i) \in Seq(P) /\ EndsCell(s, w(i), Comma, r, SubSeq(rows[i], 1, Len(rows[i]) - 1),
                                          rows[i][Len(rows[i])], Must(rows[i], always))
            BY <2>1, RowRead, Distinct
        <3>2. w(i) \o eol \in Seq(P)
              /\ Reads(s, w(i) \o eol, Quote, Outside(Append(r, rows[i]), <<>>, <<>>, No))
            BY <1>3, <2>1, LineRead
        <3> QED BY <3>1, <3>2
    <2> QED BY <2>2
<1>5. \A i \in 1..n : f[i] = w(i) \o (IF trim /\ i = n THEN <<>> ELSE eol)
    <2> HIDE DEF w
    <2>1. \A i \in 1..n : f[i] = Line(rows, always, eol, trim, i)
        BY <1>1 DEF Lines
    <2>2. \A i : Line(rows, always, eol, trim, i) = w(i) \o (IF trim /\ i = n THEN <<>> ELSE eol)
        BY DEF Line, w, n
    <2> QED BY <2>1, <2>2
<1>6. f \in [1..n -> Seq(P)]
    <2> DEFINE Q == Seq(P)
    <2>1. \A a \in Q : a \o <<>> = a
        BY ConcatEmptySeq
    <2> HIDE DEF w, Q
    <2>2. ASSUME NEW i \in 1..n
          PROVE  f[i] \in Q
        <3>1. w(i) \in Q /\ w(i) \o eol \in Q
            BY <1>4 DEF Q
        <3>2. f[i] = w(i) \o (IF trim /\ i = n THEN <<>> ELSE eol)
            BY <1>5
        <3>3. CASE trim /\ i = n
            BY <2>1, <3>1, <3>2, <3>3
        <3>4. CASE ~(trim /\ i = n)
            BY <3>1, <3>2, <3>4
        <3> QED BY <3>3, <3>4
    <2>3. f = [i \in 1..n |-> f[i]]
        BY <1>1 DEF Lines
    <2> QED BY <2>2, <2>3 DEF Q
<1> HIDE DEF f, w
<1> QED BY <1>4, <1>5, <1>6 DEF n, f, w, LinesOver

LEMMA LinesRead ==
    ASSUME NEW P, NEW C, NEW eol, Alphabet(P, C, eol), NEW rows \in Seq(Seq(Seq(C)) \ {<<>>}),
           NEW always \in BOOLEAN, NEW trim \in BOOLEAN,
           NEW m \in 0..Len(rows), trim => m < Len(rows), NEW next, Follows(eol, next)
    PROVE  Reads(Start, UpTo(Lines(rows, always, eol, trim), m), next,
                 Outside(SubSeq(rows, 1, m), <<>>, <<>>, No))
<1> DEFINE f == Lines(rows, always, eol, trim)
           n == Len(rows)
           R == Seq(Seq(C)) \ {<<>>}
           To(k) == Outside(SubSeq(rows, 1, k), <<>>, <<>>, No)
           Good(k) == \A after : Follows(eol, after) => Reads(Start, UpTo(f, k), after, To(k))
           T == {k \in Nat : k <= n /\ (trim => k < n) => Good(k)}
           w(i) == WriteRow(rows[i], always, eol)
<1>1. n \in Nat /\ DOMAIN rows = 1..n /\ \A i \in 1..n : rows[i] \in R
    OBVIOUS
<1>2. SubSeq(rows, 1, 0) = <<>>
      /\ \A k \in Nat : k + 1 <= n => SubSeq(rows, 1, k + 1) = Append(SubSeq(rows, 1, k), rows[k + 1])
    <2> HIDE DEF R
    <2> QED BY Prefix DEF R
<1> HIDE DEF n
<1>3. Start = Outside(<<>>, <<>>, <<>>, No)
    BY DEF Start, Outside, At, No
<1>4. /\ f \in [1..n -> Seq(P)]
      /\ \A i \in 1..n : w(i) \in Seq(P) /\ w(i) \o eol \in Seq(P)
                           /\ f[i] = w(i) \o (IF trim /\ i = n THEN <<>> ELSE eol)
    <2>1. LinesOver(P, rows, always, eol, trim)
        BY LinesType
    <2> HIDE DEF f, w
    <2> QED BY <2>1 DEF f, n, w, LinesOver
<1> HIDE DEF f
<1>7. UpTo(f, 0) = <<>>
    BY <1>1, <1>4, UpToAll
<1>8. 0 \in T
    <2>1. Good(0)
        BY <1>2, <1>3, <1>7, ReadsNothing
    <2> QED BY <2>1
<1>9. ASSUME NEW k \in Nat, k \in T
      PROVE  k + 1 \in T
    <2>1. CASE k + 1 <= n /\ (trim => k + 1 < n)
        <3> DEFINE i == k + 1
                   a == UpTo(f, k)
                   b == w(i) \o eol
                   u == To(k)
                   t == To(i)
        <3>0. i \in 1..n /\ k <= n /\ (trim => k < n) /\ ~(trim /\ i = n)
            BY <1>1, <2>1
        <3>1. Good(k)
            BY <1>9, <3>0
        <3>2. UpTo(f, i) = a \o b /\ a \in Seq(P) /\ b \in Seq(P)
            <4>0. k + 1 <= n /\ n \in Nat
                BY <1>1, <2>1
            <4>1. UpTo(f, i) = a \o f[i] /\ a \in Seq(P)
                BY <1>4, <4>0, UpToNext
            <4>2. f[i] = b /\ b \in Seq(P)
                BY <1>4, <3>0
            <4> QED BY <4>1, <4>2
        <3>3. ASSUME NEW after, Follows(eol, after)
              PROVE  Reads(Start, UpTo(f, i), after, t)
            <4>1. Reads(u, b, after, t)
                <5>1. t = Outside(Append(SubSeq(rows, 1, k), rows[i]), <<>>, <<>>, No)
                    BY <1>2, <2>1
                <5>2. rows[i] \in Seq(Seq(C)) /\ rows[i] # <<>>
                    BY <1>1, <3>0
                <5> HIDE DEF t, i
                <5>3. b \in Seq(P) /\ Reads(u, b, after, Outside(Append(SubSeq(rows, 1, k), rows[i]), <<>>, <<>>, No))
                    BY <3>3, <5>2, LineRead
                <5> QED BY <5>1, <5>3
            <4>2. Follows(eol, Ahead(b, after))
                <5> HIDE DEF b
                <5> QED BY <3>2, <3>3, AheadFollows
            <4>3. Reads(Start, a, Ahead(b, after), u)
                BY <3>1, <4>2
            <4> HIDE DEF a, b, u, t
            <4>4. Reads(Start, a \o b, after, t)
                BY <3>2, <4>1, <4>3, ReadsBoth
            <4> QED BY <3>2, <4>4
        <3>4. Good(i)
            BY <3>3
        <3> QED BY <3>4
    <2>2. CASE ~(k + 1 <= n /\ (trim => k + 1 < n))
        BY <2>2
    <2> QED BY <2>1, <2>2
<1>10. m \in T
    <2>1. m \in Nat
        OBVIOUS
    <2> HIDE DEF T
    <2> QED BY <1>8, <1>9, <2>1, Naturals
<1>11. Good(m)
    <2>1. m <= n /\ (trim => m < n)
        BY DEF n
    <2> QED BY <1>10, <2>1
<1> QED BY <1>11 DEF f

-----------------------------------------------------------------------------
(* A table.                                                                 *)
LEMMA BehindIs == Behind # Quote /\ Behind # LF
BY Zenon DEF Behind, Quote, LF

Table(rows) == [error |-> FALSE, rows |-> rows]

LEMMA ParsedIs ==
    ASSUME NEW t, t.error = FALSE, t.quoted = FALSE, NEW rows, finish_row(t).rows = rows
    PROVE  Parsed(t) = Table(rows)
BY Zenon DEF Parsed, Table

LEMMA FinishEmpty ==
    ASSUME NEW rows
    PROVE  Parsed(Outside(rows, <<>>, <<>>, No)) = Table(rows)
<1> DEFINE t == Outside(rows, <<>>, <<>>, No)
<1>1. /\ t.rows = rows /\ t.row = <<>> /\ t.field = <<>> /\ t.row_started = FALSE
      /\ t.quote_closed = FALSE /\ t.error = FALSE /\ t.quoted = FALSE
    BY DEF Outside, At, No
<1> HIDE DEF t
<1>2. finish_row(t).rows = rows
    <2> DEFINE some == t.row_started \/ t.field # <<>> \/ t.row # <<>> \/ t.quote_closed
               x == IF some THEN Append(t.rows, Append(t.row, t.field)) ELSE t.rows
    <2>1. finish_row(t) = [t EXCEPT !.rows = x, !.row = <<>>, !.field = <<>>,
                                    !.row_started = FALSE, !.quote_closed = FALSE]
        BY DEF finish_row
    <2>2. x = rows
        BY <1>1
    <2>3. "rows" \in DOMAIN t
        BY DEF t, Outside, At
    <2> HIDE DEF x
    <2> QED BY <2>1, <2>2, <2>3
<1> QED BY <1>1, <1>2, ParsedIs DEF t

Ended(u, rows) ==
    u.error = FALSE /\ u.quoted = FALSE /\ finish_row(u) = Outside(rows, <<>>, <<>>, No)

LEMMA FileEnds ==
    ASSUME NEW rows, NEW row, NEW field, NEW must \in BOOLEAN, NEW u,
           CellEnd(u, rows, row, field, must), must \/ row # <<>> \/ field # <<>>
    PROVE  Ended(u, Append(rows, Append(row, field)))
BY FinishIs DEF Ended

IsRead(P, text, rows) ==
    text \in Seq(P) /\ \E t : Reads(Start, text, Behind, t) /\ Parsed(t) = Table(rows)

LEMMA TableRead ==
    ASSUME NEW P, NEW C, NEW eol, Alphabet(P, C, eol), NEW rows \in Seq(Seq(Seq(C)) \ {<<>>}),
           NEW always \in BOOLEAN, NEW trim \in BOOLEAN
    PROVE  IsRead(P, WriteCsv(rows, always, eol, trim), rows)
<1> DEFINE f == Lines(rows, always, eol, trim)
           n == Len(rows)
           text == WriteCsv(rows, always, eol, trim)
           t0 == Outside(rows, <<>>, <<>>, No)
<1> SUFFICES text \in Seq(P) /\ \E t : Reads(Start, text, Behind, t) /\ Parsed(t) = Table(rows)
    BY DEF IsRead
<1>1. n \in Nat /\ (n = 0 => rows = <<>>)
    OBVIOUS
<1>2. SubSeq(rows, 1, n) = rows /\ SubSeq(rows, 1, 0) = <<>>
    BY Prefix
<1>3. f \in [1..n -> Seq(P)]
    BY LinesType DEF LinesOver
<1>4. text \in Seq(P) /\ UpTo(f, n) = text /\ UpTo(f, 0) = <<>>
    <2> HIDE DEF f, n
    <2>1. UpTo(f, n) \in Seq(P) /\ UpTo(f, 0) = <<>> /\ UpTo(f, n) = FlattenSeq(f)
        BY <1>1, <1>3, UpToAll
    <2>2. text = FlattenSeq(f)
        BY WriteCsvIs DEF f
    <2> QED BY <2>1, <2>2
<1>5. Follows(eol, Behind) /\ Behind # Quote
    BY BehindIs DEF Follows
<1>6. CASE ~trim
    <2>1. n \in 0..Len(rows)
        BY <1>1
    <2>2. Reads(Start, UpTo(f, n), Behind, Outside(SubSeq(rows, 1, n), <<>>, <<>>, No))
        BY <1>5, <1>6, <2>1, LinesRead
    <2>3. Parsed(t0) = Table(rows)
        BY FinishEmpty
    <2> HIDE DEF n, f
    <2>4. Reads(Start, text, Behind, t0)
        <3> HIDE DEF text
        <3> QED BY <1>2, <1>4, <2>2
    <2> HIDE DEF t0
    <2> QED BY <1>4, <2>3, <2>4
<1>7. CASE trim /\ n = 0
    <2>1. text = <<>> /\ rows = <<>>
        BY <1>1, <1>4, <1>7
    <2>2. Start = Outside(<<>>, <<>>, <<>>, No)
        BY DEF Start, Outside, At, No
    <2>3. Parsed(t0) = Table(rows)
        BY FinishEmpty
    <2>4. Reads(Start, text, Behind, t0)
        <3> HIDE DEF text
        <3> QED BY <2>1, <2>2, ReadsNothing
    <2> HIDE DEF t0
    <2> QED BY <1>4, <2>3, <2>4
<1>8. CASE trim /\ n # 0
    <2> DEFINE m == n - 1
               w == WriteRow(rows[n], always, eol)
               s == Outside(SubSeq(rows, 1, m), <<>>, <<>>, No)
               row == rows[n]
               a == SubSeq(row, 1, Len(row) - 1)
               c == row[Len(row)]
               must == Must(row, always)
    <2>1. m \in 0..Len(rows) /\ m < Len(rows) /\ m \in Nat /\ m + 1 = n /\ n \in 1..n
        BY <1>1, <1>8
    <2>2. row \in Seq(Seq(C)) /\ row # <<>>
        BY <2>1
    <2>3. w \in Seq(P) /\ f[n] = w
        <3>1. w \in Seq(P) /\ f[n] = w \o <<>>
            <4>1. LinesOver(P, rows, always, eol, trim)
                BY LinesType
            <4> HIDE DEF f
            <4> QED BY <1>8, <2>1, <4>1 DEF LinesOver, f
        <3> HIDE DEF w
        <3> QED BY <3>1
    <2>4. text = UpTo(f, m) \o w /\ UpTo(f, m) \in Seq(P)
        <3>1. n \in Nat /\ m + 1 <= n
            BY <1>1, <2>1
        <3> HIDE DEF n, m, f, w, text
        <3>2. UpTo(f, m + 1) = UpTo(f, m) \o f[m + 1] /\ UpTo(f, m) \in Seq(P)
            BY <1>3, <2>1, <3>1, UpToNext
        <3> QED BY <1>4, <2>1, <2>3, <3>2
    <2>5. PICK u : CellEnd(u, SubSeq(rows, 1, m), a, c, must) /\ Reads(s, w, Behind, u)
        <3>1. RowEnds(P, eol, row, always, SubSeq(rows, 1, m), Behind)
            <4> HIDE DEF row
            <4> QED BY <1>5, <2>2, RowIsRead
        <3> QED BY <3>1 DEF RowEnds, EndsCell
    <2>6. Reads(Start, UpTo(f, m), Ahead(w, Behind), s)
        <3>1. Follows(eol, Ahead(w, Behind))
            <4> HIDE DEF w
            <4> QED BY <1>5, <2>3, AheadFollows
        <3> QED BY <2>1, <3>1, LinesRead
    <2>7. Reads(Start, text, Behind, u)
        <3> HIDE DEF f, m, w, s, text, a, c, must
        <3> QED BY <2>3, <2>4, <2>5, <2>6, ReadsBoth
    <2>8. must \in BOOLEAN /\ (must \/ a # <<>> \/ c # <<>>) /\ Append(a, c) = row
        <3>1. must \in BOOLEAN
            BY DEF Must
        <3> HIDE DEF row
        <3>2. must \/ a # <<>> \/ c # <<>>
            BY <2>2, RowShows
        <3>3. Append(a, c) = row
            <4> DEFINE F == Seq(C)
            <4>1. row \in Seq(F)
                BY <2>2
            <4> HIDE DEF F
            <4> QED BY <2>2, <4>1, LastCell
        <3> QED BY <3>1, <3>2, <3>3
    <2>9. Append(SubSeq(rows, 1, m), row) = rows
        <3> DEFINE R == Seq(Seq(C)) \ {<<>>}
        <3>1. rows \in Seq(R) /\ rows # <<>>
            BY <2>1
        <3> HIDE DEF R
        <3> QED BY <3>1, LastCell
    <2>10. /\ u.error = FALSE /\ u.quoted = FALSE
           /\ finish_row(u) = Outside(Append(SubSeq(rows, 1, m), Append(a, c)), <<>>, <<>>, No)
        <3> HIDE DEF m, a, c, must
        <3>1. Ended(u, Append(SubSeq(rows, 1, m), Append(a, c)))
            BY <2>5, <2>8, FileEnds
        <3> QED BY <3>1 DEF Ended
    <2>11. finish_row(u).rows = rows
        <3>1. finish_row(u) = t0
            <4> HIDE DEF a, c, row, m
            <4> QED BY <2>8, <2>9, <2>10
        <3> QED BY <3>1 DEF Outside, At
    <2>12. Parsed(u) = Table(rows)
        BY <2>10, <2>11, ParsedIs
    <2> QED BY <1>4, <2>7, <2>12
<1> QED BY <1>6, <1>7, <1>8

(* Whatever rows of cells a writer that follows the quoting rules turns into a
   text, with whatever line ends, parse_csv gives them back: every quote,
   comma and line break of a cell, every empty cell, and no row more or less.
   CR and NUL are no characters of a cell: the reader turns the one into LF
   and refuses the other.                                                   *)
THEOREM ReadsBack ==
    ASSUME NEW C, CR \notin C, NUL \notin C, NEW rows \in Seq(Seq(Seq(C)) \ {<<>>}),
           NEW always \in BOOLEAN, NEW trim \in BOOLEAN, NEW eol \in Eols
    PROVE  parse_csv(WriteCsv(rows, always, eol, trim)) = [error |-> FALSE, rows |-> rows]
<1> DEFINE D == C \cup {Quote, Comma, CR, LF}
           P == D \ (IF eol = <<CR>> THEN {LF} ELSE {})
           text == WriteCsv(rows, always, eol, trim)
           r == Table(rows)
<1>1. Alphabet(P, C, eol)
    <2>1. Quote \in P /\ Comma \in P /\ CR \in P /\ C \ {LF} \subseteq P
        BY Distinct
    <2>2. CASE eol = <<LF>>
        <3>1. LF \in P
            BY <2>2, Distinct
        <3> HIDE DEF P
        <3> QED BY <2>1, <2>2, <3>1 DEF Alphabet
    <2>3. CASE eol = <<CR>>
        <3>1. LF \notin P
            BY <2>3
        <3> HIDE DEF P
        <3> QED BY <2>1, <2>3, <3>1 DEF Alphabet
    <2>4. CASE eol = <<CR, LF>>
        <3>1. LF \in P
            BY <2>4
        <3> HIDE DEF P
        <3> QED BY <2>1, <2>4, <3>1 DEF Alphabet
    <2> QED BY <2>2, <2>3, <2>4 DEF Eols
<1>2. P \subseteq D /\ LF \in D /\ Quote \in D
    OBVIOUS
<1> HIDE DEF D, P, text, r
<1>3. text \in Seq(P) /\ \E t : Reads(Start, text, Behind, t) /\ Parsed(t) = r
    <2>1. IsRead(P, WriteCsv(rows, always, eol, trim), rows)
        BY <1>1, TableRead
    <2> QED BY <2>1 DEF IsRead, text, r
<1>4. PICK t : Reads(Start, text, Behind, t) /\ Parsed(t) = r
    BY <1>3
<1>5. text \in Seq(D)
    BY <1>2, <1>3
<1>6. parse_csv(text) = Parsed(t)
    BY <1>2, <1>4, <1>5, ParseIs
<1> QED BY <1>4, <1>6 DEF text, r, Table

(* The tables of the property are such tables.                              *)
LEMMA TablesRead == CsvReadsBack
<1> DEFINE F == Seq(Letters)
           R == Seq(F) \ {<<>>}
<1>1. CR \notin Letters /\ NUL \notin Letters
    BY DEF Letters, CR, NUL, Quote, Comma, LF
<1>2. LongFields \subseteq F /\ ShortFields \subseteq F
    <2>1. \A k \in Nat : [1..k -> Letters] \subseteq F
        BY SeqDef
    <2>2. (0..1) \subseteq Nat /\ (0..2) \subseteq Nat
        OBVIOUS
    <2> HIDE DEF F
    <2> QED BY <2>1, <2>2 DEF LongFields, ShortFields, BoundedSeq, SeqOf
<1> HIDE DEF F
<1>3. ShortRows \subseteq R /\ LastRows \subseteq R /\ \A f \in LongFields : <<f>> \in R
    <2>1. \A f, g \in F : <<f>> \in R /\ <<f, g>> \in R
        OBVIOUS
    <2> HIDE DEF R
    <2>2. ASSUME NEW r \in ShortRows
          PROVE  r \in R
        <3>1. (\E f \in ShortFields : r = <<f>>) \/ \E f, g \in ShortFields : r = <<f, g>>
            BY DEF ShortRows
        <3> QED BY <1>2, <2>1, <3>1
    <2>3. ASSUME NEW r \in LastRows
          PROVE  r \in R
        <3>1. \E f \in ShortFields : r = <<f>> \/ r = <<f, f>>
            BY DEF LastRows
        <3> QED BY <1>2, <2>1, <3>1
    <2> QED BY <1>2, <2>1, <2>2, <2>3
<1> HIDE DEF R
<1>4. CsvTables \subseteq Seq(R)
    <2>1. \A r, t \in R : <<r>> \in Seq(R) /\ <<r, t>> \in Seq(R)
        OBVIOUS
    <2> SUFFICES ASSUME NEW rows \in CsvTables
                 PROVE  rows \in Seq(R)
        OBVIOUS
    <2>2. \/ \E f \in LongFields : rows = << <<f>> >>
          \/ \E r \in ShortRows, t \in LastRows : rows = <<r, t>>
        BY DEF CsvTables
    <2>3. CASE \E f \in LongFields : rows = << <<f>> >>
        <3>1. PICK f \in LongFields : rows = << <<f>> >>
            BY <2>3
        <3> DEFINE r == <<f>>
        <3>2. r \in R /\ rows = <<r>>
            BY <1>3, <3>1
        <3> HIDE DEF r
        <3> QED BY <2>1, <3>2
    <2>4. CASE \E r \in ShortRows, t \in LastRows : rows = <<r, t>>
        <3>1. PICK r \in ShortRows, t \in LastRows : rows = <<r, t>>
            BY <2>4
        <3>2. r \in R /\ t \in R
            BY <1>3
        <3> QED BY <2>1, <3>1, <3>2
    <2> QED BY <2>2, <2>3, <2>4
<1>5. ASSUME NEW rows \in CsvTables, NEW always \in BOOLEAN, NEW eol \in Eols, NEW trim \in BOOLEAN
      PROVE  parse_csv(WriteCsv(rows, always, eol, trim)) = [error |-> FALSE, rows |-> rows]
    <2>1. rows \in Seq(Seq(Seq(Letters)) \ {<<>>})
        BY <1>4 DEF R, F
    <2> QED BY <1>1, <2>1, ReadsBack
<1> QED BY <1>5 DEF CsvReadsBack

(* A table comes back as it was written, and an import deals out the ids that
   asking for the next one sample by sample would: import_file, parse_csv.   *)
THEOREM ImportCorrect == Spec => []ImportReadsBack
<1>1. IInv => ImportReadsBack
    <2> SUFFICES ASSUME IInv, NEW p \in Process, items[p] # None
                 PROVE  /\ CsvReadsBack
                        /\ \A text \in CsvFiles :
                              import_file(Samples[text], items[p])
                                  = import_one_by_one(Samples[text], items[p])
        BY DEF ImportReadsBack
    <2>1. items[p] \in Seq(Item)
        BY DEF IInv, TypeInv
    <2>2. ASSUME NEW text \in CsvFiles
          PROVE  import_file(Samples[text], items[p])
                     = import_one_by_one(Samples[text], items[p])
        <3> DEFINE samples == Samples[text]
                   existing == items[p]
        <3>1. samples \in Seq(Seq(STRING)) /\ existing \in Seq(Item)
            BY <2>1, SamplesAssumption
        <3> HIDE DEF samples, existing
        <3>2. import_one_by_one(samples, existing) = import_file(samples, existing)
            BY <3>1, OneByOne
        <3> QED BY <3>2 DEF samples, existing
    <2> QED BY <2>2, TablesRead
<1> QED BY <1>1, Inductive, PTL

==============================================================================
