------------------------------- MODULE Catalog -------------------------------
(***************************************************************************)
(* The sample catalog on disk, and the programs that initialise, load and  *)
(* save it (runtime_paths.cpp, json_log_catalog.cpp,                       *)
(* log_catalog_service.cpp, sample_log_import_service.cpp).                *)
(*                                                                         *)
(* Every process works on one file and on temporary files of its own, one  *)
(* system call at a time, and may die between any two.  A restarted        *)
(* process may be given the process id of the one that died, so that its   *)
(* temporary names can meet the leftovers.  A catalog is the sequence of   *)
(* its items; what the properties need of an item is its id: names,        *)
(* samples and test cases travel with it, and the tokenizing that loading  *)
(* and saving also do is the subject of Renderer.                          *)
(***************************************************************************)
EXTENDS SampleIds, CsvSource, FiniteSets

CONSTANTS
  Process,        \* the programs that share the catalog
  Packaged,       \* a Store installation, with a catalog per user
  Bundled,        \* the catalog that comes with the program
  Initial,        \* what the file may hold at first, hand-edited or absent
  CsvFiles,       \* the texts a user may import
  MaxAttempts,    \* attempts at the replacement, 7 in the code
  None,           \* no such file, nothing in memory
  Broken,         \* a file load cannot parse: hand-edited, or half written
  MaxItems, MaxSaves, MaxFaults   \* bounds: items, saves, crashes and refusals of the disk

ASSUME CatalogAssumption ==
  /\ Packaged \in BOOLEAN
  /\ MaxAttempts \in Nat \ {0}
  /\ MaxItems \in Nat /\ MaxSaves \in Nat /\ MaxFaults \in Nat
  /\ Bundled \in Seq(Item) /\ Initial \subseteq Seq(Item) \cup {None, Broken}
  /\ None \notin Seq(Item) /\ Broken \notin Seq(Item) /\ None # Broken

VARIABLES
  catalog,    \* the content of sample_logs.json
  temps,      \* the temporary files: [kind, owner, seq, data]
  pc,         \* where a process is
  items,      \* its catalog_items_, None before the first load
  wanted,     \* the catalog it is saving
  sequence,   \* the process's counter behind the temporary names
  attempt,    \* replace_file_with_retry's counter
  saves, faults

vars == <<catalog, temps, pc, items, wanted, sequence, attempt, saves, faults>>

Init ==
  /\ catalog \in Initial
  /\ temps = {}
  /\ pc = [p \in Process |-> "off"]
  /\ items = [p \in Process |-> None]
  /\ wanted = [p \in Process |-> None]
  /\ sequence = [p \in Process |-> 0]
  /\ attempt = [p \in Process |-> 0]
  /\ saves = 0 /\ faults = 0

Go(p, from, to) == pc[p] = from /\ pc' = [pc EXCEPT ![p] = to]

Named(kind, p, seq) == {t \in temps : t.kind = kind /\ t.owner = p /\ t.seq = seq}
Seed(p) == Named("seed", p, sequence[p])
Tmp(p)  == Named("tmp", p, sequence[p])
File(kind, p, seq, data) == [kind |-> kind, owner |-> p, seq |-> seq, data |-> data]

-----------------------------------------------------------------------------
(* initialize_runtime_catalog, before the rest of the program starts.      *)

Launch(p) ==
  /\ Go(p, "off", IF Packaged THEN "check" ELSE "idle")
  /\ UNCHANGED <<catalog, temps, items, wanted, sequence, attempt, saves, faults>>

CheckCatalog(p) ==
  /\ Go(p, "check", IF catalog # None THEN "idle" ELSE "copy")
  /\ UNCHANGED <<catalog, temps, items, wanted, sequence, attempt, saves, faults>>

\* copy_file creates the temporary catalog before it fills it.
CreateSeed(p) ==
  /\ Go(p, "copy", "copying")
  /\ temps' = temps \cup {File("seed", p, sequence[p], Broken)}
  /\ UNCHANGED <<catalog, items, wanted, sequence, attempt, saves, faults>>

CopyBundled(p) ==
  /\ Go(p, "copying", "publish")
  /\ temps' = (temps \ Seed(p)) \cup {File("seed", p, sequence[p], Bundled)}
  /\ UNCHANGED <<catalog, items, wanted, sequence, attempt, saves, faults>>

CopyFails(p) ==
  /\ Go(p, "copying", "unseed_failed")
  /\ faults < MaxFaults /\ faults' = faults + 1
  /\ UNCHANGED <<catalog, temps, items, wanted, sequence, attempt, saves>>

\* Mutant: a replacing move.
publish_replaces(p) ==
  /\ Go(p, "publish", "unseed")
  /\ catalog' = (CHOOSE t \in Seed(p) : TRUE).data
  /\ UNCHANGED <<temps, items, wanted, sequence, attempt, saves, faults>>

\* publish_catalog: the temporary catalog gets the catalog's name only if
\* nobody has it (a hard link, or a move that does not replace).
publish_catalog(p) ==
  /\ Go(p, "publish", "unseed")
  /\ catalog' = IF catalog = None THEN (CHOOSE t \in Seed(p) : TRUE).data ELSE catalog
  /\ UNCHANGED <<temps, items, wanted, sequence, attempt, saves, faults>>

\* The name could not be given, and nobody else has made the catalog.
PublishFails(p) ==
  /\ catalog = None
  /\ Go(p, "publish", "unseed_failed")
  /\ faults < MaxFaults /\ faults' = faults + 1
  /\ UNCHANGED <<catalog, temps, items, wanted, sequence, attempt, saves>>

\* What a process leaves stays as it is.  The name of a leftover seed holds
\* a time stamp and does not come back.
Stale(t) == IF t.kind = "seed" THEN [t EXCEPT !.kind = "stale", !.seq = faults] ELSE t
Abandoned(p) == {IF t.owner = p THEN Stale(t) ELSE t : t \in temps}

\* ~TemporaryCatalog, on the way out with or without an exception; when the
\* file cannot be removed it stays, and nobody is told.
RemoveSeed(p) ==
  /\ \/ Go(p, "unseed", "idle")
     \/ Go(p, "unseed_failed", "failed")
  /\ \/ temps' = temps \ Seed(p) /\ UNCHANGED faults
     \/ /\ faults < MaxFaults /\ faults' = faults + 1
        /\ temps' = Abandoned(p)
  /\ UNCHANGED <<catalog, items, wanted, sequence, attempt, saves>>

-----------------------------------------------------------------------------
(* Loading, and the edits that lead to a save.                             *)

readable(content) == content \notin {None, Broken} /\ validate_ids(content)

\* Nobody writes to a file that has the catalog's name, so what load opens
\* is what it reads to the end.  An error leaves the items as they were.
Load(p) ==
  /\ Go(p, "idle", "idle")
  /\ items' = [items EXCEPT ![p] = IF readable(catalog) THEN catalog ELSE @]
  /\ UNCHANGED <<catalog, temps, wanted, sequence, attempt, saves, faults>>

Save(p, content) ==
  /\ saves < MaxSaves /\ saves' = saves + 1
  /\ wanted' = [wanted EXCEPT ![p] = content]

\* The editor appends an item.  next_id throws outside any handler: the
\* program ends.
AddItem(p) ==
  /\ items[p] # None /\ Len(items[p]) < MaxItems
  /\ \/ /\ id_available(items[p])
        /\ LET more == Append(items[p], [id |-> next_id(items[p])])
           IN  /\ items' = [items EXCEPT ![p] = more]
               /\ Save(p, more)
        /\ Go(p, "idle", "save")
     \/ /\ ~ id_available(items[p])
        /\ Go(p, "idle", "failed")
        /\ items' = [items EXCEPT ![p] = None]
        /\ UNCHANGED <<wanted, saves>>
  /\ UNCHANGED <<catalog, temps, sequence, attempt, faults>>

DeleteItem(p) ==
  /\ items[p] # None
  /\ \E i \in DOMAIN items[p] :
       LET fewer == RemoveAt(items[p], i)
       IN  /\ items' = [items EXCEPT ![p] = fewer]
           /\ Save(p, fewer)
  /\ Go(p, "idle", "save")
  /\ UNCHANGED <<catalog, temps, sequence, attempt, faults>>

\* What the CSV source makes of each file.
Samples == [text \in CsvFiles |-> load_samples(text)]

ASSUME SamplesAssumption == Samples \in [CsvFiles -> Seq(Seq(STRING))]

\* import_file: one item per sample, with the ids that follow the largest;
\* None when an id or a sample is missing.
import_file(samples, existing) ==
  LET last == largest_id(existing) + Len(samples)
  IN  IF samples = <<>> \/ ~ id_available(existing) \/ last > MaxId THEN None
      ELSE existing \o [i \in DOMAIN samples |-> [id |-> padded(largest_id(existing) + i)]]

\* The loop of import_file, which asks for the next id sample by sample.
import_one_by_one(samples, existing) ==
  LET add(list, sample) ==
        IF list = None \/ ~ id_available(list) THEN None
        ELSE Append(list, [id |-> next_id(list)])
  IN  IF samples = <<>> THEN None ELSE FoldLeft(add, existing, samples)

\* The import saves first; the items are replaced when the save has ended.
Import(p) ==
  /\ items[p] # None
  /\ \E text \in CsvFiles :
       LET all == import_file(Samples[text], items[p])
       IN  \/ /\ all # None /\ Len(all) <= MaxItems
              /\ Save(p, all)
              /\ Go(p, "idle", "save")
           \/ /\ all = None
              /\ Go(p, "idle", "idle")
              /\ UNCHANGED <<wanted, saves>>
  /\ UNCHANGED <<catalog, temps, items, sequence, attempt, faults>>

-----------------------------------------------------------------------------
(* JsonLogCatalog::save.                                                   *)

Fail(p) == wanted' = [wanted EXCEPT ![p] = None]

\* The items are checked, the temporary file is opened and truncated.
OpenTemporary(p) ==
  /\ Go(p, "save", "write")
  /\ validate_ids(wanted[p])
  /\ sequence' = [sequence EXCEPT ![p] = @ + 1]
  /\ temps' = (temps \ Named("tmp", p, sequence'[p]))
              \cup {File("tmp", p, sequence'[p], Broken)}
  /\ UNCHANGED <<catalog, items, wanted, attempt, saves, faults>>

\* The items were refused, or the file could not be opened.
OpenFails(p) ==
  /\ Go(p, "save", "idle")
  /\ Fail(p)
  /\ sequence' = [sequence EXCEPT ![p] = IF validate_ids(wanted[p]) THEN @ + 1 ELSE @]
  /\ UNCHANGED <<catalog, temps, items, attempt, saves, faults>>

WriteTemporary(p) ==
  /\ Go(p, "write", "replace")
  /\ temps' = (temps \ Tmp(p)) \cup {File("tmp", p, sequence[p], wanted[p])}
  /\ attempt' = [attempt EXCEPT ![p] = 0]
  /\ UNCHANGED <<catalog, items, wanted, sequence, saves, faults>>

\* A full disk, or a text that is no UTF-8, which the strict dump refuses:
\* save throws and leaves the temporary file behind.
WriteFails(p) ==
  /\ Go(p, "write", "idle")
  /\ Fail(p)
  /\ faults < MaxFaults /\ faults' = faults + 1
  /\ UNCHANGED <<catalog, temps, items, sequence, attempt, saves>>

\* The name moves to the new file.
Replace(p) ==
  /\ Go(p, "replace", "idle")
  /\ catalog' = (CHOOSE t \in Tmp(p) : TRUE).data
  /\ temps' = temps \ Tmp(p)
  /\ items' = [items EXCEPT ![p] = wanted[p]]
  /\ wanted' = [wanted EXCEPT ![p] = None]
  /\ UNCHANGED <<sequence, attempt, saves, faults>>

\* Somebody has the catalog open: try again after a pause, MaxAttempts in all.
RetryReplace(p) ==
  /\ pc[p] = "replace" /\ attempt[p] < MaxAttempts - 1
  /\ attempt' = [attempt EXCEPT ![p] = @ + 1]
  /\ UNCHANGED <<catalog, temps, pc, items, wanted, sequence, saves, faults>>

ReplaceFails(p) ==
  /\ Go(p, "replace", "discard")
  /\ UNCHANGED <<catalog, temps, items, wanted, sequence, attempt, saves, faults>>

\* Mutant: the temporary file is kept.
DiscardForgets(p) ==
  /\ Go(p, "discard", "idle")
  /\ Fail(p)
  /\ UNCHANGED <<catalog, temps, items, sequence, attempt, saves, faults>>

\* The error of the removal is not looked at: whoever kept the catalog from
\* being replaced may keep the temporary file too.
Discard(p) ==
  /\ Go(p, "discard", "idle")
  /\ \/ temps' = temps \ Tmp(p) /\ UNCHANGED faults
     \/ faults < MaxFaults /\ faults' = faults + 1 /\ UNCHANGED temps
  /\ Fail(p)
  /\ UNCHANGED <<catalog, items, sequence, attempt, saves>>

\* The process dies, its files stay; one that ended starts anew later.
Crash(p) ==
  /\ pc[p] # "off"
  /\ IF pc[p] = "failed" THEN UNCHANGED faults
     ELSE faults < MaxFaults /\ faults' = faults + 1
  /\ pc' = [pc EXCEPT ![p] = "off"]
  /\ items' = [items EXCEPT ![p] = None]
  /\ wanted' = [wanted EXCEPT ![p] = None]
  /\ sequence' = [sequence EXCEPT ![p] = 0]
  /\ temps' = Abandoned(p)
  /\ UNCHANGED <<catalog, attempt, saves>>

-----------------------------------------------------------------------------

Initialise(p) ==
  \/ CheckCatalog(p) \/ CreateSeed(p) \/ CopyBundled(p) \/ CopyFails(p)
  \/ publish_catalog(p) \/ PublishFails(p) \/ RemoveSeed(p)

SaveStep(p) ==
  \/ OpenTemporary(p) \/ OpenFails(p) \/ WriteTemporary(p) \/ WriteFails(p)
  \/ Replace(p) \/ RetryReplace(p) \/ ReplaceFails(p) \/ Discard(p)

Next == \E p \in Process :
  \/ Launch(p) \/ Initialise(p) \/ Load(p)
  \/ AddItem(p) \/ DeleteItem(p) \/ Import(p)
  \/ SaveStep(p) \/ Crash(p)

Spec == Init /\ [][Next]_vars

-----------------------------------------------------------------------------

(***************************************************************************)
(* The files, the retries, the crashes and the two processes together      *)
(* implement the atomic catalog: whatever dies where, the catalog is the   *)
(* bundled one or the whole of one save, and the first start of a second   *)
(* process does not undo the save of the first (publish_catalog, save).    *)
(***************************************************************************)
Abstract == INSTANCE AtomicCatalog WITH Whole <- readable
ImplementsAtomicCatalog == Abstract!Spec

(***************************************************************************)
(* Every catalog in a program's memory can be saved and loaded again: the  *)
(* ids that add and import make up are new after any sequence of edits,    *)
(* reloads and saves by others, also next to hand-written ids such as "1"  *)
(* beside "0001".                                                          *)
(***************************************************************************)
EditsKeepIdsApart ==
  \A p \in Process : items[p] # None => validate_ids(items[p])

(***************************************************************************)
(* A program that can import reads what a spreadsheet wrote: every table   *)
(* of up to two rows and columns, in every quoting and line ending, comes  *)
(* back from parse_csv as it went out, with its quotes, commas and line    *)
(* breaks, and with the empty fields that tell an empty row from no row;   *)
(* and asking for the next id sample by sample deals out the run of ids    *)
(* after the largest, or none at all when it does not fit.                 *)
(***************************************************************************)
ImportReadsBack ==
  \A p \in Process : items[p] # None =>
    /\ CsvReadsBack
    /\ \A text \in CsvFiles :
         import_file(Samples[text], items[p]) = import_one_by_one(Samples[text], items[p])

(***************************************************************************)
(* Only a crash, a failed write or a removal that failed leaves a temporary *)
(* file behind, and each of them one: what nobody is working on counts at  *)
(* most the faults there have been.  Every other refusal, of a second      *)
(* start, of invalid ids, of a replacement, cleans up after itself.        *)
(***************************************************************************)
InUse(t) ==
  /\ t.seq = sequence[t.owner]
  /\ \/ t.kind = "seed" /\ pc[t.owner] \in {"copying", "publish", "unseed", "unseed_failed"}
     \/ t.kind = "tmp" /\ pc[t.owner] \in {"write", "replace", "discard"}

LeftoversExplained == Cardinality({t \in temps : ~ InUse(t)}) <= faults

=============================================================================
