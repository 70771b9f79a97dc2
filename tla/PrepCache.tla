------------------------------ MODULE PrepCache ------------------------------
(***************************************************************************)
(* LogPreparationCache (application/log_preparation_cache): the compiled     *)
(* form of a log template, shared by the threads that import, edit and      *)
(* generate.  A template is looked up by its own key and, once tokenized,   *)
(* by the key of that; an unknown one is compiled without the mutex and     *)
(* published under both keys.  Each use of mutex_ is a step.                 *)
(*                                                                         *)
(* A key is made of the sample, the tokens and their values, one after the  *)
(* other and without their numbers, so that two templates may have one key: *)
(* {A: [x, B, y]} and {A: [x], B: [y]}.  Tokenizing need not end at once     *)
(* either: a marker with an unknown key grows at every turn.  A compiled    *)
(* entry is the template it was compiled from and a number telling two      *)
(* objects apart.                                                          *)
(***************************************************************************)
EXTENDS Integers, FiniteSets

CONSTANTS Threads, CacheTemplates, TemplateKeys,
          Tokenized,        \* LogRenderer::tokenize
          cache_key,        \* the key of each template
          maximum_entries,
          MaxCalls          \* bound: calls in all

ASSUME PrepCacheAssumption ==
    /\ CacheTemplates # {} /\ Tokenized \in [CacheTemplates -> CacheTemplates]
    /\ cache_key \in [CacheTemplates -> TemplateKeys]
    /\ maximum_entries \in Nat \ {0} /\ MaxCalls \in Nat

VARIABLES
    entries,            \* entries_
    compilation_count,
    published,          \* history: objects put into the cache
    evicted,            \* history: a key had to go
    pc,                 \* each thread: its place
    requested,          \* the template get_or_compile was called with
    alias,              \* the template tokenize_and_cache was called with
    outer,              \* the call came through tokenize_and_cache
    held,               \* the entry a thread has in hand or has returned
    calls

cacheVars == <<entries, compilation_count, published, evicted, pc, requested, alias,
               outer, held, calls>>
call == <<requested, alias, outer>>

Objects == [blueprint : CacheTemplates, id : 1..MaxCalls]
NoEntry == [blueprint |-> "none", id |-> 0]

CacheInit ==
    /\ entries = [k \in {} |-> NoEntry]
    /\ compilation_count = 0 /\ published = {} /\ evicted = FALSE
    /\ pc = [t \in Threads |-> "idle"]
    /\ requested \in [Threads -> {CHOOSE x \in CacheTemplates : TRUE}]
    /\ alias = requested
    /\ outer = [t \in Threads |-> FALSE]
    /\ held = [t \in Threads |-> NoEntry]
    /\ calls = 0

original_key(t)  == cache_key[requested[t]]
tokenized_key(t) == cache_key[Tokenized[requested[t]]]

-----------------------------------------------------------------------------
(* entries_.insert_or_assign                                                *)
Assign(map, key, entry) ==
    [k \in DOMAIN map \cup {key} |-> IF k = key THEN entry ELSE map[k]]

(* The maps after room was made for a key: erase(begin()) takes any entry.  *)
Evicted(map, key) ==
    IF Cardinality(DOMAIN map) >= maximum_entries /\ key \notin DOMAIN map
       THEN {[k \in DOMAIN map \ {gone} |-> map[k]] : gone \in DOMAIN map}
       ELSE {map}

(* The maps after insert_alias(key, entry).                                 *)
Inserted(map, key, entry) == {Assign(m, key, entry) : m \in Evicted(map, key)}

(* History: whether one of the keys, old or just entered, is gone.          *)
NoteEviction(new) ==
    evicted' = (evicted \/ ~(DOMAIN entries \cup new \subseteq DOMAIN entries'))

-----------------------------------------------------------------------------
(* prepare and precompile call get_or_compile with the template itself, and
   tokenize_and_cache with its tokenized form.                              *)
Call(t, template, through) ==
    /\ pc[t] = "idle" /\ calls < MaxCalls
    /\ calls' = calls + 1
    /\ alias' = [alias EXCEPT ![t] = template]
    /\ outer' = [outer EXCEPT ![t] = through]
    /\ requested' = [requested EXCEPT ![t] = IF through THEN Tokenized[template] ELSE template]
    /\ held' = [held EXCEPT ![t] = NoEntry]
    /\ pc' = [pc EXCEPT ![t] = "find"]
    /\ UNCHANGED <<entries, compilation_count, published, evicted>>

(* Where a thread goes with an entry: back, or to the alias of the caller.  *)
Leave(t) ==
    pc' = [pc EXCEPT ![t] =
             IF outer[t] /\ cache_key[alias[t]] # cache_key[requested[t]] THEN "outer_alias" ELSE "idle"]

(* find(original_key)                                                       *)
Find(t) ==
    /\ pc[t] = "find"
    /\ IF original_key(t) \in DOMAIN entries
          THEN Leave(t) /\ held' = [held EXCEPT ![t] = entries[original_key(t)]]
          ELSE pc' = [pc EXCEPT ![t] = "find_tokenized"] /\ UNCHANGED held
    /\ UNCHANGED <<entries, compilation_count, published, evicted, call, calls>>

(* find(tokenized_key)                                                      *)
FindTokenized(t) ==
    /\ pc[t] = "find_tokenized"
    /\ IF tokenized_key(t) \in DOMAIN entries
          THEN /\ pc' = [pc EXCEPT ![t] = "alias"]
               /\ held' = [held EXCEPT ![t] = entries[tokenized_key(t)]]
          ELSE pc' = [pc EXCEPT ![t] = "publish"] /\ UNCHANGED held
    /\ UNCHANGED <<entries, compilation_count, published, evicted, call, calls>>

(* insert_alias(original_key, cached)                                       *)
InsertAlias(t) ==
    /\ pc[t] = "alias"
    /\ entries' \in Inserted(entries, original_key(t), held[t])
    /\ NoteEviction({original_key(t)})
    /\ Leave(t)
    /\ UNCHANGED <<compilation_count, published, call, held, calls>>

(* tokenize or compile throws: nothing was changed.                         *)
CompileThrows(t) ==
    /\ pc[t] \in {"find_tokenized", "publish"}
    /\ pc' = [pc EXCEPT ![t] = "idle"]
    /\ held' = [held EXCEPT ![t] = NoEntry]
    /\ UNCHANGED <<entries, compilation_count, published, evicted, call, calls>>

(* Mutant: the template is compiled as it came, not in its tokenized form.  *)
CompiledRaw(t) == [blueprint |-> requested[t], id |-> Cardinality(published) + 1]

(* The object that thread t has just compiled.                              *)
Compiled(t) == [blueprint |-> Tokenized[requested[t]], id |-> Cardinality(published) + 1]

(* Mutant: the entry is published without looking whether another one is there. *)
PublishAnyway(t) ==
    /\ pc[t] = "publish"
    /\ held' = [held EXCEPT ![t] = Compiled(t)]
    /\ published' = published \cup {Compiled(t)}
    /\ pc' = [pc EXCEPT ![t] = "count"]
    /\ \E m \in Inserted(entries, tokenized_key(t), Compiled(t)) :
          IF original_key(t) = tokenized_key(t)
             THEN entries' = m
             ELSE entries' \in Inserted(m, original_key(t), Compiled(t))
    /\ NoteEviction({original_key(t), tokenized_key(t)})
    /\ UNCHANGED <<compilation_count, call, calls>>

(* The critical section after the compilation: another thread's entry is
   reused, or the new one is published under both keys.                     *)
Publish(t) ==
    /\ pc[t] = "publish"
    /\ IF tokenized_key(t) \in DOMAIN entries
          THEN /\ held' = [held EXCEPT ![t] = entries[tokenized_key(t)]]
               /\ entries' = Assign(entries, original_key(t), entries[tokenized_key(t)])
               /\ Leave(t) /\ UNCHANGED published
          ELSE /\ held' = [held EXCEPT ![t] = Compiled(t)]
               /\ published' = published \cup {Compiled(t)}
               /\ pc' = [pc EXCEPT ![t] = "count"]
               /\ \E m \in Inserted(entries, tokenized_key(t), Compiled(t)) :
                     IF original_key(t) = tokenized_key(t)
                        THEN entries' = m
                        ELSE entries' \in Inserted(m, original_key(t), Compiled(t))
    /\ NoteEviction({original_key(t), tokenized_key(t)})
    /\ UNCHANGED <<compilation_count, call, calls>>

(* compilation_count_.fetch_add(1), after the mutex.                        *)
Count(t) ==
    /\ pc[t] = "count"
    /\ compilation_count' = compilation_count + 1
    /\ Leave(t)
    /\ UNCHANGED <<entries, published, evicted, call, held, calls>>

(* insert_alias at the end of tokenize_and_cache.                           *)
OuterAlias(t) ==
    /\ pc[t] = "outer_alias"
    /\ entries' \in Inserted(entries, cache_key[alias[t]], held[t])
    /\ NoteEviction({cache_key[alias[t]]})
    /\ pc' = [pc EXCEPT ![t] = "idle"]
    /\ UNCHANGED <<compilation_count, published, call, held, calls>>

-----------------------------------------------------------------------------
Step(t) ==
    \/ \E template \in CacheTemplates, through \in BOOLEAN : Call(t, template, through)
    \/ Find(t) \/ FindTokenized(t) \/ InsertAlias(t) \/ CompileThrows(t)
    \/ Publish(t) \/ Count(t) \/ OuterAlias(t)

CacheNext == \E t \in Threads : Step(t)

CacheSpec == CacheInit /\ [][CacheNext]_cacheVars

-----------------------------------------------------------------------------
(* The keys a template is looked up by, and the templates that have its keys
   to themselves: whoever else is looked up by one has the same tokenized form. *)
KeysOf(x) == {cache_key[x], cache_key[Tokenized[x]]}
Sole == {x \in CacheTemplates : \A y \in CacheTemplates :
           KeysOf(x) \cap KeysOf(y) # {} => Tokenized[y] = Tokenized[x]}

(* Sets of keys that no tokenizing leads out of or into.                    *)
Families == {S \in SUBSET TemplateKeys :
               \A x \in CacheTemplates : cache_key[x] \in S <=> cache_key[Tokenized[x]] \in S}

Akin(key, entry) == \A S \in Families : key \in S <=> cache_key[entry.blueprint] \in S

(* An answer that a template may get.                                       *)
Meant(x, entry) ==
    /\ Akin(cache_key[x], entry)
    /\ x \in Sole => entry.blueprint = Tokenized[x]

(* However eviction and the threads interleave, a template that shares its
   keys with no other one finds, and gets, the form compiled from its own
   tokenized text (get_or_compile, tokenize_and_cache).  Where keys collide or
   tokenizing goes on, the answer still is one of the same family: templates
   that have a key in common or become one another by tokenizing.           *)
AnswersMatch ==
    /\ \A k \in DOMAIN entries : entries[k] \in published
    /\ \A x \in CacheTemplates :
          cache_key[x] \in DOMAIN entries => Meant(x, entries[cache_key[x]])
    /\ \A t \in Threads : held[t] # NoEntry => Meant(requested[t], held[t])

(* As long as nothing had to go, one object is published for each key of a
   blueprint, and every caller has such an object (log_preparation_cache.cpp:62-64:
   only the first completed compiler publishes, concurrent callers reuse its
   object).                                                                 *)
PublishedOnce ==
    ~evicted =>
        /\ \A o, q \in published :
              cache_key[o.blueprint] = cache_key[q.blueprint] => o = q
        /\ \A t \in Threads : held[t] # NoEntry => held[t] \in published

=============================================================================
