------------------------- MODULE FileTransportProofs -------------------------
(***************************************************************************)
(* FileTransport for any number of processes, clocks, limits and payloads.  *)
(* The inductive invariant adds to the properties themselves that the rest  *)
(* of an admitted payload still fits the limits (LoadInv), and that no file *)
(* belongs to a connection yet to come (RunInv).                            *)
(***************************************************************************)
EXTENDS FileTransport, FiniteSetTheorems, WellFoundedInduction, TLAPS

(* What is left of a payload fits below the limits it was admitted under.   *)
LoadInv ==
    \A p \in Procs : pc[p] # "idle" =>
        /\ left_logs[p] >= 1 /\ left_logs[p] <= left_bytes[p]
        /\ max_file_count[p] > 0 => file_count[p] + left_logs[p] <= max_file_count[p]
        /\ max_total_bytes[p] > 0 => total_size[p] + left_bytes[p] <= max_total_bytes[p]

(* The directory is finite, and a file was made by a connection of the past.  *)
RunInv ==
    /\ IsFiniteSet(files)
    /\ \A f \in files : f.run <= connects[f.by]

IInv ==
    /\ TypeOK /\ NamesUnique /\ PartialsExplained /\ LoadInv /\ LimitsHold
    /\ RunInv /\ CountsMatchFiles

-----------------------------------------------------------------------------
(* Sums of sizes over finite sets of files.  A recursive function is a CHOOSE:
   that one exists is shown by induction on the size of the sets it is applied
   to, and that the order does not matter by induction on the sets.         *)

(* A set of natural numbers that is not empty has a least element.          *)
LEMMA Least ==
    ASSUME NEW T \in SUBSET Nat, T # {}
    PROVE  \E m \in T : \A k \in T : ~(k < m)
<1>1. PICK m \in T : \A k \in T : ~(<<k, m>> \in OpToRel(<, Nat))
    BY NatLessThanWellFounded, WFMin
<1>2. \A k \in T : ~(k < m)
    BY <1>1 DEF OpToRel
<1> QED BY <1>2

(* What holds of 0 and of each successor holds of every natural number.     *)
LEMMA Induction ==
    ASSUME NEW T, 0 \in T, \A n \in Nat : n \in T => n + 1 \in T
    PROVE  Nat \subseteq T
<1> SUFFICES ASSUME Nat \ T # {} PROVE FALSE
    OBVIOUS
<1>1. PICK m \in Nat \ T : \A k \in Nat \ T : ~(k < m)
    BY Least
<1>2. m # 0 /\ m - 1 \in Nat
    OBVIOUS
<1>3. m - 1 \in T
    BY <1>1, <1>2
<1> QED BY <1>2, <1>3

(* What a finite set inherits from its proper subsets holds of all subsets.  *)
LEMMA SetInduction ==
    ASSUME NEW S, IsFiniteSet(S), NEW C,
           \A s \in SUBSET S : (\A r \in SUBSET s : r # s => r \in C) => s \in C
    PROVE  SUBSET S \subseteq C
<1> DEFINE Sizes == {Cardinality(s) : s \in (SUBSET S) \ C}
<1> SUFFICES ASSUME (SUBSET S) \ C # {} PROVE FALSE
    OBVIOUS
<1>1. Sizes \in SUBSET Nat /\ Sizes # {}
    BY FS_Subset, FS_CardinalityType
<1>2. PICK m \in Sizes : \A k \in Sizes : ~(k < m)
    <2> HIDE DEF Sizes
    <2> QED BY <1>1, Least
<1>3. PICK s \in (SUBSET S) \ C : m = Cardinality(s)
    BY <1>2
<1>4. PICK r \in SUBSET s : r # s /\ r \notin C
    OBVIOUS
<1>5. Cardinality(r) <= m /\ Cardinality(r) # m /\ Cardinality(r) \in Nat /\ m \in Nat
    BY <1>3, <1>4, FS_Subset, FS_CardinalityType
<1>6. Cardinality(r) \in Sizes
    BY <1>4
<1> HIDE DEF Sizes
<1> QED BY <1>2, <1>5, <1>6

Chosen(s) == CHOOSE x \in s : TRUE

(* The sums over the subsets of S, as MapThenSumSet defines them.           *)
SumBody(g, s) == IF s = {} THEN 0 ELSE Chosen(s).size + g[s \ {Chosen(s)}]
Sums(S) == CHOOSE g : g = [s \in SUBSET S |-> SumBody(g, s)]

(* The bytes of S are the sum over the whole of S.                          *)
LEMMA BytesIs ==
    ASSUME NEW S
    PROVE  Bytes(S) = Sums(S)[S]
BY DEF Bytes, MapThenSumSet, MapThenFoldSet, Sums, SumBody, Chosen

(* A set without its chosen file is smaller by one.                         *)
LEMMA SmallerSet ==
    ASSUME NEW S, IsFiniteSet(S), NEW s \in SUBSET S, s # {}
    PROVE  /\ Chosen(s) \in s /\ s \ {Chosen(s)} \in SUBSET S
           /\ Cardinality(s) \in Nat /\ Cardinality(s) <= Cardinality(S)
           /\ Cardinality(s \ {Chosen(s)}) = Cardinality(s) - 1
           /\ Cardinality(s \ {Chosen(s)}) \in Nat
<1>1. Chosen(s) \in s
    BY DEF Chosen
<1>2. IsFiniteSet(s) /\ Cardinality(s) <= Cardinality(S)
    BY FS_Subset
<1> QED
    BY <1>1, <1>2, FS_RemoveElement, FS_CardinalityType

(* These sums exist.                                                        *)
LEMMA SumsDefined ==
    ASSUME NEW S, IsFiniteSet(S)
    PROVE  \A s \in SUBSET S : Sums(S)[s] = SumBody(Sums(S), s)
<1> DEFINE Good(g, n) == \A s \in SUBSET S : Cardinality(s) <= n => g[s] = SumBody(g, s)
           Maps == {n \in Nat : \E g : Good(g, n)}
<1>0. Cardinality(S) \in Nat
    BY FS_CardinalityType
<1>1. 0 \in Maps
    <2> DEFINE g == [s \in SUBSET S |-> 0]
    <2>1. ASSUME NEW s \in SUBSET S, Cardinality(s) <= 0, s # {}
          PROVE  FALSE
        <3> DEFINE r == s \ {Chosen(s)}
        <3>1. /\ Cardinality(s) \in Nat /\ Cardinality(r) \in Nat
              /\ Cardinality(r) = Cardinality(s) - 1
            BY <2>1, SmallerSet
        <3> QED BY <2>1, <3>1
    <2>2. Good(g, 0)
        BY <2>1 DEF SumBody
    <2> QED BY <2>2
<1>2. ASSUME NEW n \in Nat, n \in Maps
      PROVE  n + 1 \in Maps
    <2>1. PICK g : Good(g, n)
        BY <1>2
    <2> DEFINE h == [s \in SUBSET S |-> SumBody(g, s)]
    <2>2. ASSUME NEW s \in SUBSET S, Cardinality(s) <= n + 1
          PROVE  h[s] = SumBody(h, s)
        <3>1. CASE s = {}
            BY <3>1 DEF SumBody
        <3>2. CASE s # {}
            <4> DEFINE r == s \ {Chosen(s)}
            <4>1. r \in SUBSET S /\ Cardinality(r) <= n
                BY <2>2, <3>2, SmallerSet
            <4>2. h[r] = g[r]
                BY <2>1, <4>1
            <4> QED BY <3>2, <4>2 DEF SumBody
        <3> QED BY <3>1, <3>2
    <2>3. Good(h, n + 1)
        BY <2>2
    <2> HIDE DEF Good
    <2> QED BY <2>3
<1>3. Cardinality(S) \in Maps
    BY <1>0, <1>1, <1>2, Induction
<1>4. PICK g : Good(g, Cardinality(S))
    BY <1>3
<1> DEFINE h == [s \in SUBSET S |-> g[s]]
<1>5. h = [s \in SUBSET S |-> SumBody(h, s)]
    <2>1. ASSUME NEW s \in SUBSET S
          PROVE  h[s] = SumBody(h, s)
        <3>0. g[s] = SumBody(g, s)
            BY <1>4, FS_Subset
        <3>1. CASE s = {}
            BY <3>0, <3>1 DEF SumBody
        <3>2. CASE s # {}
            BY <3>0, <3>2, SmallerSet DEF SumBody
        <3> QED BY <3>1, <3>2
    <2> QED BY <2>1
<1> HIDE DEF h
<1>6. Sums(S) = [s \in SUBSET S |-> SumBody(Sums(S), s)]
    BY <1>5 DEF Sums
<1> QED BY <1>6

(* They do not depend on the set that the subsets are taken of.             *)
LEMMA SumsAgree ==
    ASSUME NEW S, IsFiniteSet(S), NEW T \in SUBSET S
    PROVE  Sums(S)[T] = Bytes(T)
<1> DEFINE C == {s \in SUBSET T : Sums(S)[s] = Sums(T)[s]}
<1>0. IsFiniteSet(T)
    BY FS_Subset
<1>1. ASSUME NEW s \in SUBSET T, \A r \in SUBSET s : r # s => r \in C
      PROVE  s \in C
    <2>1. Sums(S)[s] = SumBody(Sums(S), s) /\ Sums(T)[s] = SumBody(Sums(T), s)
        BY <1>0, SumsDefined
    <2>2. s # {} => Chosen(s) \in s
        BY DEF Chosen
    <2> QED BY <1>1, <2>1, <2>2 DEF SumBody
<1>2. SUBSET T \subseteq C
    <2> HIDE DEF C
    <2> QED BY <1>0, <1>1, SetInduction
<1> QED BY <1>2, BytesIs

(* One file taken away takes its size away.                                 *)
SumsLess(S, s, y) == Sums(S)[s] = Sums(S)[s \ {y}] + y.size

(* The order of the summation does not matter.                              *)
LEMMA SumsRemove ==
    ASSUME NEW S, IsFiniteSet(S), \A x \in S : x.size \in Nat
    PROVE  \A s \in SUBSET S : /\ Sums(S)[s] \in Nat
                               /\ \A y \in s : SumsLess(S, s, y)
<1> DEFINE C == {s \in SUBSET S : /\ Sums(S)[s] \in Nat
                                  /\ \A y \in s : SumsLess(S, s, y)}
<1>1. ASSUME NEW s \in SUBSET S, \A r \in SUBSET s : r # s => r \in C
      PROVE  s \in C
    <2> DEFINE c == Chosen(s)
    <2>0. \A r \in SUBSET S : Sums(S)[r] = SumBody(Sums(S), r)
        BY SumsDefined
    <2>1. CASE s = {}
        <3>1. Sums(S)[s] = 0
            BY <2>0, <2>1 DEF SumBody
        <3> QED BY <2>1, <3>1
    <2>2. CASE s # {}
        <3>1. c \in s /\ c.size \in Nat
            BY <2>2 DEF Chosen
        <3>2. Sums(S)[s] = c.size + Sums(S)[s \ {c}]
            BY <2>0, <2>2 DEF SumBody
        <3>3. s \ {c} \in C
            BY <1>1, <3>1
        <3>4. Sums(S)[s \ {c}] \in Nat
            BY <3>3
        <3>5. ASSUME NEW y \in s, y # c
              PROVE  SumsLess(S, s, y)
            <4>1. s \ {y} \in C /\ c \in s \ {y} /\ y \in s \ {c}
                BY <1>1, <3>1, <3>5
            <4> DEFINE rest == (s \ {y}) \ {c}
            <4>2. rest = (s \ {c}) \ {y} /\ rest \in C /\ y.size \in Nat
                BY <1>1, <3>1, <3>5
            <4>3. Sums(S)[rest] \in Nat
                BY <4>2
            <4>4. Sums(S)[s \ {y}] = Sums(S)[rest] + c.size
                BY <4>1 DEF SumsLess
            <4>5. Sums(S)[s \ {c}] = Sums(S)[rest] + y.size
                BY <3>3, <4>1, <4>2 DEF SumsLess
            <4> HIDE DEF c, C, rest
            <4>6. c.size + Sums(S)[s \ {c}] = Sums(S)[s \ {y}] + y.size
                BY <3>1, <4>2, <4>3, <4>4, <4>5
            <4> QED BY <3>2, <4>6 DEF SumsLess
        <3>6. SumsLess(S, s, c) /\ Sums(S)[s] \in Nat
            BY <3>1, <3>2, <3>4 DEF SumsLess
        <3> QED BY <3>5, <3>6
    <2> QED BY <2>1, <2>2
<1>2. SUBSET S \subseteq C
    <2> HIDE DEF C
    <2> QED BY <1>1, SetInduction
<1> QED BY <1>2

(* The empty set has no bytes, and a new file adds its own.                 *)
LEMMA BytesEmpty == Bytes({}) = 0
<1>1. Sums({})[{}] = SumBody(Sums({}), {})
    BY SumsDefined, FS_EmptySet
<1> QED BY <1>1, BytesIs DEF SumBody

LEMMA BytesAdd ==
    ASSUME NEW S, IsFiniteSet(S), NEW x, x \notin S, \A y \in S \cup {x} : y.size \in Nat
    PROVE  Bytes(S \cup {x}) = Bytes(S) + x.size
<1> DEFINE U == S \cup {x}
<1>1. IsFiniteSet(U) /\ S \in SUBSET U /\ U \ {x} = S
    BY FS_AddElement
<1>2. SumsLess(U, U, x)
    BY <1>1, SumsRemove
<1>3. Sums(U)[S] = Bytes(S)
    BY <1>1, SumsAgree
<1>4. Sums(U)[U] = Bytes(U)
    BY BytesIs
<1> QED BY <1>1, <1>2, <1>3, <1>4 DEF SumsLess

-----------------------------------------------------------------------------
(* A file made from a process and an index is a directory entry.            *)
LEMMA FileAtType ==
    ASSUME TypeOK, NEW p \in Procs, NEW i \in Nat
    PROVE  FileAt(p, i) \in Files
BY DEF TypeOK, FileAt, Files

(* An open file is in the directory, an entry of it and not whole.          *)
LEMMA OpenedType ==
    ASSUME TypeOK, NamesUnique, NEW p \in Procs, pc[p] \in {"write", "cleanup"}
    PROVE  Opened(p) \in files /\ Opened(p) \in Files /\ ~Opened(p).whole /\ Opened(p).by = p
BY DEF TypeOK, NamesUnique, Opened, FileAt

(* Every operation of a process preserves the types.                        *)
LEMMA TypeStep ==
    ASSUME TypeOK, NamesUnique, LoadInv, NEW p \in Procs, Step(p)
    PROVE  TypeOK'
<1>0. /\ ByteLimits[p] \subseteq Nat /\ CountLimits[p] \subseteq Nat
      /\ Timed[p] \subseteq BOOLEAN /\ MaxLogs[p] \in Nat /\ MaxBytes[p] \in Nat
    BY FileTransportAssumption
<1>1. CASE ConnectFails(p)
    BY <1>1 DEF ConnectFails, TypeOK, Places, Results, conn, counts, payload, bounds
<1>2. ASSUME NEW stamp \in Stamps, NEW bytes \in ByteLimits[p], NEW count \in CountLimits[p],
             NEW limited \in Timed[p], Connect(p, stamp, bytes, count, limited)
      PROVE  TypeOK'
    BY <1>0, <1>2 DEF Connect, TypeOK, Places, Results, conn, counts, payload, bounds
<1>3. CASE TimePasses(p)
    BY <1>3 DEF TimePasses, TypeOK, Places, Results, conn, counts, payload, bounds
<1>4. ASSUME NEW logs \in 0..MaxLogs[p], NEW bytes \in 0..MaxBytes[p], Send(p, logs, bytes)
      PROVE  TypeOK'
    <2>1. Answer(p, logs, bytes) \in Results
        BY DEF Answer, Results
    <2> QED BY <1>0, <1>4, <2>1 DEF Send, TypeOK, Places, conn, counts, payload, bounds
<1>5. CASE CreateFile(p)
    <2>1. FileAt(p, next_file_index[p]) \in Files
        BY FileAtType DEF TypeOK
    <2>2. files' \subseteq Files
        BY <1>5, <2>1 DEF CreateFile, TypeOK
    <2> QED BY <1>5, <2>2 DEF CreateFile, TypeOK, Places, conn, counts, payload, bounds
<1>6. CASE CreateFails(p)
    BY <1>6 DEF CreateFails, Throw, TypeOK, Places, Results, conn, counts, payload, bounds
<1>7. ASSUME NEW size \in 1..MaxBytes[p], WriteFile(p, size)
      PROVE  TypeOK'
    <2>1. Opened(p) \in Files
        BY <1>7, OpenedType DEF WriteFile
    <2>2. [Opened(p) EXCEPT !.size = size, !.whole = TRUE] \in Files
        <3>1. size \in Nat
            BY <1>0
        <3> QED BY <2>1, <3>1, Zenon DEF Files
    <2>3. files' \subseteq Files
        BY <1>7, <2>2 DEF WriteFile, TypeOK
    <2>4. left_logs[p] - 1 \in Nat /\ left_bytes[p] - size \in Nat
        BY <1>7 DEF WriteFile, TypeOK, LoadInv
    <2>5. size \in Nat
        BY <1>0
    <2> QED BY <1>7, <2>3, <2>4, <2>5 DEF WriteFile, TypeOK, Places, Results, conn, counts, payload, bounds
<1>8. CASE WriteFails(p)
    BY <1>8 DEF WriteFails, TypeOK, Places, Results, conn, counts, payload, bounds
<1>9. CASE Cleanup(p)
    <2>1. Opened(p) \in Files
        BY <1>9, OpenedType DEF Cleanup
    <2>2. files' \subseteq Files /\ left_behind' \subseteq Files
        BY <1>9, <2>1 DEF Cleanup, TypeOK
    <2> QED BY <1>9, <2>2 DEF Cleanup, Throw, TypeOK, Places, Results, conn, counts, payload, bounds
<1>10. CASE Crash(p)
    <2>1. left_behind' \subseteq Files
        BY <1>10, OpenedType DEF Crash, TypeOK
    <2> QED BY <1>10, <2>1 DEF Crash, TypeOK, Places, Results, conn, counts, payload, bounds
<1> QED BY <1>1, <1>2, <1>3, <1>4, <1>5, <1>6, <1>7, <1>8, <1>9, <1>10 DEF Step, SendStep

(* Every operation of a process leaves the limits and the load in order: a
   payload is admitted as a whole, and every file takes its part of it.     *)
LEMMA LimitsStep ==
    ASSUME TypeOK, LoadInv, LimitsHold, NEW p \in Procs, Step(p)
    PROVE  LoadInv' /\ LimitsHold'
<1> USE FileTransportAssumption
<1>1. CASE ConnectFails(p)
    BY <1>1 DEF ConnectFails, TypeOK, LoadInv, LimitsHold, conn, counts, payload, bounds
<1>2. ASSUME NEW stamp \in Stamps, NEW bytes \in ByteLimits[p], NEW count \in CountLimits[p],
             NEW limited \in Timed[p], Connect(p, stamp, bytes, count, limited)
      PROVE  LoadInv' /\ LimitsHold'
    BY <1>2 DEF Connect, TypeOK, LoadInv, LimitsHold, conn, counts, payload, bounds
<1>3. CASE TimePasses(p)
    BY <1>3 DEF TimePasses, TypeOK, LoadInv, LimitsHold, conn, counts, payload, bounds
<1>4. ASSUME NEW logs \in 0..MaxLogs[p], NEW bytes \in 0..MaxBytes[p], Send(p, logs, bytes)
      PROVE  LoadInv' /\ LimitsHold'
    BY <1>4 DEF Send, Answer, BytesLimited, CountLimited, TypeOK, LoadInv, LimitsHold, conn, counts, payload, bounds
<1>5. CASE CreateFile(p)
    BY <1>5 DEF CreateFile, TypeOK, LoadInv, LimitsHold, conn, counts, payload, bounds
<1>6. CASE CreateFails(p)
    BY <1>6 DEF CreateFails, Throw, TypeOK, LoadInv, LimitsHold, conn, counts, payload, bounds
<1>7. ASSUME NEW size \in 1..MaxBytes[p], WriteFile(p, size)
      PROVE  LoadInv' /\ LimitsHold'
    BY <1>7 DEF WriteFile, TypeOK, LoadInv, LimitsHold, conn, counts, payload, bounds
<1>8. CASE WriteFails(p)
    BY <1>8 DEF WriteFails, TypeOK, LoadInv, LimitsHold, conn, counts, payload, bounds
<1>9. CASE Cleanup(p)
    BY <1>9 DEF Cleanup, Throw, TypeOK, LoadInv, LimitsHold, conn, counts, payload, bounds
<1>10. CASE Crash(p)
    BY <1>10 DEF Crash, TypeOK, LoadInv, LimitsHold, conn, counts, payload, bounds
<1> QED BY <1>1, <1>2, <1>3, <1>4, <1>5, <1>6, <1>7, <1>8, <1>9, <1>10 DEF Step, SendStep

(* The operations that neither touch the directory nor an open file.        *)
LEMMA Untouched ==
    ASSUME TypeOK, NamesUnique, PartialsExplained, NEW p \in Procs,
           files' = files, left_behind' = left_behind,
           \A q \in Procs : pc'[q] \in {"write", "cleanup"} <=> pc[q] \in {"write", "cleanup"},
           \A q \in Procs : pc[q] \in {"write", "cleanup"} =>
              /\ timestamp'[q] = timestamp[q] /\ connects'[q] = connects[q]
              /\ next_file_index'[q] = next_file_index[q]
    PROVE  NamesUnique' /\ PartialsExplained'
<1>1. \A q \in Procs : pc[q] \in {"write", "cleanup"} => Opened(q)' = Opened(q)
    BY DEF Opened, FileAt
<1>2. NamesUnique'
    BY <1>1 DEF NamesUnique
<1>3. ASSUME NEW f \in files', ~f.whole
      PROVE  \/ f \in left_behind'
             \/ pc'[f.by] \in {"write", "cleanup"} /\ f = Opened(f.by)'
    <2>1. f.by \in Procs
        BY <1>3 DEF TypeOK, Files
    <2> QED BY <1>1, <1>3, <2>1 DEF PartialsExplained
<1> QED BY <1>2, <1>3 DEF PartialsExplained

(* No operation of a process makes a second entry of a name, takes an open file
   away, or leaves a partial file that is not accounted for.                *)
LEMMA FilesStep ==
    ASSUME TypeOK, NamesUnique, PartialsExplained, NEW p \in Procs, Step(p)
    PROVE  NamesUnique' /\ PartialsExplained'
<1>1. CASE ConnectFails(p)
    BY <1>1, Untouched DEF ConnectFails, TypeOK, conn, counts, payload, bounds
<1>2. ASSUME NEW stamp \in Stamps, NEW bytes \in ByteLimits[p], NEW count \in CountLimits[p],
             NEW limited \in Timed[p], Connect(p, stamp, bytes, count, limited)
      PROVE  NamesUnique' /\ PartialsExplained'
    BY <1>2, Untouched DEF Connect, TypeOK, conn, counts, payload, bounds
<1>3. CASE TimePasses(p)
    BY <1>3, Untouched DEF TimePasses, TypeOK, conn, counts, payload, bounds
<1>4. ASSUME NEW logs \in 0..MaxLogs[p], NEW bytes \in 0..MaxBytes[p], Send(p, logs, bytes)
      PROVE  NamesUnique' /\ PartialsExplained'
    BY <1>4, Untouched DEF Send, TypeOK, conn, counts, payload, bounds
<1>5. CASE CreateFile(p)
    <2>1. CASE Taken(timestamp[p], next_file_index[p])
        BY <1>5, <2>1, Untouched DEF CreateFile, TypeOK, conn, counts, payload, bounds
    <2>2. CASE ~Taken(timestamp[p], next_file_index[p])
        <3> DEFINE new == FileAt(p, next_file_index[p])
        <3>1. files' = files \cup {new} /\ pc'[p] = "write" /\ left_behind' = left_behind
            BY <1>5, <2>2 DEF CreateFile, TypeOK
        <3>2. Opened(p)' = new /\ new.by = p /\ new.stamp = timestamp[p] /\ new.index = next_file_index[p]
            <4>1. /\ next_file_index'[p] = next_file_index[p] + 1
                  /\ next_file_index[p] \in Nat
                  /\ timestamp' = timestamp /\ connects' = connects
                BY <1>5 DEF CreateFile, TypeOK, conn, bounds
            <4>2. next_file_index'[p] - 1 = next_file_index[p]
                BY <4>1
            <4> QED BY <4>1, <4>2 DEF Opened, FileAt
        <3>3. \A q \in Procs : q # p => Opened(q)' = Opened(q) /\ pc'[q] = pc[q]
            BY <1>5, <2>2 DEF CreateFile, Opened, FileAt, TypeOK, conn, bounds
        <3>4. NamesUnique'
            BY <2>2, <3>1, <3>2, <3>3 DEF NamesUnique, Taken
        <3>5. ASSUME NEW f \in files', ~f.whole
              PROVE  \/ f \in left_behind'
                     \/ pc'[f.by] \in {"write", "cleanup"} /\ f = Opened(f.by)'
            <4>1. CASE f = new
                BY <3>1, <3>2, <4>1
            <4>2. CASE f \in files
                <5>1. f.by \in Procs
                    BY <4>2 DEF TypeOK, Files
                <5>2. pc[p] = "create"
                    BY <1>5 DEF CreateFile
                <5> QED BY <3>1, <3>3, <3>5, <4>2, <5>1, <5>2 DEF PartialsExplained
            <4> QED BY <3>1, <4>1, <4>2
        <3> QED BY <3>4, <3>5 DEF PartialsExplained
    <2> QED BY <2>1, <2>2
<1>6. CASE CreateFails(p)
    BY <1>6, Untouched DEF CreateFails, Throw, TypeOK, conn, counts, payload, bounds
<1>7. ASSUME NEW size \in 1..MaxBytes[p], WriteFile(p, size)
      PROVE  NamesUnique' /\ PartialsExplained'
    <2> DEFINE new == [Opened(p) EXCEPT !.size = size, !.whole = TRUE]
    <2>1. Opened(p) \in files /\ Opened(p) \in Files /\ Opened(p).by = p
        BY <1>7, OpenedType DEF WriteFile
    <2>2. files' = (files \ {Opened(p)}) \cup {new} /\ left_behind' = left_behind
        BY <1>7 DEF WriteFile
    <2>3. pc'[p] \in {"idle", "create"}
        BY <1>7 DEF WriteFile, TypeOK
    <2>4. \A q \in Procs : Opened(q)' = Opened(q)
        BY <1>7 DEF WriteFile, Opened, FileAt, conn, bounds
    <2>5. \A q \in Procs : q # p => pc'[q] = pc[q]
        BY <1>7 DEF WriteFile, TypeOK
    <2>6. /\ new.stamp = Opened(p).stamp /\ new.index = Opened(p).index
          /\ new.by = p /\ new.whole
        BY <2>1 DEF Files
    <2>7. \A q \in Procs : q # p => Opened(q) # Opened(p)
        BY DEF Opened, FileAt
    <2>8. NamesUnique'
        <3>1. ASSUME NEW f \in files', NEW g \in files', f.stamp = g.stamp, f.index = g.index
              PROVE  f = g
            <4>1. \A h \in files :
                     h.stamp = new.stamp /\ h.index = new.index => h = Opened(p)
                BY <2>1, <2>6 DEF NamesUnique
            <4>2. \A h, k \in files : h.stamp = k.stamp /\ h.index = k.index => h = k
                BY DEF NamesUnique
            <4> HIDE DEF new
            <4> QED BY <2>2, <3>1, <4>1, <4>2
        <3>2. ASSUME NEW q \in Procs, pc'[q] \in {"write", "cleanup"}
              PROVE  Opened(q)' \in files'
            BY <2>2, <2>3, <2>4, <2>5, <2>7, <3>2 DEF NamesUnique
        <3> QED BY <3>1, <3>2 DEF NamesUnique
    <2>9. ASSUME NEW f \in files', ~f.whole
          PROVE  \/ f \in left_behind'
                 \/ pc'[f.by] \in {"write", "cleanup"} /\ f = Opened(f.by)'
        <3>1. f \in files /\ f # Opened(p)
            BY <2>2, <2>6, <2>9
        <3>2. f.by \in Procs
            BY <3>1 DEF TypeOK, Files
        <3> QED BY <2>2, <2>4, <2>5, <2>9, <3>1, <3>2 DEF PartialsExplained
    <2> QED BY <2>8, <2>9 DEF PartialsExplained
<1>8. CASE WriteFails(p)
    BY <1>8, Untouched DEF WriteFails, TypeOK, conn, counts, payload, bounds
<1>9. CASE Cleanup(p)
    <2>1. Opened(p) \in files /\ Opened(p).by = p
        BY <1>9, OpenedType DEF Cleanup
    <2>2. \/ files' = files \ {Opened(p)} /\ left_behind' = left_behind
          \/ files' = files /\ left_behind' = left_behind \cup {Opened(p)}
        BY <1>9 DEF Cleanup
    <2>3. pc'[p] = "idle" /\ \A q \in Procs : q # p => pc'[q] = pc[q]
        BY <1>9 DEF Cleanup, Throw, TypeOK
    <2>4. \A q \in Procs : Opened(q)' = Opened(q)
        BY <1>9 DEF Cleanup, Opened, FileAt, conn, bounds
    <2>5. \A q \in Procs : q # p => Opened(q) # Opened(p)
        BY DEF Opened, FileAt
    <2>6. NamesUnique'
        BY <2>1, <2>2, <2>3, <2>4, <2>5 DEF NamesUnique
    <2>7. ASSUME NEW f \in files', ~f.whole
          PROVE  \/ f \in left_behind'
                 \/ pc'[f.by] \in {"write", "cleanup"} /\ f = Opened(f.by)'
        <3>1. f \in files /\ f.by \in Procs
            BY <2>2, <2>7 DEF TypeOK, Files
        <3> QED BY <2>2, <2>3, <2>4, <2>7, <3>1 DEF PartialsExplained
    <2> QED BY <2>6, <2>7 DEF PartialsExplained
<1>10. CASE Crash(p)
    <2>1. files' = files /\ left_behind \subseteq left_behind'
        BY <1>10 DEF Crash
    <2>2. pc[p] \in {"write", "cleanup"} => Opened(p) \in left_behind'
        BY <1>10 DEF Crash
    <2>3. pc'[p] = "idle" /\ \A q \in Procs : q # p => pc'[q] = pc[q]
        BY <1>10 DEF Crash, TypeOK
    <2>4. \A q \in Procs : q # p => Opened(q)' = Opened(q)
        BY <1>10 DEF Crash, Opened, FileAt, bounds, TypeOK
    <2>5. NamesUnique'
        BY <2>1, <2>3, <2>4 DEF NamesUnique
    <2>6. ASSUME NEW f \in files', ~f.whole
          PROVE  \/ f \in left_behind'
                 \/ pc'[f.by] \in {"write", "cleanup"} /\ f = Opened(f.by)'
        <3>1. f \in files /\ f.by \in Procs
            BY <2>1, <2>6 DEF TypeOK, Files
        <3> QED BY <2>1, <2>2, <2>3, <2>4, <2>6, <3>1 DEF PartialsExplained
    <2> QED BY <2>5, <2>6 DEF PartialsExplained
<1> QED BY <1>1, <1>2, <1>3, <1>4, <1>5, <1>6, <1>7, <1>8, <1>9, <1>10 DEF Step, SendStep

(* The operations that leave the directory, the connections and the counters of
   the connected processes alone.                                           *)
LEMMA CountsUntouched ==
    ASSUME RunInv, CountsMatchFiles, files' = files, connects' = connects,
           \A q \in Procs : connected'[q] =>
              connected[q] /\ file_count'[q] = file_count[q] /\ total_size'[q] = total_size[q]
    PROVE  RunInv' /\ CountsMatchFiles'
<1>1. \A q : Finished(q)' = Finished(q)
    BY DEF Finished
<1>2. RunInv'
    BY DEF RunInv
<1>3. CountsMatchFiles'
    BY <1>1 DEF CountsMatchFiles
<1> QED BY <1>2, <1>3

(* A process that connects has finished nothing yet; one that finishes a file
   counts it and its bytes; the others keep their files.                    *)
LEMMA CountsStep ==
    ASSUME IInv, NEW p \in Procs, Step(p)
    PROVE  RunInv' /\ CountsMatchFiles'
<1>0. TypeOK /\ NamesUnique /\ LoadInv /\ RunInv /\ CountsMatchFiles
    BY DEF IInv
<1>1. CASE ConnectFails(p)
    <2>1. files' = files /\ UNCHANGED counts /\ connected' = [connected EXCEPT ![p] = FALSE]
          /\ connects' = [connects EXCEPT ![p] = @ + 1]
        BY <1>1 DEF ConnectFails
    <2>2. \A q \in Procs : connected'[q] => q # p /\ connected[q] /\ Finished(q)' = Finished(q)
        BY <1>0, <2>1 DEF TypeOK, Finished
    <2>3. RunInv'
        BY <1>0, <2>1 DEF RunInv, TypeOK, Files
    <2> QED BY <1>0, <2>1, <2>2, <2>3 DEF CountsMatchFiles, counts
<1>2. ASSUME NEW stamp \in Stamps, NEW bytes \in ByteLimits[p], NEW count \in CountLimits[p],
             NEW limited \in Timed[p], Connect(p, stamp, bytes, count, limited)
      PROVE  RunInv' /\ CountsMatchFiles'
    <2>1. /\ files' = files /\ connected' = [connected EXCEPT ![p] = TRUE]
          /\ connects' = [connects EXCEPT ![p] = @ + 1]
          /\ file_count' = [file_count EXCEPT ![p] = 0]
          /\ total_size' = [total_size EXCEPT ![p] = 0]
        BY <1>2 DEF Connect
    <2>2. Finished(p)' = {}
        <3>1. connects[p] \in Nat /\ connects'[p] = connects[p] + 1
            BY <1>0, <2>1 DEF TypeOK
        <3>2. \A f \in files : f.by = p => f.run <= connects[p] /\ f.run \in Nat
            BY <1>0 DEF RunInv, TypeOK, Files
        <3> QED BY <2>1, <3>1, <3>2 DEF Finished
    <2>3. \A q \in Procs : q # p => Finished(q)' = Finished(q)
        BY <1>0, <2>1 DEF TypeOK, Finished
    <2>4. RunInv'
        BY <1>0, <2>1 DEF RunInv, TypeOK, Files
    <2>5. file_count'[p] = 0 /\ total_size'[p] = 0
        BY <1>0, <2>1 DEF TypeOK
    <2>6. \A q \in Procs : q # p => /\ connected'[q] = connected[q]
                                    /\ file_count'[q] = file_count[q]
                                    /\ total_size'[q] = total_size[q]
        BY <1>0, <2>1 DEF TypeOK
    <2>7. ASSUME NEW q \in Procs, connected'[q]
          PROVE  /\ file_count'[q] = Cardinality(Finished(q)')
                 /\ total_size'[q] = Bytes(Finished(q)')
        <3>1. CASE q = p
            BY <2>2, <2>5, <3>1, BytesEmpty, FS_EmptySet
        <3>2. CASE q # p
            BY <1>0, <2>3, <2>6, <2>7, <3>2 DEF CountsMatchFiles
        <3> QED BY <3>1, <3>2
    <2> QED BY <2>4, <2>7 DEF CountsMatchFiles
<1>3. CASE TimePasses(p)
    BY <1>0, <1>3, CountsUntouched DEF TimePasses, conn, counts, bounds
<1>4. ASSUME NEW logs \in 0..MaxLogs[p], NEW bytes \in 0..MaxBytes[p], Send(p, logs, bytes)
      PROVE  RunInv' /\ CountsMatchFiles'
    BY <1>0, <1>4, CountsUntouched DEF Send, conn, counts
<1>5. CASE CreateFile(p)
    <2>1. CASE Taken(timestamp[p], next_file_index[p])
        BY <1>0, <1>5, <2>1, CountsUntouched DEF CreateFile, conn, counts, bounds
    <2>2. CASE ~Taken(timestamp[p], next_file_index[p])
        <3> DEFINE new == FileAt(p, next_file_index[p])
        <3>1. /\ files' = files \cup {new} /\ UNCHANGED <<connected, file_count, total_size, connects>>
              /\ ~new.whole /\ new.by = p /\ new.run = connects[p] /\ connects[p] \in Nat
            BY <1>0, <1>5, <2>2 DEF CreateFile, FileAt, conn, counts, bounds, TypeOK
        <3> HIDE DEF new
        <3>2. \A q \in Procs : Finished(q)' = Finished(q)
            BY <3>1 DEF Finished
        <3>3. RunInv'
            BY <1>0, <3>1, FS_AddElement DEF RunInv
        <3> QED BY <1>0, <3>1, <3>2, <3>3 DEF CountsMatchFiles
    <2> QED BY <2>1, <2>2
<1>6. CASE CreateFails(p)
    BY <1>0, <1>6, CountsUntouched DEF CreateFails, conn, counts, bounds
<1>7. ASSUME NEW size \in 1..MaxBytes[p], WriteFile(p, size)
      PROVE  RunInv' /\ CountsMatchFiles'
    <2> DEFINE old == Opened(p)
               new == [Opened(p) EXCEPT !.size = size, !.whole = TRUE]
    <2>1. old \in files /\ old \in Files /\ old.by = p /\ ~old.whole /\ old.run = connects[p]
        BY <1>0, <1>7, OpenedType DEF WriteFile, Opened, FileAt
    <2>2. /\ new.stamp = old.stamp /\ new.index = old.index /\ new.by = p
          /\ new.run = connects[p] /\ new.size = size /\ new.whole
        BY <2>1 DEF Files
    <2>3. /\ files' = (files \ {old}) \cup {new}
          /\ UNCHANGED <<connected, connects>>
          /\ file_count' = [file_count EXCEPT ![p] = @ + 1]
          /\ total_size' = [total_size EXCEPT ![p] = @ + size]
        BY <1>7 DEF WriteFile, conn, bounds
    <2> HIDE DEF old, new
    <2>4. new \notin files
        BY <1>0, <2>1, <2>2 DEF NamesUnique
    <2>5. \A q \in Procs : q # p => Finished(q)' = Finished(q)
        BY <2>1, <2>2, <2>3 DEF Finished
    <2>6. Finished(p)' = Finished(p) \cup {new} /\ new \notin Finished(p)
        BY <2>1, <2>2, <2>3, <2>4 DEF Finished
    <2>7. IsFiniteSet(Finished(p))
        BY <1>0, FS_Subset DEF RunInv, Finished
    <2>8. \A y \in Finished(p) \cup {new} : y.size \in Nat
        <3>1. size \in Nat
            BY FileTransportAssumption
        <3> QED BY <1>0, <2>2, <3>1 DEF Finished, TypeOK, Files
    <2>9. /\ Cardinality(Finished(p)') = Cardinality(Finished(p)) + 1
          /\ Bytes(Finished(p)') = Bytes(Finished(p)) + size
        BY <2>2, <2>6, <2>7, <2>8, FS_AddElement, BytesAdd
    <2>10. /\ file_count'[p] = file_count[p] + 1 /\ total_size'[p] = total_size[p] + size
           /\ \A q \in Procs : q # p => /\ file_count'[q] = file_count[q]
                                         /\ total_size'[q] = total_size[q]
        BY <1>0, <2>3 DEF TypeOK
    <2>11. ASSUME NEW q \in Procs, connected'[q]
           PROVE  /\ file_count'[q] = Cardinality(Finished(q)')
                  /\ total_size'[q] = Bytes(Finished(q)')
        <3>1. connected[q]
            BY <2>3, <2>11
        <3>2. CASE q = p
            BY <1>0, <2>9, <2>10, <3>1, <3>2 DEF CountsMatchFiles
        <3>3. CASE q # p
            BY <1>0, <2>5, <2>10, <3>1, <3>3 DEF CountsMatchFiles
        <3> QED BY <3>2, <3>3
    <2>12. RunInv'
        <3>1. IsFiniteSet(files')
            BY <1>0, <2>3, FS_AddElement, FS_RemoveElement DEF RunInv
        <3>2. connects[p] \in Nat
            BY <1>0 DEF TypeOK
        <3> QED BY <1>0, <2>2, <2>3, <3>1, <3>2 DEF RunInv
    <2> QED BY <2>11, <2>12 DEF CountsMatchFiles
<1>8. CASE WriteFails(p)
    BY <1>0, <1>8, CountsUntouched DEF WriteFails, conn, counts, bounds
<1>9. CASE Cleanup(p)
    <2>1. Opened(p) \in files /\ ~Opened(p).whole
        BY <1>0, <1>9, OpenedType DEF Cleanup
    <2>2. /\ files' \in {files, files \ {Opened(p)}}
          /\ UNCHANGED <<connected, file_count, total_size, connects>>
        BY <1>9 DEF Cleanup, conn, counts, bounds
    <2>3. \A q \in Procs : Finished(q)' = Finished(q)
        BY <2>1, <2>2 DEF Finished
    <2>4. RunInv'
        BY <1>0, <2>2, FS_RemoveElement DEF RunInv
    <2> QED BY <1>0, <2>2, <2>3, <2>4 DEF CountsMatchFiles
<1>10. CASE Crash(p)
    <2>1. /\ files' = files /\ connects' = connects
          /\ connected' = [connected EXCEPT ![p] = FALSE]
          /\ file_count' = [file_count EXCEPT ![p] = 0]
          /\ total_size' = [total_size EXCEPT ![p] = 0]
        BY <1>10 DEF Crash, bounds
    <2>2. \A q \in Procs : connected'[q] => /\ connected[q] /\ file_count'[q] = file_count[q]
                                            /\ total_size'[q] = total_size[q]
        BY <1>0, <2>1 DEF TypeOK
    <2> QED BY <1>0, <2>1, <2>2, CountsUntouched
<1> QED BY <1>1, <1>2, <1>3, <1>4, <1>5, <1>6, <1>7, <1>8, <1>9, <1>10 DEF Step, SendStep

(* The invariant holds before anything is connected.                        *)
LEMMA InitIInv == Init => IInv
<1> SUFFICES ASSUME Init PROVE IInv
    OBVIOUS
<1>1. TypeOK /\ NamesUnique /\ PartialsExplained /\ LoadInv /\ LimitsHold
    BY DEF Init, TypeOK, Places, Results, NamesUnique, PartialsExplained, LoadInv,
           LimitsHold
<1>2. RunInv /\ CountsMatchFiles
    BY FS_EmptySet DEF Init, RunInv, CountsMatchFiles
<1> QED BY <1>1, <1>2 DEF IInv

(* The inductive invariant holds in every reachable state.                  *)
THEOREM Inductive == Spec => []IInv
<1>1. ASSUME IInv, Next PROVE IInv'
    <2>1. PICK p \in Procs : Step(p)
        BY <1>1 DEF Next
    <2>2. TypeOK'
        BY <1>1, <2>1, TypeStep DEF IInv
    <2>3. LoadInv' /\ LimitsHold'
        BY <1>1, <2>1, LimitsStep DEF IInv
    <2>4. NamesUnique' /\ PartialsExplained'
        BY <1>1, <2>1, FilesStep DEF IInv
    <2>5. RunInv' /\ CountsMatchFiles'
        BY <1>1, <2>1, CountsStep
    <2> QED BY <2>2, <2>3, <2>4, <2>5 DEF IInv
<1>2. ASSUME IInv, UNCHANGED vars PROVE IInv'
    BY <1>2 DEF vars, conn, counts, payload, bounds, IInv, TypeOK, NamesUnique,
                PartialsExplained, LoadInv, LimitsHold, Opened, FileAt, RunInv,
                CountsMatchFiles, Finished
<1> QED BY <1>1, <1>2, InitIInv, PTL DEF Spec

(* Every variable of the transport keeps its type.                          *)
THEOREM TypeCorrect == Spec => []TypeOK
BY Inductive, PTL DEF IInv

(* create_exclusive gives every name to one process, whatever the clocks say. *)
THEOREM NamesCorrect == Spec => []NamesUnique
BY Inductive, PTL DEF IInv

(* send() never lets the files or the bytes of a connection pass a limit.   *)
THEOREM LimitsCorrect == Spec => []LimitsHold
BY Inductive, PTL DEF IInv

(* write_log leaves no partial file but by a crash or a failed removal.     *)
THEOREM PartialsCorrect == Spec => []PartialsExplained
BY Inductive, PTL DEF IInv

(* file_count_ and total_size_ are what the connection has finished on the disk,
   also after writes that failed and files that were removed.               *)
THEOREM CountsCorrect == Spec => []CountsMatchFiles
BY Inductive, PTL DEF IInv

(* A whole file is never changed or removed by any process.                 *)
THEOREM WholeFilesKept == Spec => WholeFilesStay
<1>1. ASSUME IInv, Next PROVE \A f \in files : f.whole => f \in files'
    <2>1. PICK p \in Procs : Step(p)
        BY <1>1 DEF Next
    <2>2. pc[p] \in {"write", "cleanup"} => ~Opened(p).whole
        BY <1>1, OpenedType DEF IInv
    <2>3. CASE ConnectFails(p)
        BY <2>2, <2>3 DEF ConnectFails
    <2>4. ASSUME NEW stamp \in Stamps, NEW bytes \in ByteLimits[p], NEW count \in CountLimits[p],
                 NEW limited \in Timed[p], Connect(p, stamp, bytes, count, limited)
          PROVE  \A f \in files : f.whole => f \in files'
        BY <2>2, <2>4 DEF Connect
    <2>5. CASE TimePasses(p)
        BY <2>2, <2>5 DEF TimePasses
    <2>6. ASSUME NEW logs \in 0..MaxLogs[p], NEW bytes \in 0..MaxBytes[p], Send(p, logs, bytes)
          PROVE  \A f \in files : f.whole => f \in files'
        BY <2>2, <2>6 DEF Send
    <2>7. CASE CreateFile(p)
        BY <2>2, <2>7 DEF CreateFile
    <2>8. CASE CreateFails(p)
        BY <2>2, <2>8 DEF CreateFails
    <2>9. ASSUME NEW size \in 1..MaxBytes[p], WriteFile(p, size)
          PROVE  \A f \in files : f.whole => f \in files'
        BY <2>2, <2>9 DEF WriteFile
    <2>10. CASE WriteFails(p)
        BY <2>2, <2>10 DEF WriteFails
    <2>11. CASE Cleanup(p)
        BY <2>2, <2>11 DEF Cleanup
    <2>12. CASE Crash(p)
        BY <2>2, <2>12 DEF Crash
    <2> QED BY <2>1, <2>3, <2>4, <2>5, <2>6, <2>7, <2>8, <2>9, <2>10, <2>11, <2>12 DEF Step, SendStep
<1>2. ASSUME IInv, UNCHANGED vars PROVE [\A f \in files : f.whole => f \in files']_files
    BY <1>2 DEF vars
<1> QED BY <1>1, <1>2, Inductive, PTL DEF Spec, WholeFilesStay
=============================================================================
