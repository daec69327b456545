---------------------------- MODULE ListingProofs ----------------------------
(***************************************************************************)
(* Proofs about the listings of ApiRequests: that the walk through folders *)
(* and pages names every file once, and which requests never end.          *)
(***************************************************************************)
EXTENDS ApiProofs, SequenceTheorems, FiniteSetTheorems

-----------------------------------------------------------------------------
(* Keys and prefixes                                                       *)

(* The provers do not know that "" is a string.                            *)
Parts == STRING \cup {""}

Keys == Seq(Parts)

LEMMA PrefixIs ==
  ASSUME NEW p \in Keys, NEW o \in Keys
  PROVE  IsPrefix(p, o) <=> Len(p) <= Len(o) /\ p = SubSeq(o, 1, Len(p))
<1>1. SubSeq(p, 1, Len(p)) = p
  BY SubSeqFull DEF Keys
<1> QED
  BY <1>1 DEF IsPrefix

(* The first n parts of a key.                                             *)
LEMMA CutIs ==
  ASSUME NEW o \in Keys, NEW n \in 0..Len(o)
  PROVE  /\ SubSeq(o, 1, n) \in Keys /\ Len(SubSeq(o, 1, n)) = n
         /\ \A i \in 1..n : SubSeq(o, 1, n)[i] = o[i]
         /\ IsPrefix(SubSeq(o, 1, n), o)
<1> DEFINE s == SubSeq(o, 1, n)
<1>1. Len(o) \in Nat /\ \A i \in 1..n : o[i] \in Parts
  BY LenProperties, ElementOfSeq DEF Keys
<1>2. /\ s \in Seq(Parts) /\ Len(s) = IF 1 <= n THEN n - 1 + 1 ELSE 0
      /\ \A i \in 1..(n - 1 + 1) : s[i] = o[1 + i - 1]
  <2>1. n \in Int /\ 1 \in Int
    BY <1>1
  <2> QED
    BY ONLY <1>1, <2>1, SubSeqProperties
<1>3. s \in Keys /\ Len(s) = n /\ \A i \in 1..n : s[i] = o[i]
  <2> HIDE DEF s
  <2> QED
    BY <1>1, <1>2 DEF Keys
<1>4. IsPrefix(s, o)
  <2>1. Len(s) <= Len(o) /\ s = SubSeq(o, 1, Len(s))
    BY <1>1, <1>3
  <2> HIDE DEF s
  <2> QED
    BY <1>3, <2>1, PrefixIs
<1> QED
  BY <1>3, <1>4

LEMMA StrictPrefixIs ==
  ASSUME NEW p \in Keys, NEW o \in Keys
  PROVE  IsStrictPrefix(p, o) <=> Len(p) < Len(o) /\ p = SubSeq(o, 1, Len(p))
<1>1. Len(p) \in Nat /\ Len(o) \in Nat
  BY LenProperties DEF Keys
<1>2. SubSeq(o, 1, Len(o)) = o
  BY SubSeqFull DEF Keys
<1> QED
  BY <1>1, <1>2, PrefixIs DEF IsStrictPrefix

LEMMA CutsNest ==
  ASSUME NEW o \in Keys, NEW m \in 0..Len(o), NEW n \in 0..m
  PROVE  /\ SubSeq(SubSeq(o, 1, m), 1, n) = SubSeq(o, 1, n)
         /\ IsPrefix(SubSeq(o, 1, n), SubSeq(o, 1, m))
         /\ n < m => IsStrictPrefix(SubSeq(o, 1, n), SubSeq(o, 1, m))
<1> DEFINE whole == SubSeq(o, 1, m)
           part == SubSeq(o, 1, n)
<1>1. Len(o) \in Nat /\ m \in Nat /\ n \in Nat /\ n <= m /\ m <= Len(o)
  BY LenProperties DEF Keys
<1>2. /\ whole \in Keys /\ Len(whole) = m /\ \A i \in 1..m : whole[i] = o[i]
      /\ part \in Keys /\ Len(part) = n /\ \A i \in 1..n : part[i] = o[i]
  BY <1>1, CutIs
<1> HIDE DEF whole, part
<1> DEFINE again == SubSeq(whole, 1, n)
<1>3. again \in Keys /\ Len(again) = n /\ \A i \in 1..n : again[i] = whole[i]
  BY <1>1, <1>2, CutIs
<1> HIDE DEF again
<1>4. again = part
  <2>1. \A i \in 1..Len(again) : again[i] = part[i]
    BY <1>1, <1>2, <1>3
  <2> QED
    BY <1>2, <1>3, <2>1, SeqEqual DEF Keys
<1>5. IsPrefix(part, whole) /\ (n < m => IsStrictPrefix(part, whole))
  BY <1>1, <1>2, <1>4, PrefixIs, StrictPrefixIs DEF again
<1> QED
  BY <1>4, <1>5 DEF again, whole, part

LEMMA PrefixesChain ==
  ASSUME NEW p \in Keys, NEW q \in Keys, NEW o \in Keys
  PROVE  /\ IsPrefix(p, q) /\ IsStrictPrefix(q, o) => IsStrictPrefix(p, o)
         /\ IsPrefix(p, q) /\ IsPrefix(q, o) => IsPrefix(p, o)
<1>1. Len(p) \in Nat /\ Len(q) \in Nat /\ Len(o) \in Nat
  BY LenProperties DEF Keys
<1>2. ASSUME IsPrefix(p, q), IsPrefix(q, o)
      PROVE  p = SubSeq(o, 1, Len(p)) /\ Len(p) <= Len(q) /\ Len(q) <= Len(o)
  <2>1. Len(p) <= Len(q) /\ p = SubSeq(q, 1, Len(p))
    BY <1>2, PrefixIs
  <2>2. Len(q) <= Len(o) /\ q = SubSeq(o, 1, Len(q))
    BY <1>2, PrefixIs
  <2>3. Len(q) \in 0..Len(o) /\ Len(p) \in 0..Len(q)
    BY <1>1, <2>1, <2>2
  <2>4. SubSeq(SubSeq(o, 1, Len(q)), 1, Len(p)) = SubSeq(o, 1, Len(p))
    BY <2>3, CutsNest
  <2> QED
    BY <2>1, <2>2, <2>4
<1>3. IsStrictPrefix(q, o) => IsPrefix(q, o) /\ Len(q) < Len(o)
  BY StrictPrefixIs DEF IsStrictPrefix
<1> QED
  BY <1>1, <1>2, <1>3, PrefixIs, StrictPrefixIs

(* A folder's common prefix: the folder with the empty part.               *)
LEMMA MarkerOf ==
  ASSUME NEW s \in Keys
  PROVE  /\ Append(s, "") \in Keys /\ Len(Append(s, "")) = Len(s) + 1
         /\ IsFolder(Append(s, "")) /\ Front(Append(s, "")) = s
<1> DEFINE m == Append(s, "")
<1>2. Len(s) \in Nat
  BY LenProperties DEF Keys
<1>1. /\ m \in Seq(Parts) /\ Len(m) = Len(s) + 1
      /\ \A i \in 1..Len(s) : m[i] = s[i]
      /\ m[Len(s) + 1] = ""
  <2>1. "" \in Parts /\ s \in Seq(Parts)
    BY DEF Keys, Parts
  <2> HIDE DEF Parts, Keys
  <2>2. \A S : \A t \in Seq(S) : \A e \in S :
          /\ Append(t, e) \in Seq(S) /\ Len(Append(t, e)) = Len(t) + 1
          /\ \A i \in 1..Len(t) : Append(t, e)[i] = t[i]
          /\ Append(t, e)[Len(t) + 1] = e
    BY AppendProperties
  <2> QED
    BY <2>1, <2>2, Zenon
<1>7. m \in Keys /\ Len(m) = Len(s) + 1
  BY <1>1 DEF Keys
<1> HIDE DEF m
<1>3. Front(m) = SubSeq(m, 1, Len(s))
  BY <1>2, <1>7 DEF Front
<1>4. /\ SubSeq(m, 1, Len(s)) \in Keys /\ Len(SubSeq(m, 1, Len(s))) = Len(s)
      /\ \A i \in 1..Len(s) : SubSeq(m, 1, Len(s))[i] = m[i]
  BY <1>2, <1>7, CutIs
<1>5. SubSeq(m, 1, Len(s)) = s
  BY <1>1, <1>4, SeqEqual DEF Keys
<1> QED
  BY <1>1, <1>3, <1>5 DEF m, IsFolder, Last, Keys

(* A key one part longer than p is p's own marker, or a file in p.         *)
LEMMA OnePartMore ==
  ASSUME NEW p \in Keys, NEW o \in Keys, IsStrictPrefix(p, o), Len(o) = Len(p) + 1
  PROVE  Front(o) = p /\ (IsFolder(o) => o = Append(p, ""))
<1>1. Len(p) \in Nat /\ p = SubSeq(o, 1, Len(p))
  BY StrictPrefixIs, LenProperties DEF Keys
<1>2. Front(o) = p
  BY <1>1 DEF Front
<1>3. ASSUME IsFolder(o) PROVE o = Append(p, "")
  <2> DEFINE m == Append(p, "")
  <2>7. m \in Keys /\ Len(m) = Len(p) + 1 /\ IsFolder(m) /\ Front(m) = p
    BY MarkerOf
  <2> HIDE DEF m
  <2>1. m[Len(m)] = o[Len(o)]
    BY <1>3, <2>7, Zenon DEF IsFolder, Last
  <2>2. Len(m) = Len(o) /\ Len(m) - 1 = Len(p)
    BY <1>1, <2>7
  <2>3. p = SubSeq(m, 1, Len(p))
    BY <2>2, <2>7 DEF Front
  <2>4. Len(p) \in 0..Len(o)
    BY <1>1
  <2>5. /\ \A i \in 1..Len(p) : p[i] = o[i]
        /\ \A i \in 1..Len(p) : p[i] = m[i]
    BY <1>1, <2>2, <2>3, <2>4, <2>7, CutIs
  <2>6. \A i \in 1..Len(o) : o[i] = m[i]
    BY <1>1, <2>1, <2>2, <2>5
  <2> QED
    BY <2>2, <2>6, <2>7, SeqEqual DEF Keys, m
<1> QED
  BY <1>2, <1>3

(* The entry of a listing of p that stands for o.                          *)
LEMMA EntryIs ==
  ASSUME NEW p \in Keys, NEW o \in Keys, IsStrictPrefix(p, o)
  PROVE  /\ Len(p) + 1 \in 1..Len(o)
         /\ Entry(p, o) \in Keys
         /\ ~IsFolder(Entry(p, o)) => /\ Entry(p, o) = o /\ Front(o) = p
                                      /\ Len(o) = Len(p) + 1
         /\ IsFolder(Entry(p, o)) => Folder(p, Entry(p, o)) = SubSeq(o, 1, Len(p) + 1)
         /\ Len(o) = Len(p) + 1 => Entry(p, o) = o
<1> DEFINE n == Len(p) + 1
           cut == SubSeq(o, 1, n)
           e == Entry(p, o)
<1>1. n \in 1..Len(o) /\ n \in 0..Len(o) /\ Len(p) \in Nat /\ Len(o) \in Nat
  BY StrictPrefixIs, LenProperties DEF Keys
<1>2. CASE Len(o) = n
  <2>1. e = o /\ Front(o) = p /\ (IsFolder(o) => o = Append(p, ""))
    BY <1>2, OnePartMore DEF Entry
  <2>2. cut = o
    BY <1>2, SubSeqFull DEF Keys
  <2>3. IsFolder(e) => Folder(p, e) = cut
    BY <2>1, <2>2 DEF Folder
  <2> QED
    BY <1>1, <1>2, <2>1, <2>3
<1>3. CASE Len(o) # n
  <2>1. cut \in Keys /\ Len(cut) = n
    BY <1>1, CutIs
  <2>2. e = Append(cut, "")
    BY <1>3 DEF Entry
  <2> HIDE DEF cut
  <2>3. e \in Keys /\ Len(e) = n + 1 /\ IsFolder(e) /\ Front(e) = cut
    BY <2>1, <2>2, MarkerOf
  <2> DEFINE m == Append(p, "")
  <2>4. Len(m) = n
    BY MarkerOf
  <2>5. Folder(p, e) = cut
    <3>1. e # m
      <4> HIDE DEF m, e
      <4> QED
        BY <1>1, <2>3, <2>4
    <3> QED
      BY <2>3, <3>1, Zenon DEF Folder
  <2> QED
    BY <1>1, <1>3, <2>3, <2>5 DEF cut
<1> QED
  BY <1>2, <1>3

LEMMA FolderIs ==
  ASSUME NEW p \in Keys, NEW o \in Keys, IsStrictPrefix(p, o), IsFolder(Entry(p, o))
  PROVE  /\ Folder(p, Entry(p, o)) \in Keys
         /\ IsStrictPrefix(p, Folder(p, Entry(p, o)))
         /\ IsPrefix(Folder(p, Entry(p, o)), o)
<1> DEFINE n == Len(p) + 1
           dir == SubSeq(o, 1, n)
<1>1. Folder(p, Entry(p, o)) = dir /\ n \in 1..Len(o)
  BY EntryIs
<1>2. Len(p) \in Nat /\ p = SubSeq(o, 1, Len(p)) /\ Len(o) \in Nat
  BY StrictPrefixIs, LenProperties DEF Keys
<1>3. dir \in Keys /\ IsPrefix(dir, o)
  BY <1>1, <1>2, CutIs
<1>4. IsStrictPrefix(p, dir)
  <2>1. n \in 0..Len(o) /\ Len(p) \in 0..n /\ Len(p) < n
    BY <1>1, <1>2
  <2> QED
    BY <1>2, <2>1, CutsNest
<1> QED
  BY <1>1, <1>3, <1>4

(* The folder that a marker below p names, in a listing of everything.     *)
LEMMA MarkerNames ==
  ASSUME NEW p \in Keys, NEW o \in Keys, IsStrictPrefix(p, o), IsFolder(o)
  PROVE  /\ Folder(p, o) \in Keys /\ IsStrictPrefix(p, Folder(p, o))
         /\ IsPrefix(Folder(p, o), o)
<1>1. Len(p) \in Nat /\ Len(o) \in Nat /\ Len(p) < Len(o) /\ p = SubSeq(o, 1, Len(p))
  BY StrictPrefixIs, LenProperties DEF Keys
<1>2. CASE o = Append(p, "")
  <2>1. Folder(p, o) = o
    BY <1>2 DEF Folder
  <2>2. IsPrefix(o, o)
    BY <1>1, PrefixIs, SubSeqFull DEF Keys
  <2> QED
    BY <2>1, <2>2
<1>3. CASE o # Append(p, "")
  <2> DEFINE n == Len(o) - 1
  <2>1. Folder(p, o) = SubSeq(o, 1, n)
    BY <1>3 DEF Folder, Front
  <2>2. Len(o) # Len(p) + 1
    BY <1>3, OnePartMore
  <2>3. n \in 0..Len(o) /\ Len(p) \in 0..n /\ Len(p) < n
    BY <1>1, <2>2
  <2> QED
    BY <1>1, <2>1, <2>3, CutIs, CutsNest
<1> QED
  BY <1>2, <1>3

-----------------------------------------------------------------------------
(* The order of the storage                                                *)

LEMMA HasLeast ==
  ASSUME NEW S, S \subseteq Nat, S # {}
  PROVE  Min(S) \in S /\ \A y \in S : Min(S) <= y
<1>1. PICK x \in S : \A y \in S : ~(<<y, x>> \in OpToRel(<, Nat))
  BY NatLessThanWellFounded, WFMin, Zenon
<1>2. \A y \in S : ~(y < x)
  BY <1>1 DEF OpToRel
<1>3. \A y \in S : x <= y
  BY <1>2
<1> QED
  BY <1>3 DEF Min

LEMMA HasGreatest ==
  ASSUME NEW S, S \subseteq Nat, S # {}, NEW n \in Nat, \A y \in S : y <= n
  PROVE  Max(S) \in S /\ \A y \in S : y <= Max(S)
<1> DEFINE T == {m \in 0..n : \A y \in S : y <= m}
<1>1. T \subseteq Nat /\ T # {}
  <2>1. n \in T
    OBVIOUS
  <2> QED
    BY <2>1
<1>2. PICK m \in T : \A k \in T : m <= k
  BY <1>1, HasLeast
<1>3. m \in S
  <2> SUFFICES ASSUME m \notin S PROVE FALSE
    OBVIOUS
  <2>1. \A y \in S : y < m
    BY <1>2
  <2>2. m - 1 \in 0..n /\ \A y \in S : y \in Nat /\ y <= m - 1
    <3>1. PICK y \in S : TRUE
      OBVIOUS
    <3>2. m \in 0..n /\ y \in Nat /\ y < m
      BY <1>2, <2>1
    <3>3. m - 1 \in 0..n
      BY <3>2
    <3> QED
      BY <2>1, <3>2, <3>3
  <2>3. m - 1 \in T /\ m \in 0..n
    BY <1>2, <2>2
  <2> QED
    BY <1>2, <2>3
<1>4. \A y \in S : m >= y
  BY <1>2
<1>5. Max(S) \in S /\ \A y \in S : Max(S) >= y
  BY <1>3, <1>4 DEF Max
<1> QED
  BY <1>5

LEMMA ObjectsAre ==
  /\ Objects \subseteq Keys /\ IsFiniteSet(Objects)
  /\ Len(Order) \in Nat
  /\ \A o \in Objects : Rank(o) \in 1..Len(Order) /\ Order[Rank(o)] = o
<1>1. /\ Len(Order) \in Nat /\ DOMAIN Order = 1..Len(Order)
      /\ \A i \in DOMAIN Order : Order[i] \in Seq(STRING)
  BY StorageAssumption, LenProperties, ElementOfSeq
<1>2. Objects = {Order[i] : i \in DOMAIN Order}
  BY DEF Objects, ToSet
<1>3. \A k \in Seq(STRING) : k \in Keys
  BY SeqMonotonic DEF Keys, Parts
<1>4. \A o \in Objects : Rank(o) \in DOMAIN Order /\ Order[Rank(o)] = o
  BY <1>2 DEF Rank
<1>5. IsFiniteSet(Objects)
  <2>1. IsFiniteSet(DOMAIN Order)
    BY <1>1, FS_Interval
  <2>2. Order \in Surjection(DOMAIN Order, Objects)
    BY StorageAssumption, LenProperties, <1>2 DEF Surjection
  <2> QED
    BY <2>1, <2>2, FS_Surjection
<1> QED
  BY <1>1, <1>2, <1>3, <1>4, <1>5

LEMMA RanksDiffer ==
  ASSUME NEW o \in Objects, NEW p \in Objects, Rank(o) = Rank(p)
  PROVE  o = p
BY ObjectsAre

LEMMA BelowIs ==
  ASSUME NEW p \in Keys
  PROVE  /\ Below(p) \subseteq Objects /\ IsFiniteSet(Below(p))
         /\ \A o \in Below(p) : o \in Keys /\ IsStrictPrefix(p, o)
<1>1. Below(p) \in SUBSET Objects
  BY DEF Below
<1> QED
  BY <1>1, ObjectsAre, FS_Subset DEF Below

(* What stands at the end of an entry: one of its keys.                    *)
LEMMA CoveredIs ==
  ASSUME NEW p \in Keys, NEW o \in Below(p)
  PROVE  /\ Covered(p, Entry(p, o)) \in Nat /\ Covered(p, Entry(p, o)) > 0
         /\ Rank(o) <= Covered(p, Entry(p, o))
         /\ \E k \in Below(p) : /\ Entry(p, k) = Entry(p, o)
                                /\ Rank(k) = Covered(p, Entry(p, o))
<1> DEFINE keys == {k \in Below(p) : Entry(p, k) = Entry(p, o)}
           ranks == {Rank(k) : k \in keys}
<1>1. \A k \in keys : k \in Objects /\ k \in Below(p)
  BY BelowIs
<1>2. ranks \subseteq Nat /\ \A y \in ranks : y <= Len(Order)
  BY <1>1, ObjectsAre
<1>3. o \in keys /\ Rank(o) \in ranks
  OBVIOUS
<1>4. Max(ranks) \in ranks /\ \A y \in ranks : y <= Max(ranks)
  <2> HIDE DEF ranks, keys
  <2>1. ranks # {} /\ Len(Order) \in Nat
    BY <1>3, ObjectsAre
  <2> QED
    BY <1>2, <2>1, HasGreatest
<1>5. Covered(p, Entry(p, o)) = Max(ranks)
  BY DEF Covered
<1>6. \A y \in ranks : \E k \in keys : y = Rank(k)
  OBVIOUS
<1> HIDE DEF ranks
<1>7. PICK k \in keys : Max(ranks) = Rank(k)
  BY <1>4, <1>6
<1>8. Rank(k) \in Nat /\ Rank(k) > 0
  BY <1>1, ObjectsAre
<1> QED
  BY <1>1, <1>3, <1>4, <1>5, <1>7, <1>8

(* No two entries end together, and a file is an entry of its own.         *)
LEMMA EntriesDiffer ==
  ASSUME NEW p \in Keys, NEW o \in Below(p), NEW k \in Below(p),
         Covered(p, Entry(p, o)) = Covered(p, Entry(p, k))
  PROVE  Entry(p, o) = Entry(p, k)
<1>1. PICK i \in Below(p) : /\ Entry(p, i) = Entry(p, o)
                            /\ Rank(i) = Covered(p, Entry(p, o))
  BY CoveredIs
<1>2. PICK j \in Below(p) : /\ Entry(p, j) = Entry(p, k)
                            /\ Rank(j) = Covered(p, Entry(p, k))
  BY CoveredIs
<1>3. i = j
  BY <1>1, <1>2, BelowIs, RanksDiffer
<1> QED
  BY <1>1, <1>2, <1>3

LEMMA FileCovered ==
  ASSUME NEW p \in Keys, NEW o \in Below(p), ~IsFolder(Entry(p, o))
  PROVE  Covered(p, Entry(p, o)) = Rank(o)
<1>1. PICK i \in Below(p) : /\ Entry(p, i) = Entry(p, o)
                            /\ Rank(i) = Covered(p, Entry(p, o))
  BY CoveredIs
<1>2. Entry(p, o) = o /\ Entry(p, i) = i
  BY <1>1, BelowIs, EntryIs
<1> QED
  BY <1>1, <1>2

-----------------------------------------------------------------------------
(* A page of S3                                                            *)

LEMMA EntriesAre ==
  ASSUME NEW p \in Keys, NEW token \in Nat
  PROVE  /\ IsFiniteSet(Entries(p, token))
         /\ \A e \in Entries(p, token) :
              /\ \E o \in bucket \cap Below(p) : e = Entry(p, o)
              /\ Covered(p, e) \in Nat /\ Covered(p, e) > token
              /\ Covered(p, e) <= Len(Order)
<1> DEFINE all == Entries(p, token)
           one == [o \in Below(p) |-> Entry(p, o)]
           image == {Entry(p, o) : o \in Below(p)}
<1>1. one \in Surjection(Below(p), image)
  BY DEF Surjection
<1>2. IsFiniteSet(image)
  BY <1>1, BelowIs, FS_Surjection
<1>3. \A e \in all : /\ \E o \in bucket \cap Below(p) : e = Entry(p, o)
                     /\ Covered(p, e) > token
  BY DEF Entries
<1>4. all \in SUBSET image
  BY <1>3
<1>5. ASSUME NEW e \in all
      PROVE  Covered(p, e) \in Nat /\ Covered(p, e) <= Len(Order)
  <2>1. PICK o \in Below(p) : e = Entry(p, o)
    BY <1>3
  <2>2. PICK k \in Below(p) : Rank(k) = Covered(p, e)
    BY <2>1, CoveredIs
  <2>3. Rank(k) \in 1..Len(Order) /\ Len(Order) \in Nat
    BY BelowIs, ObjectsAre
  <2> QED
    BY <2>2, <2>3
<1> QED
  BY <1>2, <1>3, <1>4, <1>5, FS_Subset

(* The entries up to e, of which a page may hold as many as it has room.   *)
UpTo(p, all, e) == {d \in all : Covered(p, d) <= Covered(p, e)}

OnPage(p, all, max) == {e \in all : Cardinality(UpTo(p, all, e)) <= max}

LEMMA PageBegins ==
  ASSUME NEW p \in Keys, NEW token \in Nat, NEW max \in Nat \ {0},
         Entries(p, token) # {}
  PROVE  OnPage(p, Entries(p, token), max) # {}
<1> DEFINE all == Entries(p, token)
           ends == {Covered(p, e) : e \in all}
<1>1. ends \subseteq Nat /\ ends # {}
  BY EntriesAre
<1>2. PICK n \in ends : \A m \in ends : n <= m
  <2> HIDE DEF ends
  <2> QED
    BY <1>1, HasLeast
<1>3. PICK e \in all : n = Covered(p, e)
  OBVIOUS
<1>4. UpTo(p, all, e) = {e}
  <2>1. e \in UpTo(p, all, e)
    BY EntriesAre DEF UpTo
  <2>2. ASSUME NEW d \in UpTo(p, all, e) PROVE d = e
    <3>1. d \in all /\ Covered(p, d) = Covered(p, e)
      <4>1. d \in all /\ Covered(p, d) <= Covered(p, e)
        BY DEF UpTo
      <4>2. Covered(p, d) \in ends
        BY <4>1
      <4>3. Covered(p, e) <= Covered(p, d)
        BY <1>2, <1>3, <4>2
      <4>4. Covered(p, e) \in Nat /\ Covered(p, d) \in Nat
        BY <4>1, EntriesAre
      <4> QED
        BY <4>1, <4>3, <4>4
    <3>2. PICK i \in Below(p) : d = Entry(p, i)
      BY <3>1, EntriesAre
    <3>3. PICK j \in Below(p) : e = Entry(p, j)
      BY EntriesAre
    <3> QED
      BY <3>1, <3>2, <3>3, EntriesDiffer
  <2> QED
    BY <2>1, <2>2
<1>5. Cardinality(UpTo(p, all, e)) = 1
  BY <1>4, FS_Singleton
<1> QED
  BY <1>5 DEF OnPage

(* A page is a beginning of what is left: all of it, or the entries up to  *)
(* the token for the next.                                                 *)
LEMMA PageEnds ==
  ASSUME NEW p \in Keys, NEW token \in Nat, NEW max \in Nat \ {0},
         OnPage(p, Entries(p, token), max) # Entries(p, token)
  PROVE  LET all == Entries(p, token)
             page == OnPage(p, all, max)
             end == Max({Covered(p, e) : e \in page})
         IN  /\ end \in Nat /\ end > token
             /\ \A e \in all : e \in page <=> Covered(p, e) <= end
<1> DEFINE all == Entries(p, token)
           page == OnPage(p, all, max)
           ends == {Covered(p, e) : e \in page}
<1>1. page \subseteq all /\ all # {}
  BY DEF OnPage
<1>2. page # {}
  BY <1>1, PageBegins
<1>3. /\ ends \subseteq Nat /\ ends # {} /\ Len(Order) \in Nat
      /\ \A n \in ends : n <= Len(Order)
  BY <1>1, <1>2, EntriesAre, ObjectsAre
<1>4. \A e \in page : Covered(p, e) \in ends
  OBVIOUS
<1>5. \A n \in ends : \E e \in page : n = Covered(p, e)
  OBVIOUS
<1> HIDE DEF ends
<1>6. Max(ends) \in ends /\ \A n \in ends : n <= Max(ends)
  BY <1>3, HasGreatest
<1>7. PICK last \in page : Max(ends) = Covered(p, last)
  BY <1>5, <1>6
<1>8. ASSUME NEW e \in all, Covered(p, e) <= Max(ends) PROVE e \in page
  <2>1. last \in all /\ Cardinality(UpTo(p, all, last)) <= max
    BY DEF OnPage
  <2>2. UpTo(p, all, e) \subseteq UpTo(p, all, last)
    <3> SUFFICES ASSUME NEW d \in all, Covered(p, d) <= Covered(p, e)
                 PROVE  Covered(p, d) <= Covered(p, last)
      BY DEF UpTo
    <3>1. Covered(p, d) \in Nat /\ Covered(p, e) \in Nat /\ Covered(p, last) \in Nat
      BY <2>1, EntriesAre
    <3> QED
      BY <1>7, <1>8, <3>1
  <2>3. IsFiniteSet(UpTo(p, all, last)) /\ IsFiniteSet(UpTo(p, all, e))
    <3>1. UpTo(p, all, last) \in SUBSET all /\ UpTo(p, all, e) \in SUBSET all
      BY DEF UpTo
    <3> QED
      BY <3>1, EntriesAre, FS_Subset
  <2>4. /\ Cardinality(UpTo(p, all, e)) <= Cardinality(UpTo(p, all, last))
        /\ Cardinality(UpTo(p, all, e)) \in Nat
        /\ Cardinality(UpTo(p, all, last)) \in Nat
    BY <2>2, <2>3, FS_Subset, FS_CardinalityType
  <2> QED
    BY <2>1, <2>4 DEF OnPage
<1>9. Max(ends) \in Nat /\ Max(ends) > token
  BY <1>1, <1>7, EntriesAre
<1> QED
  BY <1>4, <1>6, <1>8, <1>9 DEF ends

(* What AwsPage gives: of the entries that are left, those up to its token.*)
Reaches(p, page, e) == page.next = 0 \/ Covered(p, e) <= page.next

PageSo(p, token, page) ==
  /\ page.next \in Nat /\ (page.next # 0 => page.next > token)
  /\ \A f : f \in page.files <=> /\ f \in Entries(p, token) /\ ~IsFolder(f)
                                 /\ Reaches(p, page, f)
  /\ \A d : d \in page.dirs <=> \E e \in Entries(p, token) :
                                  /\ IsFolder(e) /\ Reaches(p, page, e)
                                  /\ d = Folder(p, e)

LEMMA AwsPageIs ==
  ASSUME NEW p \in Keys, NEW token \in Nat, NEW max \in Nat \ {0}
  PROVE  PageSo(p, token, AwsPage(p, token, max))
<1> DEFINE all == Entries(p, token)
           page == OnPage(p, all, max)
           end == Max({Covered(p, e) : e \in page})
           next == IF page = all THEN 0 ELSE end
           files == {e \in page : ~IsFolder(e)}
           dirs == {Folder(p, e) : e \in page \ files}
<1>1. AwsPage(p, token, max) = [files |-> files, dirs |-> dirs, next |-> next]
  BY DEF AwsPage, ConvertToS3Objects, OnPage, UpTo
<1>2. page \subseteq all
  BY DEF OnPage
<1>3. /\ next \in Nat /\ (next # 0 => next > token)
      /\ \A e \in all : e \in page <=> (next = 0 \/ Covered(p, e) <= next)
  <2>1. CASE page = all
    BY <2>1
  <2>2. CASE page # all
    <3>1. /\ end \in Nat /\ end > token
          /\ \A e \in all : e \in page <=> Covered(p, e) <= end
      BY <2>2, PageEnds
    <3>2. next = end
      BY <2>2
    <3>3. page # all => next = end
      BY <2>2
    <3> HIDE DEF end, page, all, next
    <3> QED
      BY <3>1, <3>2
  <2> QED
    BY <2>1, <2>2
<1> HIDE DEF page, next, all
<1> QED
  BY <1>1, <1>2, <1>3 DEF PageSo, Reaches, all

-----------------------------------------------------------------------------
(* Folders in order                                                        *)

Sorted(s) ==
  \A i, j \in DOMAIN s : i < j => s[i] # s[j] /\ FirstRank(s[i]) <= FirstRank(s[j])

(* A folder that some object is in.                                        *)
Used(dir) == \E o \in Objects : IsPrefix(dir, o)

LEMMA FirstRankIs ==
  ASSUME NEW dir, Used(dir)
  PROVE  FirstRank(dir) \in Nat /\ FirstRank(dir) <= Len(Order)
<1> DEFINE ranks == {Rank(o) : o \in {p \in Objects : IsPrefix(dir, p)}}
<1>1. /\ ranks \subseteq Nat /\ ranks # {} /\ Len(Order) \in Nat
      /\ \A n \in ranks : n <= Len(Order)
  BY ObjectsAre DEF Used
<1>2. FirstRank(dir) = Min(ranks)
  BY DEF FirstRank
<1> HIDE DEF ranks
<1> QED
  BY <1>1, <1>2, HasLeast

LEMMA InOrderExists ==
  ASSUME NEW dirs, IsFiniteSet(dirs), \A d \in dirs : Used(d)
  PROVE  \E s \in [1..Cardinality(dirs) -> dirs] : Sorted(s)
<1> DEFINE bad == {n \in Nat : \E D \in SUBSET dirs :
                     Cardinality(D) = n /\ ~(\E s \in [1..n -> D] : Sorted(s))}
<1>1. ASSUME bad # {} PROVE FALSE
  <2>1. PICK n \in bad : \A k \in bad : n <= k
    <3>1. bad \subseteq Nat
      OBVIOUS
    <3> HIDE DEF bad
    <3> QED
      BY <1>1, <3>1, HasLeast
  <2>2. PICK D \in SUBSET dirs :
          Cardinality(D) = n /\ ~(\E s \in [1..n -> D] : Sorted(s))
    OBVIOUS
  <2>3. IsFiniteSet(D) /\ n \in Nat
    BY FS_Subset
  <2>4. n # 0
    <3>1. ASSUME n = 0 PROVE FALSE
      <4> DEFINE s == [i \in 1..0 |-> i]
      <4>1. s \in [1..n -> D] /\ Sorted(s)
        BY <3>1 DEF Sorted
      <4> QED
        BY <2>2, <4>1
    <3> QED
      BY <3>1
  <2> DEFINE ranks == {FirstRank(d) : d \in D}
  <2>5. /\ ranks \subseteq Nat /\ ranks # {} /\ Len(Order) \in Nat
        /\ \A k \in ranks : k <= Len(Order)
    <3>1. D # {}
      BY <2>2, <2>4, FS_EmptySet
    <3>2. \A d \in D : FirstRank(d) \in Nat /\ FirstRank(d) <= Len(Order)
      BY FirstRankIs
    <3> QED
      BY <3>1, <3>2, ObjectsAre
  <2>6. PICK r \in ranks : \A k \in ranks : k <= r
    <3> HIDE DEF ranks
    <3> QED
      BY <2>5, HasGreatest
  <2>7. PICK last \in D : r = FirstRank(last)
    OBVIOUS
  <2>8. \A d \in D : FirstRank(d) <= FirstRank(last)
    BY <2>6, <2>7
  <2> DEFINE rest == D \ {last}
  <2>9. rest \in SUBSET dirs /\ Cardinality(rest) = n - 1 /\ n - 1 \in Nat
    <3>1. Cardinality(rest) = Cardinality(D) - 1
      BY <2>3, FS_RemoveElement
    <3>2. n - 1 \in Nat
      BY <2>3, <2>4
    <3> QED
      BY <2>2, <3>1, <3>2
  <2>10. n - 1 \notin bad
    BY <2>1, <2>3
  <2>11. PICK s \in [1..(n - 1) -> rest] : Sorted(s)
    BY <2>9, <2>10
  <2> DEFINE t == [i \in 1..n |-> IF i = n THEN last ELSE s[i]]
  <2>12. \A i \in 1..n : i # n => i \in 1..(n - 1) /\ s[i] \in rest /\ t[i] = s[i]
    BY <2>3
  <2>13. t[n] = last /\ n \in 1..n
    BY <2>3, <2>4
  <2>14. t \in [1..n -> D]
    BY <2>12
  <2>15. Sorted(t)
    <3> SUFFICES ASSUME NEW i \in 1..n, NEW j \in 1..n, i < j
                 PROVE  t[i] # t[j] /\ FirstRank(t[i]) <= FirstRank(t[j])
      BY <2>14 DEF Sorted
    <3>1. i # n /\ t[i] = s[i] /\ s[i] \in rest /\ i \in 1..(n - 1)
      BY <2>3, <2>12
    <3>2. CASE j = n
      <4>1. t[j] = last
        BY <3>2, <2>13
      <4> HIDE DEF t
      <4> QED
        BY <3>1, <4>1, <2>8
    <3>3. CASE j # n
      <4>1. t[j] = s[j] /\ j \in 1..(n - 1)
        BY <3>3, <2>12
      <4> HIDE DEF t
      <4> QED
        BY <2>11, <3>1, <4>1 DEF Sorted
    <3> QED
      BY <3>2, <3>3
  <2> QED
    BY <2>2, <2>14, <2>15
<1>2. Cardinality(dirs) \in Nat /\ Cardinality(dirs) \notin bad
  BY <1>1, FS_CardinalityType
<1> QED
  BY <1>2

(* The enumeration names every folder, once.                               *)
LEMMA InOrderIs ==
  ASSUME NEW dirs, IsFiniteSet(dirs), \A d \in dirs : Used(d)
  PROVE  /\ InOrder(dirs) \in Seq(dirs)
         /\ \A i, j \in DOMAIN InOrder(dirs) :
              InOrder(dirs)[i] = InOrder(dirs)[j] => i = j
         /\ \A d \in dirs : \E i \in DOMAIN InOrder(dirs) : InOrder(dirs)[i] = d
<1> DEFINE n == Cardinality(dirs)
           s == InOrder(dirs)
<1>1. s \in [1..n -> dirs] /\ Sorted(s)
  <2>1. s = CHOOSE t \in [1..n -> dirs] : Sorted(t)
    BY DEF InOrder, Sorted
  <2> QED
    BY <2>1, InOrderExists
<1> HIDE DEF s
<1>2. n \in Nat
  BY FS_CardinalityType
<1>3. s \in Seq(dirs) /\ DOMAIN s = 1..n
  BY <1>1, <1>2, SeqDef
<1>4. \A i, j \in 1..n : s[i] = s[j] => i = j
  BY <1>1, <1>2, <1>3 DEF Sorted
<1>5. \A d \in dirs : \E i \in 1..n : s[i] = d
  <2>1. s \in Injection(1..n, dirs)
    BY <1>1, <1>4 DEF Injection, IsInjective
  <2>2. Cardinality(1..n) = n
    <3>1. n \in Int /\ 1 \in Int
      BY <1>2
    <3>2. Cardinality(1..n) = IF 1 > n THEN 0 ELSE n - 1 + 1
      BY <3>1, FS_Interval, Zenon
    <3> QED
      BY <1>2, <3>2
  <2>3. s \in Surjection(1..n, dirs)
    BY <2>1, <2>2, FS_Injection
  <2> QED
    BY <2>3 DEF Surjection
<1> QED
  BY <1>3, <1>4, <1>5 DEF s

-----------------------------------------------------------------------------
(* What is left of a walk                                                  *)

Items == [prefix : Keys, token : Nat]

Apart(todo) ==
  \A i, j \in DOMAIN todo : todo[i].prefix = todo[j].prefix => i = j

Holds(todo, x) == \E i \in DOMAIN todo : todo[i] = x

(* Two lists of folders after one another.                                 *)
LEMMA JoinedIs ==
  ASSUME NEW s \in Seq(Items), NEW t \in Seq(Items)
  PROVE  /\ s \o t \in Seq(Items)
         /\ \A x : Holds(s \o t, x) <=> Holds(s, x) \/ Holds(t, x)
<1> DEFINE u == s \o t
           m == Len(s)
           n == Len(t)
<1>1. /\ u \in Seq(Items) /\ Len(u) = m + n
      /\ \A i \in 1..(m + n) : u[i] = IF i <= m THEN s[i] ELSE t[i - m]
  BY ConcatProperties
<1>2. /\ m \in Nat /\ n \in Nat
      /\ DOMAIN s = 1..m /\ DOMAIN t = 1..n /\ DOMAIN u = 1..(m + n)
  BY <1>1, LenProperties
<1> HIDE DEF u, m, n
<1>3. ASSUME NEW x, Holds(s, x) PROVE Holds(u, x)
  <2>1. PICK i \in 1..m : s[i] = x
    BY <1>2, <1>3 DEF Holds
  <2>2. i \in 1..(m + n) /\ u[i] = x
    BY <1>1, <1>2, <2>1
  <2> QED
    BY <1>2, <2>2 DEF Holds
<1>4. ASSUME NEW x, Holds(t, x) PROVE Holds(u, x)
  <2>1. PICK i \in 1..n : t[i] = x
    BY <1>2, <1>4 DEF Holds
  <2>2. i + m \in 1..(m + n) /\ ~(i + m <= m) /\ (i + m) - m = i
    BY <1>2
  <2>3. u[i + m] = x
    BY <1>1, <2>1, <2>2
  <2> QED
    BY <1>2, <2>2, <2>3 DEF Holds
<1>5. ASSUME NEW x, Holds(u, x) PROVE Holds(s, x) \/ Holds(t, x)
  <2>1. PICK i \in 1..(m + n) : u[i] = x
    BY <1>2, <1>5 DEF Holds
  <2>2. CASE i <= m
    <3>1. i \in 1..m /\ s[i] = x
      BY <1>1, <1>2, <2>1, <2>2
    <3> QED
      BY <1>2, <3>1 DEF Holds
  <2>3. CASE ~(i <= m)
    <3>1. i - m \in 1..n /\ t[i - m] = x
      BY <1>1, <1>2, <2>1, <2>3
    <3> QED
      BY <1>2, <3>1 DEF Holds
  <2> QED
    BY <2>2, <2>3
<1> QED
  BY <1>1, <1>3, <1>4, <1>5 DEF u

(* Folders that are apart remain so beside others.                         *)
LEMMA JoinedApart ==
  ASSUME NEW s \in Seq(Items), NEW t \in Seq(Items), Apart(s), Apart(t),
         \A x, y \in Items : Holds(s, x) /\ Holds(t, y) => x.prefix # y.prefix
  PROVE  Apart(s \o t)
<1> DEFINE u == s \o t
           m == Len(s)
           n == Len(t)
<1>1. /\ u \in Seq(Items) /\ Len(u) = m + n
      /\ \A i \in 1..(m + n) : u[i] = IF i <= m THEN s[i] ELSE t[i - m]
  BY ConcatProperties
<1>2. /\ m \in Nat /\ n \in Nat
      /\ DOMAIN s = 1..m /\ DOMAIN t = 1..n /\ DOMAIN u = 1..(m + n)
  BY <1>1, LenProperties
<1>3. /\ \A i \in 1..m : s[i] \in Items /\ Holds(s, s[i])
      /\ \A i \in 1..n : t[i] \in Items /\ Holds(t, t[i])
  BY <1>2, ElementOfSeq DEF Holds
<1> HIDE DEF u, m, n
<1>4. \A i \in 1..(m + n) : \/ i \in 1..m /\ u[i] = s[i]
                            \/ i - m \in 1..n /\ ~(i \in 1..m) /\ u[i] = t[i - m]
  BY <1>1, <1>2
<1>5. ASSUME NEW i \in 1..(m + n), NEW j \in 1..(m + n), u[i].prefix = u[j].prefix
      PROVE  i = j
  <2>1. CASE i \in 1..m /\ j \in 1..m
    BY <1>2, <1>4, <1>5, <2>1 DEF Apart
  <2>2. CASE ~(i \in 1..m) /\ ~(j \in 1..m)
    <3>1. /\ i - m \in 1..n /\ j - m \in 1..n
          /\ t[i - m].prefix = t[j - m].prefix
      BY <1>4, <1>5, <2>2
    <3>2. i - m = j - m
      BY <1>2, <3>1 DEF Apart
    <3> QED
      BY <1>2, <3>2
  <2>3. CASE i \in 1..m /\ ~(j \in 1..m)
    <3>1. j - m \in 1..n /\ s[i].prefix = t[j - m].prefix
      BY <1>4, <1>5, <2>3
    <3> QED
      BY <1>3, <2>3, <3>1
  <2>4. CASE ~(i \in 1..m) /\ j \in 1..m
    <3>1. i - m \in 1..n /\ s[j].prefix = t[i - m].prefix
      BY <1>4, <1>5, <2>4
    <3> QED
      BY <1>3, <2>4, <3>1
  <2> QED
    BY <2>1, <2>2, <2>3, <2>4
<1> QED
  BY <1>2, <1>5 DEF Apart, u

LEMMA TailIs ==
  ASSUME NEW t \in Seq(Items), t # <<>>
  PROVE  /\ Head(t) \in Items /\ Tail(t) \in Seq(Items)
         /\ \A x : Holds(t, x) <=> x = Head(t) \/ Holds(Tail(t), x)
         /\ Apart(t) => /\ Apart(Tail(t))
                        /\ \A x : Holds(Tail(t), x) => x.prefix # Head(t).prefix
<1> DEFINE n == Len(t)
           r == Tail(t)
<1>1. /\ Head(t) \in Items /\ r \in Seq(Items) /\ Len(r) = n - 1
      /\ \A i \in 1..(n - 1) : r[i] = t[i + 1]
  BY HeadTailProperties
<1>2. /\ n \in Nat \ {0} /\ DOMAIN t = 1..n /\ DOMAIN r = 1..(n - 1)
      /\ Head(t) = t[1]
  BY <1>1, LenProperties, EmptySeq
<1> HIDE DEF r, n
<1>3. ASSUME NEW x, Holds(t, x) PROVE x = Head(t) \/ Holds(r, x)
  <2>1. PICK i \in 1..n : t[i] = x
    BY <1>2, <1>3 DEF Holds
  <2>2. i = 1 \/ (i - 1 \in 1..(n - 1) /\ r[i - 1] = x)
    <3>1. i # 1 => i - 1 \in 1..(n - 1) /\ (i - 1) + 1 = i
      BY <1>2
    <3> QED
      BY <1>1, <2>1, <3>1
  <2> QED
    BY <1>2, <2>1, <2>2 DEF Holds
<1>4. ASSUME NEW x, Holds(r, x) PROVE \E i \in 2..n : t[i] = x
  <2>1. PICK i \in 1..(n - 1) : r[i] = x
    BY <1>2, <1>4 DEF Holds
  <2>2. i + 1 \in 2..n /\ t[i + 1] = x
    BY <1>1, <1>2, <2>1
  <2> QED
    BY <2>2
<1>5. Holds(t, Head(t)) /\ \A x : Holds(r, x) => Holds(t, x)
  <2>1. 1 \in DOMAIN t /\ \A i \in 2..n : i \in DOMAIN t
    BY <1>2
  <2> QED
    BY <1>2, <1>4, <2>1, Zenon DEF Holds
<1>6. ASSUME Apart(t)
      PROVE  Apart(r) /\ \A x : Holds(r, x) => x.prefix # Head(t).prefix
  <2>1. \A i \in 1..(n - 1) : i + 1 \in 1..n /\ r[i] = t[i + 1]
    BY <1>1, <1>2
  <2>2. Apart(r)
    <3> SUFFICES ASSUME NEW i \in 1..(n - 1), NEW j \in 1..(n - 1),
                        r[i].prefix = r[j].prefix
                 PROVE  i = j
      BY <1>2 DEF Apart
    <3>1. /\ i + 1 \in DOMAIN t /\ j + 1 \in DOMAIN t
          /\ t[i + 1].prefix = t[j + 1].prefix
      BY <1>2, <2>1
    <3>2. i + 1 = j + 1
      BY <1>6, <3>1 DEF Apart
    <3> QED
      BY <3>2
  <2>3. \A i \in 2..n : i \in 1..n /\ 1 \in 1..n /\ i # 1
    BY <1>2
  <2>4. \A x : Holds(r, x) => x.prefix # Head(t).prefix
    BY <1>2, <1>4, <1>6, <2>3 DEF Apart
  <2> QED
    BY <2>2, <2>4
<1> QED
  BY <1>1, <1>3, <1>5, <1>6 DEF r

(* The folders of a page, to be begun in their order.                      *)
Begun(dirs) ==
  [i \in DOMAIN InOrder(dirs) |-> [prefix |-> InOrder(dirs)[i], token |-> 0]]

LEMMA BegunIs ==
  ASSUME NEW dirs \in SUBSET Keys, IsFiniteSet(dirs), \A d \in dirs : Used(d)
  PROVE  /\ Begun(dirs) \in Seq(Items) /\ Apart(Begun(dirs))
         /\ \A x : Holds(Begun(dirs), x)
                     <=> \E d \in dirs : x = [prefix |-> d, token |-> 0]
<1> DEFINE s == InOrder(dirs)
           t == Begun(dirs)
<1>1. /\ s \in Seq(dirs)
      /\ \A i, j \in DOMAIN s : s[i] = s[j] => i = j
      /\ \A d \in dirs : \E i \in DOMAIN s : s[i] = d
  BY InOrderIs
<1>2. DOMAIN s = 1..Len(s) /\ Len(s) \in Nat /\ \A i \in DOMAIN s : s[i] \in dirs
  BY <1>1, LenProperties, ElementOfSeq
<1>3. /\ DOMAIN t = DOMAIN s
      /\ \A i \in DOMAIN s : t[i] = [prefix |-> s[i], token |-> 0]
  BY DEF Begun
<1>4. t = [i \in 1..Len(s) |-> t[i]]
  BY <1>2 DEF Begun
<1> HIDE DEF s, t
<1>5. \A i \in DOMAIN s : t[i] \in Items /\ t[i].prefix = s[i]
  BY <1>2, <1>3 DEF Items
<1>6. t \in [1..Len(s) -> Items]
  BY <1>2, <1>4, <1>5
<1>7. t \in Seq(Items)
  BY <1>2, <1>6, SeqDef
<1>8. Apart(t)
  BY <1>1, <1>3, <1>5 DEF Apart
<1>9. \A x : Holds(t, x) <=> \E d \in dirs : x = [prefix |-> d, token |-> 0]
  BY <1>1, <1>2, <1>3 DEF Holds
<1> QED
  BY <1>7, <1>8, <1>9 DEF t

(* A page of the folder p, as it may be.                                   *)
GoodPage(p, page) ==
  /\ page.next \in Nat
  /\ page.dirs \in SUBSET Keys /\ IsFiniteSet(page.dirs)
  /\ \A d \in page.dirs : Used(d) /\ IsStrictPrefix(p, d)

LEMMA TodoAfter ==
  ASSUME NEW walk, NEW page, walk.todo \in Seq(Items), walk.todo # <<>>,
         GoodPage(Head(walk.todo).prefix, page)
  PROVE  /\ AfterPage(walk, page).todo \in Seq(Items)
         /\ \A x : Holds(AfterPage(walk, page).todo, x) <=>
              \/ \E d \in page.dirs \ walk.seen : x = [prefix |-> d, token |-> 0]
              \/ /\ page.next # 0
                 /\ x = [prefix |-> Head(walk.todo).prefix, token |-> page.next]
              \/ Holds(Tail(walk.todo), x)
         /\ Apart(walk.todo) /\ (\A x : Holds(walk.todo, x) => x.prefix \in walk.seen)
              => Apart(AfterPage(walk, page).todo)
<1> DEFINE here == Head(walk.todo).prefix
           dirs == page.dirs \ walk.seen
           first == [prefix |-> here, token |-> page.next]
           later == IF page.next = 0 THEN <<>> ELSE <<first>>
           rest == Tail(walk.todo)
           both == Begun(dirs) \o later
           todo == both \o rest
<1>1. AfterPage(walk, page).todo = todo
  BY DEF AfterPage, Begun
<1>2. /\ Head(walk.todo) \in Items /\ rest \in Seq(Items)
      /\ \A x : Holds(walk.todo, x) <=> x = Head(walk.todo) \/ Holds(rest, x)
      /\ Apart(walk.todo) => /\ Apart(rest)
                             /\ \A x : Holds(rest, x) => x.prefix # here
  BY TailIs
<1>3. /\ dirs \in SUBSET Keys /\ IsFiniteSet(dirs) /\ \A d \in dirs : Used(d)
      /\ page.next \in Nat
  BY FS_Subset DEF GoodPage
<1>4. /\ Begun(dirs) \in Seq(Items) /\ Apart(Begun(dirs))
      /\ \A x : Holds(Begun(dirs), x)
                  <=> \E d \in dirs : x = [prefix |-> d, token |-> 0]
  BY <1>3, BegunIs
<1>5. first \in Items /\ first.prefix = here
  BY <1>2, <1>3 DEF Items
<1> HIDE DEF first, here, rest, dirs
<1>6. /\ later \in Seq(Items) /\ Apart(later)
      /\ \A x : Holds(later, x) <=> page.next # 0 /\ x = first
  BY <1>5 DEF Apart, Holds
<1> HIDE DEF later
<1>7. /\ both \in Seq(Items)
      /\ \A x : Holds(both, x) <=> Holds(Begun(dirs), x) \/ Holds(later, x)
  BY <1>4, <1>6, JoinedIs
<1> HIDE DEF both
<1>8. /\ todo \in Seq(Items)
      /\ \A x : Holds(todo, x) <=> Holds(both, x) \/ Holds(rest, x)
  BY <1>2, <1>7, JoinedIs
<1> HIDE DEF todo
<1>9. ASSUME Apart(walk.todo), \A x : Holds(walk.todo, x) => x.prefix \in walk.seen
      PROVE  Apart(todo)
  <2>1. here \in walk.seen /\ \A x : Holds(rest, x) => x.prefix \in walk.seen
    BY <1>2, <1>9 DEF here
  <2>2. \A x : Holds(Begun(dirs), x) => x.prefix \notin walk.seen
    <3> SUFFICES ASSUME NEW x, Holds(Begun(dirs), x) PROVE x.prefix \notin walk.seen
      OBVIOUS
    <3>1. PICK d \in dirs : x = [prefix |-> d, token |-> 0]
      BY <1>4
    <3>2. d \notin walk.seen /\ x.prefix = d
      BY <3>1 DEF dirs
    <3> QED
      BY <3>2
  <2>3. Apart(both)
    <3>1. \A x, y \in Items : Holds(Begun(dirs), x) /\ Holds(later, y)
                                => x.prefix # y.prefix
      BY <1>5, <1>6, <2>1, <2>2
    <3> QED
      BY <1>4, <1>6, <3>1, JoinedApart DEF both
  <2>4. \A x, y \in Items : Holds(both, x) /\ Holds(rest, y) => x.prefix # y.prefix
    BY <1>2, <1>5, <1>6, <1>7, <1>9, <2>1, <2>2
  <2> QED
    BY <1>2, <1>7, <1>9, <2>3, <2>4, JoinedApart DEF todo
<1> QED
  BY <1>1, <1>4, <1>6, <1>7, <1>8, <1>9 DEF first, here, rest, dirs

LEMMA FoldersFinite ==
  ASSUME NEW p, NEW entries, IsFiniteSet(entries), NEW dirs,
         \A d \in dirs : \E e \in entries : d = Folder(p, e)
  PROVE  IsFiniteSet(dirs)
<1> DEFINE image == {Folder(p, e) : e \in entries}
           name == [e \in entries |-> Folder(p, e)]
<1>1. name \in Surjection(entries, image)
  BY DEF Surjection
<1>2. IsFiniteSet(image) /\ dirs \in SUBSET image
  BY <1>1, FS_Surjection
<1> QED
  BY <1>2, FS_Subset

LEMMA AwsPageGood ==
  ASSUME NEW p \in Keys, NEW token \in Nat, NEW max \in Nat \ {0}
  PROVE  GoodPage(p, AwsPage(p, token, max))
<1> DEFINE page == AwsPage(p, token, max)
<1>1. PageSo(p, token, page)
  BY AwsPageIs
<1> HIDE DEF page
<1>2. \A d \in page.dirs : \E e \in Entries(p, token) : IsFolder(e) /\ d = Folder(p, e)
  BY <1>1 DEF PageSo
<1>3. IsFiniteSet(page.dirs)
  BY <1>2, EntriesAre, FoldersFinite
<1>4. ASSUME NEW d \in page.dirs
      PROVE  d \in Keys /\ Used(d) /\ IsStrictPrefix(p, d)
  <2>1. PICK e \in Entries(p, token) : IsFolder(e) /\ d = Folder(p, e)
    BY <1>2
  <2>2. PICK o \in Below(p) : e = Entry(p, o)
    BY EntriesAre
  <2>3. o \in Keys /\ IsStrictPrefix(p, o) /\ o \in Objects
    BY BelowIs
  <2>4. d \in Keys /\ IsStrictPrefix(p, d) /\ IsPrefix(d, o)
    BY <2>1, <2>2, <2>3, FolderIs
  <2> QED
    BY <2>3, <2>4 DEF Used
<1> QED
  BY <1>1, <1>3, <1>4 DEF GoodPage, PageSo, page

LEMMA MinioPageGood ==
  ASSUME NEW p \in Keys
  PROVE  GoodPage(p, MinioPage(p))
<1> DEFINE all == bucket \cap Below(p)
           files == {o \in all : ~IsFolder(o)}
           dirs == {Folder(p, o) : o \in all \ files}
<1>1. MinioPage(p) = [files |-> files, dirs |-> dirs, next |-> 0]
  BY DEF MinioPage, ConvertToS3Objects
<1>2. \A d \in dirs : \E o \in all : IsFolder(o) /\ d = Folder(p, o)
  OBVIOUS
<1> HIDE DEF dirs
<1>3. IsFiniteSet(all)
  BY BelowIs, FS_Subset
<1>4. IsFiniteSet(dirs)
  BY <1>2, <1>3, FoldersFinite
<1>5. ASSUME NEW d \in dirs
      PROVE  d \in Keys /\ Used(d) /\ IsStrictPrefix(p, d)
  <2>1. PICK o \in Below(p) : IsFolder(o) /\ d = Folder(p, o)
    BY <1>2
  <2>2. o \in Keys /\ IsStrictPrefix(p, o) /\ o \in Objects
    BY BelowIs
  <2> QED
    BY <2>1, <2>2, MarkerNames DEF Used
<1> QED
  BY <1>1, <1>4, <1>5 DEF GoodPage

-----------------------------------------------------------------------------
(* A walk below P. always and ever: what was there all the time since it   *)
(* began, or at some time.                                                 *)

(* It keeps to the folders below P.                                        *)
Led(w, P) ==
  w.todo \in Seq(Items) /\ \A x : Holds(w.todo, x) => IsPrefix(P, x.prefix)

(* Every folder is begun once.                                             *)
Orderly(w, P) ==
  /\ Apart(w.todo) /\ \A x : Holds(w.todo, x) => x.prefix \in w.seen
  /\ P \in w.seen /\ \A s \in w.seen : s \in Keys /\ IsPrefix(P, s)

(* What was found is a file of a folder that was begun, and behind the     *)
(* token if there is more to come of that folder.                          *)
Once(w, P, ever) ==
  \A o \in Objects :
    /\ w.found[o] \in {0, 1}
    /\ w.found[o] = 1 =>
         /\ o \in ever \cap Below(P) /\ ~IsFolder(o) /\ Front(o) \in w.seen
         /\ \A x : Holds(w.todo, x) /\ x.prefix = Front(o) => Rank(o) <= x.token

(* In a folder s that was begun, a file below it is still to come or was   *)
(* found, or the folder in s on the way to it was begun, too.              *)
ToCome(w, s, o) ==
  \E x \in Items : Holds(w.todo, x) /\ x.prefix = s /\ x.token < Covered(s, Entry(s, o))

OnTheWay(s, o) == SubSeq(o, 1, Len(s) + 1)

Thorough(w, P, always) ==
  \A o \in always \cap Below(P) : ~IsFolder(o) =>
    \A s \in w.seen : IsStrictPrefix(s, o) =>
      \/ ToCome(w, s, o)
      \/ w.found[o] = 1
      \/ Len(s) + 1 < Len(o) /\ OnTheWay(s, o) \in w.seen

WalkInv(w, P, always, ever) ==
  Led(w, P) /\ Orderly(w, P) /\ Once(w, P, ever) /\ Thorough(w, P, always)

LEMMA WalkStays ==
  ASSUME NEW w, NEW P, NEW always, NEW ever, NEW less \in SUBSET always, NEW more,
         ever \subseteq more, WalkInv(w, P, always, ever)
  PROVE  WalkInv(w, P, less, more)
BY DEF WalkInv, Once, Thorough

LEMMA StartLed ==
  ASSUME NEW P \in Keys
  PROVE  /\ Led(Start(P), P) /\ Start(P).todo # <<>> /\ Head(Start(P).todo).prefix = P
         /\ \A x : Holds(Start(P).todo, x) <=> x = [prefix |-> P, token |-> 0]
<1> DEFINE first == [prefix |-> P, token |-> 0]
<1>1. Start(P).todo = <<first>> /\ first \in Items /\ first.prefix = P
  BY DEF Start, Items
<1>2. IsPrefix(P, P)
  BY PrefixIs, SubSeqFull, LenProperties DEF Keys
<1> HIDE DEF first
<1>3. \A x : Holds(Start(P).todo, x) <=> x = first
  BY <1>1 DEF Holds
<1> QED
  BY <1>1, <1>2, <1>3 DEF Led, first

LEMMA StartWalks ==
  ASSUME NEW P \in Keys, NEW always, NEW ever
  PROVE  WalkInv(Start(P), P, always, ever)
<1> DEFINE first == [prefix |-> P, token |-> 0]
           w == Start(P)
<1>1. /\ Led(w, P) /\ first \in Items /\ first.prefix = P /\ first.token = 0
      /\ \A x : Holds(w.todo, x) <=> x = first
  BY StartLed DEF Items
<1>2. w.seen = {P} /\ w.found = [o \in Objects |-> 0] /\ w.todo = <<first>>
  BY DEF Start
<1>3. IsPrefix(P, P)
  BY PrefixIs, SubSeqFull, LenProperties DEF Keys
<1> HIDE DEF w, first
<1>4. Orderly(w, P)
  BY <1>1, <1>2, <1>3 DEF Orderly, Apart
<1>5. Once(w, P, ever)
  BY <1>2 DEF Once
<1>6. Thorough(w, P, always)
  <2> SUFFICES ASSUME NEW o \in Below(P) PROVE ToCome(w, P, o)
    BY <1>2 DEF Thorough
  <2> QED
    BY <1>1, CoveredIs DEF ToCome
<1> QED
  BY <1>1, <1>4, <1>5, <1>6 DEF WalkInv, w

LEMMA LedOn ==
  ASSUME NEW P \in Keys, NEW w, NEW page, Led(w, P), w.todo # <<>>,
         GoodPage(Head(w.todo).prefix, page)
  PROVE  /\ Led(AfterPage(w, page), P)
         /\ Orderly(w, P) => Orderly(AfterPage(w, page), P)
<1> DEFINE here == Head(w.todo).prefix
           v == AfterPage(w, page)
<1>1. /\ Head(w.todo) \in Items /\ Holds(w.todo, Head(w.todo))
      /\ \A x : Holds(Tail(w.todo), x) => Holds(w.todo, x)
  BY TailIs DEF Led
<1>2. here \in Keys /\ IsPrefix(P, here)
  BY <1>1 DEF Led, Items
<1>3. \A d \in page.dirs : d \in Keys /\ IsPrefix(P, d)
  BY <1>2, PrefixesChain DEF GoodPage, IsStrictPrefix
<1>4. /\ v.todo \in Seq(Items)
      /\ \A x : Holds(v.todo, x) <=>
           \/ \E d \in page.dirs \ w.seen : x = [prefix |-> d, token |-> 0]
           \/ page.next # 0 /\ x = [prefix |-> here, token |-> page.next]
           \/ Holds(Tail(w.todo), x)
      /\ Apart(w.todo) /\ (\A x : Holds(w.todo, x) => x.prefix \in w.seen)
           => Apart(v.todo)
  BY TodoAfter DEF Led
<1>5. v.seen = w.seen \cup page.dirs
  BY DEF AfterPage
<1> HIDE DEF v
<1>6. \A x : Holds(v.todo, x) =>
        \/ x.prefix \in page.dirs
        \/ x.prefix = here
        \/ Holds(w.todo, x)
  <2> SUFFICES ASSUME NEW x, Holds(v.todo, x), ~Holds(w.todo, x)
               PROVE  x.prefix \in page.dirs \/ x.prefix = here
    OBVIOUS
  <2>1. CASE x = [prefix |-> here, token |-> page.next]
    BY <2>1
  <2>2. CASE \E d \in page.dirs \ w.seen : x = [prefix |-> d, token |-> 0]
    BY <2>2
  <2> QED
    BY <1>1, <1>4, <2>1, <2>2
<1>7. Led(v, P)
  BY <1>2, <1>3, <1>4, <1>6 DEF Led
<1>8. ASSUME Orderly(w, P) PROVE Orderly(v, P)
  <2>1. here \in w.seen
    BY <1>1, <1>8 DEF Orderly
  <2>2. Apart(v.todo) /\ \A x : Holds(v.todo, x) => x.prefix \in v.seen
    BY <1>4, <1>5, <1>6, <1>8, <2>1 DEF Orderly
  <2>3. P \in v.seen /\ \A s \in v.seen : s \in Keys /\ IsPrefix(P, s)
    BY <1>3, <1>5, <1>8 DEF Orderly
  <2> QED
    BY <2>2, <2>3 DEF Orderly
<1> QED
  BY <1>7, <1>8 DEF v

(* The files of a page of S3.                                              *)
LEMMA FilesAre ==
  ASSUME NEW p \in Keys, NEW token \in Nat, NEW page, PageSo(p, token, page),
         NEW o \in Objects
  PROVE  o \in page.files <=>
           /\ o \in bucket \cap Below(p) /\ ~IsFolder(o) /\ Len(o) = Len(p) + 1
           /\ Rank(o) > token /\ (page.next = 0 \/ Rank(o) <= page.next)
<1>1. ASSUME o \in page.files
      PROVE  /\ o \in bucket \cap Below(p) /\ ~IsFolder(o) /\ Len(o) = Len(p) + 1
             /\ Rank(o) > token /\ (page.next = 0 \/ Rank(o) <= page.next)
  <2>1. o \in Entries(p, token) /\ ~IsFolder(o) /\ Reaches(p, page, o)
    BY <1>1 DEF PageSo
  <2>2. PICK k \in bucket \cap Below(p) : o = Entry(p, k)
    BY <2>1, EntriesAre
  <2>3. o = k /\ Len(k) = Len(p) + 1
    BY <2>1, <2>2, BelowIs, EntryIs
  <2>4. Covered(p, o) = Rank(o) /\ Covered(p, o) > token
    BY <2>1, <2>2, <2>3, FileCovered, EntriesAre
  <2> QED
    BY <2>1, <2>2, <2>3, <2>4 DEF Reaches
<1>2. ASSUME o \in bucket \cap Below(p), ~IsFolder(o), Len(o) = Len(p) + 1,
             Rank(o) > token, page.next = 0 \/ Rank(o) <= page.next
      PROVE  o \in page.files
  <2>1. Entry(p, o) = o
    BY <1>2, BelowIs, EntryIs
  <2>2. Covered(p, o) = Rank(o)
    BY <1>2, <2>1, FileCovered
  <2>3. o \in Entries(p, token)
    BY <1>2, <2>1, <2>2 DEF Entries
  <2> QED
    BY <1>2, <2>2, <2>3 DEF PageSo, Reaches
<1> QED
  BY <1>1, <1>2

LEMMA OnceOn ==
  ASSUME NEW P \in Keys, NEW w, NEW page, NEW ever, w.todo # <<>>,
         Led(w, P), Orderly(w, P), Once(w, P, ever),
         PageSo(Head(w.todo).prefix, Head(w.todo).token, page),
         GoodPage(Head(w.todo).prefix, page), bucket \subseteq ever
  PROVE  Once(AfterPage(w, page), P, ever)
<1> DEFINE here == Head(w.todo).prefix
           token == Head(w.todo).token
           v == AfterPage(w, page)
<1>1. /\ Head(w.todo) \in Items /\ Holds(w.todo, Head(w.todo))
      /\ \A x : Holds(Tail(w.todo), x) => Holds(w.todo, x) /\ x.prefix # here
  BY TailIs DEF Led, Orderly
<1>2. /\ here \in Keys /\ token \in Nat /\ IsPrefix(P, here) /\ here \in w.seen
      /\ PageSo(here, token, page)
  BY <1>1 DEF Led, Items, Orderly
<1>3. \A x : Holds(v.todo, x) =>
        \/ \E d \in page.dirs \ w.seen : x = [prefix |-> d, token |-> 0]
        \/ page.next # 0 /\ x = [prefix |-> here, token |-> page.next]
        \/ Holds(Tail(w.todo), x)
  BY TodoAfter DEF Led
<1>4. \A x : Holds(v.todo, x) =>
        \/ x.prefix \notin w.seen
        \/ page.next # 0 /\ x.prefix = here /\ x.token = page.next
        \/ Holds(w.todo, x) /\ x.prefix # here
  <2> SUFFICES ASSUME NEW x, Holds(v.todo, x),
                      ~(Holds(w.todo, x) /\ x.prefix # here)
               PROVE  \/ x.prefix \notin w.seen
                      \/ page.next # 0 /\ x.prefix = here /\ x.token = page.next
    OBVIOUS
  <2>1. CASE page.next # 0 /\ x = [prefix |-> here, token |-> page.next]
    BY <2>1
  <2>2. CASE \E d \in page.dirs \ w.seen : x = [prefix |-> d, token |-> 0]
    BY <2>2
  <2> QED
    BY <1>1, <1>3, <2>1, <2>2
<1>5. /\ w.seen \subseteq v.seen
      /\ v.found = [o \in Objects |-> w.found[o] + (IF o \in page.files THEN 1 ELSE 0)]
  BY DEF AfterPage, Count
<1>6. page.next # 0 => page.next > token
  BY <1>2 DEF PageSo
<1>7. page.next \in Nat
  BY <1>2 DEF PageSo
<1> HIDE DEF here, token, v
<1> SUFFICES ASSUME NEW o \in Objects
             PROVE  /\ v.found[o] \in {0, 1}
                    /\ v.found[o] = 1 =>
                         /\ o \in ever \cap Below(P) /\ ~IsFolder(o)
                         /\ Front(o) \in v.seen
                         /\ \A x : Holds(v.todo, x) /\ x.prefix = Front(o)
                                     => Rank(o) <= x.token
  BY DEF Once, v
<1>8. Rank(o) \in Nat /\ o \in Keys
  BY ObjectsAre
<1>9. CASE o \in page.files
  <2>1. /\ o \in bucket \cap Below(here) /\ ~IsFolder(o) /\ Len(o) = Len(here) + 1
        /\ Rank(o) > token /\ (page.next = 0 \/ Rank(o) <= page.next)
    BY <1>2, <1>9, FilesAre
  <2>2. Front(o) = here /\ IsStrictPrefix(here, o)
    BY <1>2, <1>8, <2>1, BelowIs, OnePartMore
  <2>3. o \in Below(P)
    BY <1>2, <1>8, <2>2, PrefixesChain DEF Below
  <2>4. w.found[o] = 0
    <3>1. w.found[o] = 1 => Rank(o) <= token
      BY <1>1, <2>2 DEF Once, here, token
    <3> QED
      BY <1>2, <1>8, <2>1, <3>1 DEF Once
  <2>5. v.found[o] = 1
    BY <1>5, <1>9, <2>4
  <2>6. \A x : Holds(v.todo, x) /\ x.prefix = Front(o) => Rank(o) <= x.token
    BY <1>2, <1>4, <2>1, <2>2
  <2> QED
    BY <1>2, <1>5, <2>1, <2>2, <2>3, <2>5, <2>6
<1>10. CASE o \notin page.files
  <2>1. v.found[o] = w.found[o] /\ w.found[o] \in {0, 1}
    BY <1>5, <1>10 DEF Once
  <2>2. ASSUME w.found[o] = 1
        PROVE  /\ o \in ever \cap Below(P) /\ ~IsFolder(o) /\ Front(o) \in v.seen
               /\ \A x : Holds(v.todo, x) /\ x.prefix = Front(o) => Rank(o) <= x.token
    <3>1. /\ o \in ever \cap Below(P) /\ ~IsFolder(o) /\ Front(o) \in w.seen
          /\ \A x : Holds(w.todo, x) /\ x.prefix = Front(o) => Rank(o) <= x.token
      BY <2>2 DEF Once
    <3>2. Front(o) = here => Rank(o) <= token
      BY <1>1, <3>1 DEF here, token
    <3>3. page.next # 0 /\ Front(o) = here => Rank(o) <= page.next
      BY <1>2, <1>6, <1>7, <1>8, <3>2
    <3> QED
      BY <1>4, <1>5, <3>1, <3>3
  <2> QED
    BY <2>1, <2>2
<1> QED
  BY <1>9, <1>10

LEMMA ThoroughOn ==
  ASSUME NEW P \in Keys, NEW w, NEW page, NEW always, NEW ever, w.todo # <<>>,
         WalkInv(w, P, always, ever), Once(AfterPage(w, page), P, ever),
         PageSo(Head(w.todo).prefix, Head(w.todo).token, page),
         GoodPage(Head(w.todo).prefix, page), always \subseteq bucket
  PROVE  Thorough(AfterPage(w, page), P, always)
<1> DEFINE here == Head(w.todo).prefix
           token == Head(w.todo).token
           v == AfterPage(w, page)
<1>1. /\ Head(w.todo) \in Items /\ here \in Keys /\ token \in Nat
      /\ \A x : Holds(w.todo, x) => x = Head(w.todo) \/ Holds(Tail(w.todo), x)
  BY TailIs DEF WalkInv, Led, Items
<1>2. \A x : \/ \E d \in page.dirs \ w.seen : x = [prefix |-> d, token |-> 0]
             \/ page.next # 0 /\ x = [prefix |-> here, token |-> page.next]
             \/ Holds(Tail(w.todo), x)
             => Holds(v.todo, x)
  BY TodoAfter DEF WalkInv, Led
<1>3. /\ v.seen = w.seen \cup page.dirs
      /\ v.found = [o \in Objects |-> w.found[o] + (IF o \in page.files THEN 1 ELSE 0)]
  BY DEF AfterPage, Count
<1>4. PageSo(here, token, page) /\ GoodPage(here, page) /\ Once(v, P, ever)
  OBVIOUS
<1> HIDE DEF here, token, v
<1> SUFFICES ASSUME NEW o \in always \cap Below(P), ~IsFolder(o),
                    NEW s \in v.seen, IsStrictPrefix(s, o)
             PROVE  \/ ToCome(v, s, o)
                    \/ v.found[o] = 1
                    \/ Len(s) + 1 < Len(o) /\ OnTheWay(s, o) \in v.seen
  BY DEF Thorough, v
<1>5. /\ o \in Objects /\ o \in Keys /\ o \in bucket /\ s \in Keys /\ o \in Below(s)
      /\ w.found[o] \in {0, 1} /\ v.found[o] \in {0, 1}
  <2>1. o \in Objects /\ o \in Keys
    BY BelowIs
  <2>2. s \in Keys
    BY <1>3, <1>4 DEF WalkInv, Orderly, GoodPage
  <2> QED
    BY <1>4, <2>1, <2>2 DEF Below, WalkInv, Once
<1>6. w.found[o] = 1 \/ o \in page.files => v.found[o] = 1
  BY <1>3, <1>5
<1>7. CASE s \notin w.seen
  <2> DEFINE x == [prefix |-> s, token |-> 0]
  <2>1. x \in Items /\ x.prefix = s /\ x.token = 0
    BY <1>5 DEF Items
  <2>2. Holds(v.todo, x)
    BY <1>2, <1>3, <1>7
  <2> HIDE DEF x
  <2> QED
    BY <1>5, <2>1, <2>2, CoveredIs DEF ToCome
<1>8. CASE s \in w.seen /\ ToCome(w, s, o)
  <2>1. PICK x \in Items : /\ Holds(w.todo, x) /\ x.prefix = s
                           /\ x.token < Covered(s, Entry(s, o))
    BY <1>8 DEF ToCome
  <2>2. CASE Holds(Tail(w.todo), x)
    BY <1>2, <2>1, <2>2 DEF ToCome
  <2>3. CASE x = Head(w.todo)
    <3> DEFINE e == Entry(here, o)
    <3>1. s = here /\ token < Covered(here, e)
      BY <2>1, <2>3 DEF here, token
    <3>2. Covered(here, e) \in Nat
      BY <1>1, <1>5, <3>1, CoveredIs
    <3>3. e \in Entries(here, token)
      BY <1>1, <1>5, <3>1, <3>2 DEF Entries
    <3>4. CASE ~Reaches(here, page, e)
      <4> DEFINE y == [prefix |-> here, token |-> page.next]
      <4>1. page.next # 0 /\ page.next \in Nat /\ page.next < Covered(here, e)
        BY <1>4, <3>2, <3>4 DEF Reaches, PageSo
      <4>2. y \in Items /\ y.prefix = here /\ y.token = page.next
        BY <1>1, <4>1 DEF Items
      <4>3. Holds(v.todo, y)
        BY <1>2, <4>1
      <4> HIDE DEF y
      <4> QED
        BY <3>1, <4>1, <4>2, <4>3 DEF ToCome
    <3>5. CASE Reaches(here, page, e) /\ ~IsFolder(e)
      <4>1. e = o
        BY <1>1, <1>5, <3>1, <3>5, BelowIs, EntryIs
      <4>2. o \in page.files
        BY <1>4, <3>3, <3>5, <4>1 DEF PageSo
      <4> QED
        BY <1>6, <4>2
    <3>6. CASE Reaches(here, page, e) /\ IsFolder(e)
      <4>1. Folder(here, e) \in page.dirs
        BY <1>4, <3>3, <3>6 DEF PageSo
      <4>2. /\ Folder(here, e) = OnTheWay(here, o) /\ Len(here) + 1 \in 1..Len(o)
            /\ Len(o) = Len(here) + 1 => e = o
        BY <1>1, <1>5, <3>1, <3>6, BelowIs, EntryIs DEF OnTheWay
      <4>3. Len(here) + 1 < Len(o)
        <5>1. Len(here) \in Nat /\ Len(o) \in Nat /\ Len(o) # Len(here) + 1
          BY <1>1, <1>5, <3>6, <4>2, LenProperties DEF Keys
        <5> QED
          BY <4>2, <5>1
      <4> QED
        BY <1>3, <3>1, <4>1, <4>2, <4>3
    <3> QED
      BY <3>4, <3>5, <3>6
  <2> QED
    BY <1>1, <2>1, <2>2, <2>3
<1>9. CASE s \in w.seen /\ ~ToCome(w, s, o)
  <2>1. w.found[o] = 1 \/ (Len(s) + 1 < Len(o) /\ OnTheWay(s, o) \in w.seen)
    BY <1>9 DEF WalkInv, Thorough
  <2> QED
    BY <1>3, <1>6, <2>1
<1> QED
  BY <1>7, <1>8, <1>9

LEMMA WalkOn ==
  ASSUME NEW P \in Keys, NEW w, NEW max \in Nat \ {0}, NEW always, NEW ever,
         w.todo # <<>>, WalkInv(w, P, always, ever),
         always \subseteq bucket, bucket \subseteq ever
  PROVE  WalkInv(AfterPage(w, AwsPage(Head(w.todo).prefix, Head(w.todo).token, max)),
                 P, always, ever)
<1> DEFINE here == Head(w.todo).prefix
           token == Head(w.todo).token
           page == AwsPage(here, token, max)
<1>1. here \in Keys /\ token \in Nat
  BY TailIs DEF WalkInv, Led, Items
<1>2. PageSo(here, token, page) /\ GoodPage(here, page)
  BY <1>1, AwsPageIs, AwsPageGood
<1> HIDE DEF page
<1>3. Led(AfterPage(w, page), P) /\ Orderly(AfterPage(w, page), P)
  BY <1>2, LedOn DEF WalkInv
<1>4. Once(AfterPage(w, page), P, ever)
  BY <1>2, OnceOn DEF WalkInv
<1>5. Thorough(AfterPage(w, page), P, always)
  BY <1>2, <1>4, ThoroughOn
<1> QED
  BY <1>3, <1>4, <1>5 DEF WalkInv, page

(* A walk that has come to its end has found all there was.                *)
LEMMA WalkEnds ==
  ASSUME NEW P \in Keys, NEW w, NEW always, NEW ever,
         w.todo = <<>>, WalkInv(w, P, always, ever),
         NEW o \in always \cap Below(P), ~IsFolder(o)
  PROVE  w.found[o] = 1
<1> DEFINE begun == {n \in 0..(Len(o) - 1) : SubSeq(o, 1, n) \in w.seen}
<1>1. /\ o \in Keys /\ Len(o) \in Nat /\ Len(P) \in Nat
      /\ Len(P) < Len(o) /\ P = SubSeq(o, 1, Len(P))
  BY BelowIs, StrictPrefixIs, LenProperties DEF Keys
<1>2. Len(P) \in begun
  <2>1. SubSeq(o, 1, Len(P)) \in w.seen
    BY <1>1 DEF WalkInv, Orderly
  <2>2. Len(P) \in 0..(Len(o) - 1)
    BY <1>1
  <2> QED
    BY <2>1, <2>2
<1>3. begun \subseteq Nat /\ \A n \in begun : n <= Len(o)
  BY <1>1
<1>4. PICK n \in begun : \A k \in begun : k <= n
  <2> HIDE DEF begun
  <2> QED
    BY <1>1, <1>2, <1>3, HasGreatest
<1> DEFINE s == SubSeq(o, 1, n)
<1>5. /\ n \in Nat /\ n \in 0..Len(o) /\ n < Len(o) /\ s \in w.seen
  BY <1>1
<1>6. s \in Keys /\ Len(s) = n
  BY <1>1, <1>5, CutIs
<1>7. IsStrictPrefix(s, o)
  <2>1. Len(s) < Len(o) /\ s = SubSeq(o, 1, Len(s))
    BY <1>5, <1>6
  <2> HIDE DEF s
  <2> QED
    BY <1>1, <1>6, <2>1, StrictPrefixIs
<1>8. ~ToCome(w, s, o)
  BY DEF ToCome, Holds
<1>9. ~(Len(s) + 1 < Len(o) /\ OnTheWay(s, o) \in w.seen)
  <2>1. ASSUME n + 1 < Len(o), SubSeq(o, 1, n + 1) \in w.seen PROVE FALSE
    <3>1. n + 1 \in begun
      BY <1>1, <1>5, <2>1
    <3> HIDE DEF begun
    <3> QED
      BY <1>4, <1>5, <3>1
  <2> QED
    BY <1>6, <2>1 DEF OnTheWay
<1> QED
  BY <1>5, <1>7, <1>8, <1>9 DEF WalkInv, Thorough

-----------------------------------------------------------------------------
(* What ListingIsExact says of a listing a that went along w, when always  *)
(* and ever were there.                                                    *)

Due(a) ==
  {o \in Below(NormalizePrefix(a.key)) :
     ~IsFolder(o) /\ (a.route = "list" => Len(o) = Len(NormalizePrefix(a.key)) + 1)}

Fitting(a, ever) ==
  Cardinality({Entry(NormalizePrefix(a.key), o) :
                 o \in ever \cap Below(NormalizePrefix(a.key))}) <= a.max

Exact(a, w, always, ever) ==
  /\ \A o \in Objects : w.found[o] > 0 => o \in Due(a) \cap ever
  /\ \A o \in Objects : w.found[o] <= 1
  /\ a.route = "listAll" \/ Fitting(a, ever)
       => \A o \in Due(a) \cap always : w.found[o] = 1

LEMMA PrefixesAre ==
  ASSUME NEW a \in Ask
  PROVE  /\ NormalizePrefix(a.key) \in Keys /\ <<Databank>> \in Keys
         /\ IsPrefix(<<Databank>>, NormalizePrefix(a.key))
<1> DEFINE d == <<Databank>>
           long == d \o a.key
<1>1. a.key \in Keys
  <2>1. a.key \in Seq(STRING)
    BY DEF Ask
  <2>2. STRING \subseteq Parts
    BY DEF Parts
  <2> QED
    BY <2>1, <2>2, SeqMonotonic DEF Keys
<1>2. d \in Keys /\ Len(d) = 1
  <2>1. Databank \in Parts
    BY StorageAssumption DEF Parts
  <2> QED
    BY ONLY <2>1 DEF Keys
<1> HIDE DEF d
<1>3. long \in Keys /\ Len(d) <= Len(long) /\ \A i \in 1..Len(d) : long[i] = d[i]
  <2>1. /\ long \in Keys /\ Len(long) = Len(d) + Len(a.key)
        /\ \A i \in 1..(Len(d) + Len(a.key)) :
             long[i] = IF i <= Len(d) THEN d[i] ELSE a.key[i - Len(d)]
    BY <1>1, <1>2, ConcatProperties DEF Keys
  <2>2. Len(a.key) \in Nat
    BY <1>1, LenProperties DEF Keys
  <2> QED
    BY <1>2, <2>1, <2>2
<1>4. IsPrefix(d, long)
  <2> DEFINE s == SubSeq(long, 1, Len(d))
  <2> HIDE DEF long
  <2>1. Len(d) \in 0..Len(long)
    BY <1>2, <1>3, LenProperties DEF Keys
  <2>2. s \in Keys /\ Len(s) = Len(d) /\ \A i \in 1..Len(d) : s[i] = long[i]
    BY <1>3, <2>1, CutIs
  <2> HIDE DEF s
  <2>3. s = d
    BY <1>2, <1>3, <2>2, SeqEqual DEF Keys
  <2> QED
    BY <1>2, <1>3, <2>3, PrefixIs DEF s
<1> DEFINE whole == NormalizeKey(a.key)
<1>5. whole \in Keys /\ IsPrefix(d, whole)
  BY <1>1, <1>3, <1>4 DEF NormalizeKey, d
<1> HIDE DEF whole
<1>7. CASE ~IsFolder(whole)
  BY <1>2, <1>5, <1>7 DEF NormalizePrefix, whole, d
<1>8. CASE IsFolder(whole)
  <2> DEFINE n == Len(whole) - 1
             cut == SubSeq(whole, 1, n)
  <2>1. Len(whole) \in Nat /\ 1 <= Len(whole) /\ d = SubSeq(whole, 1, 1)
    BY <1>2, <1>5, PrefixIs, LenProperties DEF Keys
  <2>2. Len(whole) # 1
    <3>1. SUFFICES ASSUME Len(whole) = 1 PROVE FALSE
      OBVIOUS
    <3>2. whole[1] = ""
      BY <1>8, <3>1 DEF IsFolder, Last
    <3>3. SubSeq(whole, 1, 1)[1] = whole[1]
      <4>1. 1 \in 0..Len(whole) /\ 1 \in 1..1
        BY <2>1
      <4> QED
        BY <1>5, <4>1, CutIs
    <3>4. d[1] = ""
      BY <2>1, <3>2, <3>3, Zenon
    <3>5. d[1] = Databank
      BY DEF d
    <3> QED
      BY <3>4, <3>5, StorageAssumption
  <2>3. n \in 0..Len(whole) /\ 1 \in 0..n
    BY <2>1, <2>2
  <2>4. cut \in Keys /\ IsPrefix(d, cut)
    BY <1>5, <2>1, <2>3, CutIs, CutsNest
  <2>5. NormalizePrefix(a.key) = cut
    BY <1>8 DEF NormalizePrefix, Front, whole
  <2> QED
    BY <1>2, <2>4, <2>5 DEF d
<1> QED
  BY <1>7, <1>8

(* A walk that has come to its end.                                        *)
LEMMA AllWalked ==
  ASSUME NEW a \in Ask, a.route = "listAll", NEW w, NEW always, NEW ever,
         w.todo = <<>>, WalkInv(w, NormalizePrefix(a.key), always, ever)
  PROVE  Exact(a, w, always, ever)
<1> DEFINE P == NormalizePrefix(a.key)
<1>1. P \in Keys /\ Below(P) \subseteq Objects
  BY PrefixesAre, BelowIs
<1>2. Due(a) = {o \in Below(P) : ~IsFolder(o)}
  BY DEF Due
<1>3. Once(w, P, ever) /\ WalkInv(w, P, always, ever)
  BY DEF WalkInv
<1> HIDE DEF P
<1>4. ASSUME NEW o \in Objects
      PROVE  w.found[o] <= 1 /\ (w.found[o] > 0 => o \in Due(a) \cap ever)
  <2>1. w.found[o] \in {0, 1}
    BY <1>3 DEF Once
  <2>2. CASE w.found[o] = 0
    BY <2>2
  <2>3. CASE w.found[o] = 1
    <3>1. o \in ever \cap Below(P) /\ ~IsFolder(o)
      BY <1>3, <2>3 DEF Once
    <3> QED
      BY <1>2, <2>3, <3>1
  <2> QED
    BY <2>1, <2>2, <2>3
<1>5. \A o \in Due(a) \cap always : w.found[o] = 1
  BY <1>1, <1>2, <1>3, WalkEnds
<1> QED
  BY <1>4, <1>5 DEF Exact

(* All that is left fits a page.                                           *)
LEMMA PageFits ==
  ASSUME NEW p \in Keys, NEW token \in Nat, NEW max \in Nat,
         Cardinality(Entries(p, token)) <= max
  PROVE  AwsPage(p, token, max).next = 0
<1> DEFINE all == Entries(p, token)
<1>1. ASSUME NEW e \in all PROVE Cardinality(UpTo(p, all, e)) <= max
  <2>1. UpTo(p, all, e) \in SUBSET all /\ IsFiniteSet(all)
    BY EntriesAre DEF UpTo
  <2>2. /\ Cardinality(UpTo(p, all, e)) <= Cardinality(all)
        /\ Cardinality(UpTo(p, all, e)) \in Nat /\ Cardinality(all) \in Nat
    BY <2>1, FS_Subset, FS_CardinalityType
  <2> QED
    BY <2>2
<1>2. OnPage(p, all, max) = all
  BY <1>1 DEF OnPage
<1>3. AwsPage(p, token, max).next =
        IF OnPage(p, all, max) = all THEN 0
        ELSE Max({Covered(p, e) : e \in OnPage(p, all, max)})
  BY DEF AwsPage, ConvertToS3Objects, OnPage, UpTo
<1> QED
  BY <1>2, <1>3

(* A plain listing is the first page.                                      *)
LEMMA FirstPage ==
  ASSUME NEW a \in Ask, a.route = "list", NEW always, NEW ever,
         always \subseteq bucket, bucket \subseteq ever
  PROVE  LET P == NormalizePrefix(a.key)
         IN  Exact(a, AfterPage(Start(P), AwsPage(P, 0, a.max)), always, ever)
<1> DEFINE P == NormalizePrefix(a.key)
           page == AwsPage(P, 0, a.max)
           w == AfterPage(Start(P), page)
<1>1. P \in Keys /\ Below(P) \subseteq Objects /\ a.max \in Nat \ {0}
  BY PrefixesAre, BelowIs DEF Ask
<1>2. PageSo(P, 0, page)
  BY <1>1, AwsPageIs
<1>3. w.found = [o \in Objects |-> 0 + (IF o \in page.files THEN 1 ELSE 0)]
  BY DEF AfterPage, Start, Count
<1>4. Due(a) = {o \in Below(P) : ~IsFolder(o) /\ Len(o) = Len(P) + 1}
  BY DEF Due
<1>5. Fitting(a, ever) => page.next = 0
  <2> DEFINE image(S) == {Entry(P, o) : o \in S \cap Below(P)}
             one == [o \in ever \cap Below(P) |-> Entry(P, o)]
  <2>1. one \in Surjection(ever \cap Below(P), image(ever))
    BY DEF Surjection
  <2>2. ever \cap Below(P) \in SUBSET Below(P)
    OBVIOUS
  <2>3. IsFiniteSet(image(ever))
    BY <1>1, <2>1, <2>2, BelowIs, FS_Subset, FS_Surjection
  <2>4. Entries(P, 0) \in SUBSET image(ever)
    BY DEF Entries
  <2>5. /\ Cardinality(Entries(P, 0)) <= Cardinality(image(ever))
        /\ Cardinality(Entries(P, 0)) \in Nat /\ Cardinality(image(ever)) \in Nat
    BY <2>3, <2>4, FS_Subset, FS_CardinalityType
  <2>6. Fitting(a, ever) => Cardinality(image(ever)) <= a.max
    BY DEF Fitting
  <2> HIDE DEF image
  <2>7. Fitting(a, ever) => Cardinality(Entries(P, 0)) <= a.max
    BY <1>1, <2>5, <2>6
  <2> QED
    BY <1>1, <2>7, PageFits
<1> HIDE DEF P, page, w
<1>6. ASSUME NEW o \in Objects
      PROVE  /\ w.found[o] <= 1 /\ (w.found[o] > 0 => o \in Due(a) \cap ever)
             /\ o \in page.files => w.found[o] = 1
  <2>1. CASE o \in page.files
    <3>1. o \in bucket \cap Below(P) /\ ~IsFolder(o) /\ Len(o) = Len(P) + 1
      BY <1>1, <1>2, <2>1, FilesAre
    <3>2. w.found[o] = 1
      BY <1>3, <2>1
    <3> QED
      BY <1>4, <3>1, <3>2
  <2>2. CASE o \notin page.files
    BY <1>3, <2>2
  <2> QED
    BY <2>1, <2>2
<1>7. ASSUME Fitting(a, ever), NEW o \in Due(a) \cap always
      PROVE  w.found[o] = 1
  <2>1. o \in Objects /\ o \in bucket \cap Below(P) /\ ~IsFolder(o)
        /\ Len(o) = Len(P) + 1
    BY <1>1, <1>4, <1>7
  <2>2. Rank(o) > 0
    BY <2>1, ObjectsAre
  <2>3. o \in page.files
    BY <1>1, <1>2, <1>5, <1>7, <2>1, <2>2, FilesAre
  <2> QED
    BY <1>6, <2>1, <2>3
<1>8. a.route # "listAll"
  OBVIOUS
<1>9. Exact(a, w, always, ever)
  BY <1>6, <1>7, <1>8 DEF Exact
<1> QED
  BY <1>9 DEF P, page, w

-----------------------------------------------------------------------------
(* Where listings are                                                      *)

Listings == {"list", "listAll"}

(* On its way: a plain listing has not begun, and one of S3 has missed     *)
(* nothing so far.                                                         *)
OnWalk(a, q, provider) ==
  /\ Led(q.walk, NormalizePrefix(a.key)) /\ q.walk.todo # <<>>
  /\ a.route = "list" => q.walk = Start(NormalizePrefix(a.key))
  /\ provider = "aws" => WalkInv(q.walk, NormalizePrefix(a.key), q.always, q.ever)

Walked(a, q, provider) ==
  /\ q.pc \in Gating \cup {"work"} => OnWalk(a, q, provider)
  /\ q.pc = "answered" /\ q.status = 200 /\ provider = "aws" =>
       Exact(a, q.walk, q.always, q.ever)
  /\ q.pc = "hung" =>
       /\ provider = "minio"
       /\ Cardinality(q.ever \cap Below(<<Databank>>)) >= a.max

(* The other routes.                                                       *)
Rested(a, q) == q.pc = "hung" => a.route = "download" /\ q.hit

(* What a running request knows of the bucket.                             *)
Watched(r) ==
  Active(r) => request[r].always \subseteq bucket /\ bucket \subseteq request[r].ever

Trodden(r) ==
  request[r].ask # {} =>
    /\ AskOf(r).route \in Listings => Walked(AskOf(r), request[r], config.provider)
    /\ AskOf(r).route \notin Listings => Rested(AskOf(r), request[r])

WalksInv == \A r \in Requests : Watched(r) /\ Trodden(r)

(* A listing of MinIO that does not end has all those objects below the    *)
(* databank.                                                               *)
LEMMA HangsFull ==
  ASSUME NEW a \in Ask, NEW w, Led(w, NormalizePrefix(a.key)), w.todo # <<>>,
         NEW ever \in SUBSET Objects, bucket \subseteq ever,
         MinioHangs(Head(w.todo).prefix, a.max)
  PROVE  Cardinality(ever \cap Below(<<Databank>>)) >= a.max
<1> DEFINE P == NormalizePrefix(a.key)
           d == <<Databank>>
           here == Head(w.todo).prefix
           few == bucket \cap Below(here)
           many == ever \cap Below(d)
<1>1. P \in Keys /\ d \in Keys /\ IsPrefix(d, P) /\ a.max \in Nat
  BY PrefixesAre DEF Ask
<1>2. here \in Keys /\ IsPrefix(P, here)
  BY TailIs DEF Led, Items
<1> HIDE DEF P, d, here
<1>3. \A o \in Below(here) : o \in Below(d)
  BY <1>1, <1>2, BelowIs, PrefixesChain DEF Below
<1>4. IsFiniteSet(many)
  <2>1. many \in SUBSET Below(d)
    OBVIOUS
  <2> QED
    BY <1>1, <2>1, BelowIs, FS_Subset
<1>5. few \in SUBSET many
  BY <1>3
<1>6. /\ Cardinality(few) <= Cardinality(many) /\ IsFiniteSet(few)
      /\ Cardinality(few) \in Nat /\ Cardinality(many) \in Nat
  BY <1>4, <1>5, FS_Subset, FS_CardinalityType
<1>7. Cardinality(few) >= a.max
  BY DEF MinioHangs, here
<1> QED
  BY <1>1, <1>6, <1>7 DEF d

-----------------------------------------------------------------------------
(* Gates set listings out                                                  *)

(* No gate refuses with 200.                                               *)
Plausible(v) ==
  /\ v.to \in Gating \cup {"pass", "refuse"}
  /\ v.to = "refuse" => v.status # 200

LEMMA VerdictsPlausible ==
  /\ \A gate \in Gates : Plausible(FirstQuestion(gate))
  /\ \A reply : Plausible(CheckItemAccess(reply))
  /\ \A u, reply : Plausible(CheckItemAccessWithDatabankAccess(u, reply))
  /\ \A u, reply : Plausible(CheckIsOwner(u, reply))
  /\ \A u, fails : Plausible(DatabankAccess(u, fails))
<1>1. /\ Plausible(Pass) /\ \A s : s # 200 => Plausible(Refuse(s))
      /\ \A pc \in Gating : Plausible(AskFor(pc))
  BY Verdicts DEF Plausible, Gating
<1>2. /\ Plausible(Refuse(400)) /\ Plausible(Refuse(401)) /\ Plausible(Refuse(403))
      /\ Plausible(Refuse(503))
      /\ Plausible(AskFor("owner")) /\ Plausible(AskFor("acl"))
      /\ Plausible(AskFor("item")) /\ Plausible(AskFor("read"))
  BY <1>1 DEF Gating
<1>3. Plausible(BeforeOwner)
  BY <1>2 DEF BeforeOwner
<1>4. \A reply : Plausible(CatalogueFailure(reply))
  BY <1>2 DEF CatalogueFailure
<1>5. ASSUME NEW gate \in Gates PROVE Plausible(FirstQuestion(gate))
  <2>1. CASE ~config.authz \/ gate = "none"
    <3>1. FirstQuestion(gate) = Pass
      BY <2>1 DEF FirstQuestion
    <3> QED
      BY <1>1, <3>1
  <2>2. CASE config.authz /\ gate = "owner"
    <3>1. FirstQuestion(gate) = BeforeOwner
      BY <2>2 DEF FirstQuestion
    <3> QED
      BY <1>3, <3>1
  <2>3. CASE config.authz /\ gate \in {"item", "read"}
    <3>1. FirstQuestion(gate) = AskFor(gate)
      BY <2>3 DEF FirstQuestion
    <3> QED
      BY <1>2, <2>3, <3>1
  <2> QED
    BY <2>1, <2>2, <2>3 DEF Gates
<1>6. ASSUME NEW u, NEW reply
      PROVE  /\ Plausible(CheckItemAccess(reply))
             /\ Plausible(CheckItemAccessWithDatabankAccess(u, reply))
             /\ Plausible(CheckIsOwner(u, reply))
  <2>1. CheckItemAccess(reply) \in {Pass, CatalogueFailure(reply)}
    BY DEF CheckItemAccess
  <2>2. CheckItemAccessWithDatabankAccess(u, reply)
          \in {Pass, CatalogueFailure(reply), Refuse(401), AskFor("acl")}
    BY DEF CheckItemAccessWithDatabankAccess
  <2>3. CheckIsOwner(u, reply) \in {Pass, CatalogueFailure(reply), Refuse(403)}
    <3>1. CASE reply = "item"
      <4>1. CheckIsOwner(u, reply) = IF item.owner = u THEN Pass ELSE Refuse(403)
        BY <3>1, Zenon DEF CheckIsOwner
      <4> QED
        BY <4>1
    <3>2. CASE reply = "none"
      <4>1. CheckIsOwner(u, reply) = Refuse(403)
        BY <3>2 DEF CheckIsOwner
      <4> QED
        BY <4>1
    <3>3. CASE reply \notin {"item", "none"}
      <4>1. CheckIsOwner(u, reply) = CatalogueFailure(reply)
        BY <3>3 DEF CheckIsOwner
      <4> QED
        BY <4>1
    <3> QED
      BY <3>1, <3>2, <3>3
  <2> QED
    BY <1>1, <1>2, <1>4, <2>1, <2>2, <2>3
<1>7. ASSUME NEW u, NEW fails PROVE Plausible(DatabankAccess(u, fails))
  <2>1. DatabankAccess(u, fails) \in {Pass, BeforeOwner}
    BY DEF DatabankAccess
  <2> QED
    BY <1>1, <1>3, <2>1
<1> QED
  BY <1>5, <1>6, <1>7

(* What a gate makes of the request r: it sets out on its walk when it     *)
(* comes, and has seen what is in the bucket then.                         *)
SetsOut(r, q) ==
  /\ Whole(q) /\ q.ask = request[r].ask
  /\ q.pc \in Gating \cup {"work", "answered"}
  /\ q.pc = "answered" => q.status # 200
  /\ \/ /\ request[r].pc = "new" /\ q.always = bucket /\ q.ever = bucket
        /\ q.walk = Start(NormalizePrefix(AskOf(r).key))
     \/ /\ request[r].pc \in Gating
        /\ q.always = request[r].always /\ q.ever = request[r].ever
        /\ q.walk = request[r].walk

LEMMA JudgedSetsOut ==
  ASSUME NEW q, Whole(q), q.status = 0, NEW a, NEW v, Plausible(v)
  PROVE  LET j == Judged(q, a, v) IN
         /\ Whole(j) /\ j.ask = q.ask
         /\ j.pc \in Gating \cup {"work", "answered"}
         /\ j.pc = "answered" => j.status # 200
         /\ j.always = q.always /\ j.ever = q.ever /\ j.walk = q.walk
<1> DEFINE j == Judged(q, a, v)
<1>1. JudgedSo(q, a, v, j)
  BY JudgedIs
<1> HIDE DEF j
<1>2. j.pc \in Gating \cup {"work", "answered"} /\ (j.pc = "answered" => j.status # 200)
  <2>1. CASE v.to = "pass"
    BY <1>1, <2>1 DEF JudgedSo
  <2>2. CASE v.to = "refuse"
    BY <1>1, <2>2 DEF JudgedSo, Plausible
  <2>3. CASE v.to \in Gating
    BY <1>1, <2>3 DEF JudgedSo, Gating
  <2> QED
    BY <2>1, <2>2, <2>3 DEF Plausible
<1> QED
  BY <1>1, <1>2 DEF JudgedSo, j

LEMMA GatesSetOut ==
  ASSUME GateInv, NEW r \in Requests, GateAct(r)
  PROVE  \E q : SetsOut(r, q) /\ MovesTo(r, q)
<1> DEFINE a == AskOf(r)
<1>1. Gated(r)
  BY GatesJudge
<1>2. /\ request[r].ask # {} /\ request[r].pc \in {"new"} \cup Gating
      /\ Whole(request[r]) /\ request[r].status = 0
  <2>1. request[r].pc \in {"new"} \cup Gating /\ request[r].pc # "answered"
    BY <1>1 DEF Gated, Gating
  <2> QED
    BY <1>1, <2>1 DEF Gated, GateInv, Placed, Shape
<1>3. a.route \in DOMAIN Route
  BY <1>2, AskOfType
<1>4. CASE Enter(r)
  <2> DEFINE q == [request[r] EXCEPT !.always = bucket, !.ever = bucket,
                    !.walk = Start(NormalizePrefix(a.key))]
             next == IF Before(a) # 0 THEN Answered(q, Before(a))
                     ELSE Judged(q, a, FirstQuestion(Route[a.route].gate))
  <2>1. Goes(r, next, FALSE) /\ request[r].pc = "new"
    BY <1>4 DEF Enter, At
  <2>2. /\ Whole(q) /\ q.status = 0 /\ q.ask = request[r].ask
        /\ q.always = bucket /\ q.ever = bucket
        /\ q.walk = Start(NormalizePrefix(a.key))
    BY <1>2 DEF Whole, Fields
  <2> HIDE DEF q
  <2>3. CASE Before(a) # 0
    <3>1. Before(a) # 200
      BY BeforeChecks
    <3>2. next = Answered(q, Before(a))
      BY <2>3
    <3>3. SetsOut(r, next)
      BY <2>1, <2>2, <3>1, <3>2, AnsweredIs DEF SetsOut
    <3> QED
      BY <2>1, <3>3, GoesMoves
  <2>4. CASE Before(a) = 0
    <3>1. Plausible(FirstQuestion(Route[a.route].gate))
      BY <1>3, Routes, VerdictsPlausible
    <3>2. next = Judged(q, a, FirstQuestion(Route[a.route].gate))
      BY <2>4
    <3>3. SetsOut(r, next)
      BY <2>1, <2>2, <3>1, <3>2, JudgedSetsOut DEF SetsOut
    <3> QED
      BY <2>1, <3>3, GoesMoves
  <2> QED
    BY <2>3, <2>4
<1>5. ASSUME request[r].pc \in Gating, NEW v, Plausible(v), NEW fails \in BOOLEAN,
             Goes(r, Judged(request[r], a, v), fails)
      PROVE  \E q : SetsOut(r, q) /\ MovesTo(r, q)
  <2>1. SetsOut(r, Judged(request[r], a, v))
    BY <1>2, <1>5, JudgedSetsOut DEF SetsOut
  <2>2. \/ Goes(r, Judged(request[r], a, v), TRUE)
        \/ Goes(r, Judged(request[r], a, v), FALSE)
    BY <1>5, Zenon
  <2> QED
    BY <2>1, <2>2, GoesMoves
<1>6. CASE AskCatalogue(r)
  <2> DEFINE V(reply) ==
               CASE At(r, {"item"}) -> CheckItemAccess(reply)
                 [] At(r, {"owner"}) -> CheckIsOwner(a.user, reply)
                 [] OTHER -> CheckItemAccessWithDatabankAccess(a.user, reply)
  <2>1. request[r].pc \in {"item", "read", "owner"} /\ request[r].pc \in Gating
    BY <1>6 DEF AskCatalogue, At, Gating
  <2>2. PICK fails \in BOOLEAN :
          \E reply \in Replies(fails) : Goes(r, Judged(request[r], a, V(reply)), fails)
    BY <1>6, Zenon DEF AskCatalogue
  <2>3. PICK reply \in Replies(fails) : Goes(r, Judged(request[r], a, V(reply)), fails)
    BY <2>2, Zenon
  <2>4. V(reply) \in {CheckItemAccess(reply), CheckIsOwner(a.user, reply),
                      CheckItemAccessWithDatabankAccess(a.user, reply)}
    BY <2>1 DEF At
  <2>5. Plausible(V(reply))
    BY <2>4, VerdictsPlausible
  <2> HIDE DEF V
  <2> QED
    BY <1>5, <2>1, <2>3, <2>5, Zenon
<1>7. CASE AskAcl(r)
  <2>1. request[r].pc \in Gating
    BY <1>7 DEF AskAcl, At, Gating
  <2>2. PICK fails \in BOOLEAN :
          Goes(r, Judged(request[r], a, DatabankAccess(a.user, fails)), fails)
    BY <1>7, Zenon DEF AskAcl
  <2>3. Plausible(DatabankAccess(a.user, fails))
    BY VerdictsPlausible
  <2> QED
    BY <1>5, <2>1, <2>2, <2>3, Zenon
<1> QED
  BY <1>4, <1>6, <1>7 DEF GateAct

-----------------------------------------------------------------------------
(* What handlers leave without an end                                      *)

(* A step of the request r alone, to q.                                    *)
GoesTo(r, q) == Goes(r, q, TRUE) \/ Goes(r, q, FALSE)

LEMMA MovesLast ==
  ASSUME Shape, NEW r \in Requests, NEW q, Whole(q), MovesTo(r, q)
  PROVE  request'[r].pc = q.pc
BY Moved DEF Next_

LEMMA GoesLast ==
  ASSUME Shape, NEW r \in Requests, NEW q, Whole(q), GoesTo(r, q)
  PROVE  request'[r].pc = q.pc
BY GoesMoves, MovesLast DEF GoesTo

LEMMA SaysLast ==
  ASSUME Shape, NEW r \in Requests, NEW s, GoesTo(r, Says(r, s))
  PROVE  request'[r].pc # "hung"
<1>1. Whole(Says(r, s)) /\ Says(r, s).pc = "answered"
  BY SaysIs
<1> QED
  BY <1>1, GoesLast

LEMMA ToLast ==
  ASSUME Shape, NEW r \in Requests, NEW pc, pc # "hung", GoesTo(r, To(r, pc))
  PROVE  request'[r].pc # "hung"
<1>1. Whole(To(r, pc)) /\ To(r, pc).pc = pc
  BY ToIs
<1> QED
  BY <1>1, GoesLast

LEMMA ThrowsLast ==
  ASSUME Shape, NEW r \in Requests, Throws(r)
  PROVE  request'[r].pc # "hung"
BY SaysLast DEF Throws, GoesTo

LEMMA AsksGo ==
  ASSUME NEW r, NEW found, NEW missing, Asks(r, found, missing)
  PROVE  GoesTo(r, found) \/ GoesTo(r, missing)
BY DEF Asks, GoesTo

LEMMA WritesLast ==
  ASSUME Shape, NEW r \in Requests, NEW s,
         \/ StepTo(r, Says(r, s), FALSE)
         \/ \E e \in Failures : StepTo(r, Says(r, StatusOf(e)), TRUE)
  PROVE  request'[r].pc # "hung"
<1>1. PICK t : StepTo(r, Says(r, t), FALSE) \/ StepTo(r, Says(r, t), TRUE)
  OBVIOUS
<1>2. Whole(Says(r, t)) /\ Says(r, t).pc = "answered"
  BY SaysIs
<1>3. MovesTo(r, Says(r, t))
  BY <1>1 DEF MovesTo
<1> QED
  BY <1>2, <1>3, MovesLast

LEMMA ReadsLast ==
  ASSUME Shape, NEW r \in Requests,
         \/ Metadata(r) \/ Download(r) \/ Preview(r) \/ Parse(r)
         \/ CheckZip(r) \/ CheckReport(r) \/ CheckAsset(r)
  PROVE  request'[r].pc # "hung"
<1> DEFINE S(s) == Says(r, s)
           T(pc) == To(r, pc)
<1>1. \/ Throws(r)
      \/ \E s : GoesTo(r, S(s))
      \/ \E pc \in {"stream", "create", "sign"} : GoesTo(r, T(pc))
  <2>1. CASE Metadata(r)
    <3>1. \/ Asks(r, S(200), S(404)) \/ Asks(r, S(200), S(StatusOf(NotThere)))
          \/ Throws(r)
      BY <2>1 DEF Metadata, Details
    <3> HIDE DEF S
    <3> QED
      BY <3>1, AsksGo
  <2>2. CASE Download(r)
    <3>1. \/ Asks(r, T("stream"), S(StatusOf(NotThere)))
          \/ Asks(r, S(200), S(StatusOf(NotThere)))
          \/ Throws(r)
      BY <2>2 DEF Download, GetObject, Opens
    <3> HIDE DEF S, T
    <3> QED
      BY <3>1, AsksGo
  <2>3. CASE Preview(r)
    <3>1. \/ Asks(r, T("stream"), S(StatusOf(PreviewError)))
          \/ Asks(r, T("create"), S(StatusOf(PreviewError)))
          \/ Throws(r)
      BY <2>3 DEF Preview, PreviewFile, Opens
    <3> HIDE DEF S, T
    <3> QED
      BY <3>1, AsksGo
  <2>4. CASE Parse(r)
    <3>1. \/ Goes(r, S(200), FALSE) \/ Throws(r)
          \/ \E fails \in BOOLEAN : Goes(r, S(200), fails)
      BY <2>4 DEF Parse, ProcessFile, Rejects, ProcessJSON
    <3> HIDE DEF S
    <3>2. (\E fails \in BOOLEAN : Goes(r, S(200), fails)) => GoesTo(r, S(200))
      BY Zenon DEF GoesTo
    <3>3. Goes(r, S(200), FALSE) => GoesTo(r, S(200))
      BY DEF GoesTo
    <3> QED
      BY <3>1, <3>2, <3>3
  <2>5. CASE CheckZip(r) \/ CheckReport(r)
    <3>1. Asks(r, T("sign"), S(404)) \/ GoesTo(r, S(500))
      BY <2>5 DEF CheckZip, CheckReport, GoesTo
    <3> HIDE DEF S, T
    <3> QED
      BY <3>1, AsksGo
  <2>6. CASE CheckAsset(r)
    <3>1. \/ Asks(r, T("sign"), T("sign")) \/ Asks(r, T("sign"), S(404))
          \/ GoesTo(r, S(404))
      BY <2>6 DEF CheckAsset, Details, GoesTo
    <3> HIDE DEF S, T
    <3> QED
      BY <3>1, AsksGo
  <2> QED
    BY <2>1, <2>2, <2>3, <2>4, <2>5, <2>6
<1> QED
  BY <1>1, ThrowsLast, SaysLast, ToLast

LEMMA LinksLast ==
  ASSUME Shape, NEW r \in Requests,
         \/ SignLink(r) \/ SignAsset(r) \/ Presign(r) \/ QueryAccess(r)
         \/ DeleteFile(r) \/ Complete(r) \/ UploadAsset(r)
  PROVE  request'[r].pc # "hung"
<1>1. CASE SignLink(r) \/ SignAsset(r) \/ Presign(r) \/ QueryAccess(r)
  <2>1. GoesTo(r, Says(r, 200)) \/ GoesTo(r, Says(r, 500)) \/ Throws(r)
    BY <1>1 DEF SignLink, SignAsset, Presign, QueryAccess, Signs, AssumeRole, GoesTo
  <2> QED
    BY <2>1, ThrowsLast, SaysLast
<1>2. CASE DeleteFile(r) \/ Complete(r) \/ UploadAsset(r)
  <2> DEFINE Ends(s) == \/ StepTo(r, Says(r, s), FALSE)
                        \/ \E e \in Failures : StepTo(r, Says(r, StatusOf(e)), TRUE)
  <2>1. Ends(200) \/ Ends(201)
    BY <1>2, Zenon DEF DeleteFile, Complete, UploadAsset, Writes
  <2>2. \A s : Ends(s) => request'[r].pc # "hung"
    BY WritesLast
  <2> HIDE DEF Ends
  <2> QED
    BY <2>1, <2>2
<1> QED
  BY <1>1, <1>2

LEMMA DucksLast ==
  ASSUME Shape, NEW r \in Requests,
         CreateConnection(r) \/ CreateFails(r) \/ Configure(r) \/ Query(r)
  PROVE  request'[r].pc # "hung"
<1> DEFINE q == request[r]
           made == Overlaps([q EXCEPT !.pc = "configure"], r)
           gone == [q EXCEPT !.pc = "schema", !.via = conn]
           rows == [q EXCEPT !.pc = "rows"]
<1>1. q.pc \in {"create", "configure", "schema", "rows"} /\ Whole(q)
  BY DEF CreateConnection, CreateFails, Configure, Query, At, Shape
<1>2. /\ Whole(made) /\ made.pc = "configure" /\ Whole(gone) /\ gone.pc = "schema"
      /\ Whole(Overlaps(gone, r)) /\ Overlaps(gone, r).pc = "schema"
      /\ Whole(rows) /\ rows.pc = "rows"
  BY <1>1 DEF Overlaps, Whole, Fields
<1>3. \A s : Whole(Answered(q, s)) /\ Answered(q, s).pc = "answered"
  BY <1>1, AnsweredIs
<1> HIDE DEF made, gone, rows
<1>4. CASE CreateConnection(r)
  <2>1. StepTo(r, made, FALSE)
    BY <1>4 DEF CreateConnection, Duck, made
  <2> QED
    BY <1>2, <2>1, MovesLast DEF MovesTo
<1>5. CASE CreateFails(r)
  <2>1. \/ StepTo(r, gone, TRUE) \/ StepTo(r, q, TRUE)
        \/ StepTo(r, Answered(q, 500), TRUE)
    BY <1>5, Zenon DEF CreateFails, Duck, gone
  <2> QED
    <3>1. CASE StepTo(r, gone, TRUE)
      BY <1>2, <3>1, MovesLast DEF MovesTo
    <3>2. CASE StepTo(r, q, TRUE)
      BY <1>1, <3>2, MovesLast DEF MovesTo
    <3>3. CASE StepTo(r, Answered(q, 500), TRUE)
      <4>1. Whole(Answered(q, 500)) /\ Answered(q, 500).pc = "answered"
        BY <1>3
      <4>2. MovesTo(r, Answered(q, 500))
        BY <3>3 DEF MovesTo
      <4> QED
        BY <4>1, <4>2, MovesLast
    <3> QED
      BY <2>1, <3>1, <3>2, <3>3
<1>6. CASE Configure(r)
  <2>1. PICK fails \in BOOLEAN : StepTo(r, Overlaps(gone, r), fails)
    BY <1>6, Zenon DEF Configure, Duck, gone
  <2>2. StepTo(r, Overlaps(gone, r), TRUE) \/ StepTo(r, Overlaps(gone, r), FALSE)
    BY <2>1, Zenon
  <2> QED
    BY <1>2, <2>2, MovesLast DEF MovesTo
<1>7. CASE Query(r)
  <2> DEFINE A(s) == Answered(q, s)
  <2>1. CASE Goes(r, IF At(r, {"schema"}) THEN rows ELSE A(200), FALSE)
    <3>1. GoesTo(r, rows) \/ GoesTo(r, A(200))
      BY <2>1 DEF GoesTo
    <3> QED
      BY <1>2, <1>3, <3>1, GoesLast
  <2>2. CASE \E s : GoesTo(r, A(s))
    BY <1>3, <2>2, GoesLast
  <2>3. \/ Goes(r, IF At(r, {"schema"}) THEN rows ELSE A(200), FALSE)
        \/ \E s \in Refusals(r) : Goes(r, A(s), FALSE)
        \/ Goes(r, A(500), TRUE)
    BY <1>7, Zenon DEF Query, rows
  <2> HIDE DEF A
  <2>4. \/ Goes(r, IF At(r, {"schema"}) THEN rows ELSE A(200), FALSE)
        \/ \E s : GoesTo(r, A(s))
    BY <2>3, Zenon DEF GoesTo
  <2> QED
    BY <2>1, <2>2, <2>4
<1> QED
  BY <1>4, <1>5, <1>6, <1>7

(* A download whose object breaks off is left without an end, and marked.  *)
LEMMA PipeHangs ==
  ASSUME Shape, NEW r \in Requests, Pipe(r), request'[r].pc = "hung"
  PROVE  AskOf(r).route = "download" /\ request'[r].hit
<1>1. AskOf(r).route = "download" /\ request[r].pc = "stream"
  BY DEF Pipe, At
<1>2. Goes(r, To(r, "hung"), TRUE)
  BY SaysLast DEF Pipe, GoesTo
<1>3. StepTo(r, To(r, "hung"), TRUE) /\ Whole(To(r, "hung"))
  BY <1>2, ToIs DEF Goes
<1>4. SeesFailing(r, To(r, "hung"))
  BY <1>3, SeenFailing DEF Next_
<1> QED
  BY <1>1, <1>4 DEF SeesFailing, Active, Over

(* Of the handlers only those of listings work on one.                     *)
LEMMA ListingActs ==
  ASSUME GateInv, TruthInv, NEW r \in Requests, HandlerAct(r),
         AskOf(r).route \in Listings
  PROVE  ListAws(r) \/ ListMinio(r) \/ ListFails(r)
<1> DEFINE a == AskOf(r)
<1>1. request[r].pc \in HandlerPcs
  BY HandlersHandle DEF GateInv, Handled
<1>2. Fits(a, request[r].pc)
  BY <1>1, InMind DEF TruthInv, Truthful
<1>3. request[r].pc = "work"
  BY <1>1, <1>2 DEF Fits, HandlerPcs, Listings
<1>4. /\ ~Pipe(r) /\ ~Parse(r) /\ ~SignLink(r) /\ ~SignAsset(r)
      /\ ~CreateConnection(r) /\ ~CreateFails(r) /\ ~Configure(r) /\ ~Query(r)
  BY <1>3 DEF Pipe, Parse, SignLink, SignAsset, CreateConnection, CreateFails,
              Configure, Query, At
<1>5. /\ ~Metadata(r) /\ ~Download(r) /\ ~Preview(r) /\ ~CheckZip(r)
      /\ ~CheckReport(r) /\ ~CheckAsset(r) /\ ~Presign(r) /\ ~QueryAccess(r)
      /\ ~DeleteFile(r) /\ ~Complete(r) /\ ~UploadAsset(r)
  BY DEF Listings, Metadata, Download, Preview, CheckZip, CheckReport, CheckAsset,
         Presign, QueryAccess, DeleteFile, Complete, UploadAsset, Handling
<1> QED
  BY <1>4, <1>5 DEF HandlerAct

LEMMA OthersRest ==
  ASSUME GateInv, NEW r \in Requests, HandlerAct(r), AskOf(r).route \notin Listings,
         request'[r].pc = "hung"
  PROVE  AskOf(r).route = "download" /\ request'[r].hit
<1>1. Shape
  BY DEF GateInv
<1>2. ~(ListAws(r) \/ ListMinio(r) \/ ListFails(r))
  BY DEF ListAws, ListMinio, ListFails, Listing, Handling, Listings
<1>3. Pipe(r)
  BY <1>1, <1>2, ReadsLast, LinksLast, DucksLast DEF HandlerAct
<1> QED
  BY <1>1, <1>3, PipeHangs

(* What a page makes of its request.                                       *)
ListedSo(r, page, q) ==
  /\ Whole(q) /\ q.ask = request[r].ask
  /\ q.walk = AfterPage(request[r].walk, page)
  /\ q.always = request[r].always /\ q.ever = request[r].ever
  /\ \/ /\ AskOf(r).route = "list" \/ q.walk.todo = <<>>
        /\ q.pc = "answered" /\ q.status = 200
     \/ /\ AskOf(r).route # "list" /\ q.walk.todo # <<>>
        /\ q.pc = "work"

LEMMA ListedIs ==
  ASSUME Shape, NEW r \in Requests, request[r].pc = "work", NEW page
  PROVE  ListedSo(r, page, Listed(r, page))
<1> DEFINE w == AfterPage(request[r].walk, page)
           q == [Acting(r) EXCEPT !.walk = w]
           ends == AskOf(r).route = "list" \/ w.todo = <<>>
<1>1. /\ Whole(q) /\ q.ask = request[r].ask /\ q.walk = w
      /\ q.always = request[r].always /\ q.ever = request[r].ever
      /\ q.pc = "work"
  BY ActingIs DEF Whole, Fields
<1>2. Listed(r, page) = IF ends THEN Answered(q, 200) ELSE q
  BY DEF Listed
<1> HIDE DEF q
<1>3. CASE ends
  <2>1. Listed(r, page) = Answered(q, 200)
    BY <1>2, <1>3
  <2>2. /\ Whole(Answered(q, 200)) /\ Answered(q, 200).ask = request[r].ask
        /\ Answered(q, 200).walk = w
        /\ Answered(q, 200).always = request[r].always
        /\ Answered(q, 200).ever = request[r].ever
        /\ Answered(q, 200).pc = "answered" /\ Answered(q, 200).status = 200
    BY <1>1, AnsweredIs
  <2> HIDE DEF w
  <2> QED
    BY <1>3, <2>1, <2>2 DEF ListedSo, w
<1>4. CASE ~ends
  <2>1. Listed(r, page) = q
    BY <1>2, <1>4
  <2> HIDE DEF w
  <2> QED
    BY <1>1, <1>4, <2>1 DEF ListedSo, w
<1> QED
  BY <1>3, <1>4

-----------------------------------------------------------------------------
(* Every step keeps listings on their way                                  *)

(* What a listing at work knows.                                           *)
LEMMA AtWork ==
  ASSUME GateInv, Typed, WalksInv, NEW r \in Requests, request[r].pc = "work",
         AskOf(r).route \in Listings
  PROVE  /\ Shape /\ AskOf(r) \in Ask /\ request[r].pc \in HandlerPcs
         /\ OnWalk(AskOf(r), request[r], config.provider)
         /\ request[r].always \subseteq bucket /\ bucket \subseteq request[r].ever
         /\ request[r].ever \in SUBSET Objects
<1>1. request[r].pc \in HandlerPcs /\ Active(r)
  BY DEF HandlerPcs, Active, Over
<1>2. request[r].ask # {}
  BY <1>1, InMind
<1>3. AskOf(r) \in Ask
  BY <1>2, AskOfType
<1>4. Watched(r) /\ Trodden(r)
  BY DEF WalksInv
<1> QED
  BY <1>1, <1>2, <1>3, <1>4 DEF GateInv, Typed, Watched, Trodden, Walked

(* It leaves the bucket as it is, and sees that.                           *)
LEMMA WorkSees ==
  ASSUME GateInv, Typed, WalksInv, NEW r \in Requests, request[r].pc = "work",
         AskOf(r).route \in Listings,
         NEW q, Whole(q), q.always = request[r].always, q.ever = request[r].ever,
         Goes(r, q, TRUE) \/ Goes(r, q, FALSE)
  PROVE  /\ request'[r].pc = q.pc /\ request'[r].status = q.status
         /\ request'[r].walk = q.walk
         /\ request'[r].always = request[r].always
         /\ request'[r].ever = request[r].ever
<1>1. MovesTo(r, q) /\ bucket' = bucket
  BY GoesMoves
<1>2. /\ Shape /\ Active(r)
      /\ request[r].always \subseteq bucket /\ bucket \subseteq request[r].ever
  BY AtWork DEF Active, Over
<1>3. Sees(r, q)
  BY <1>1, <1>2, SeenSo DEF Next_
<1>4. /\ request'[r].pc = q.pc /\ request'[r].status = q.status
      /\ request'[r].walk = q.walk
  BY <1>1, <1>2, Moved DEF Next_
<1>5. /\ request'[r].always = request[r].always \cap bucket
      /\ request'[r].ever = request[r].ever \cup bucket
  BY <1>1, <1>2, <1>3 DEF Sees
<1> QED
  BY <1>2, <1>4, <1>5

LEMMA AwsTreads ==
  ASSUME GateInv, Typed, WalksInv, NEW r \in Requests, ListAws(r)
  PROVE  Walked(AskOf(r), request'[r], config.provider)
<1> DEFINE a == AskOf(r)
           P == NormalizePrefix(a.key)
           q == request[r]
           w == q.walk
           page == AwsPage(PagePrefix(r), Head(w.todo).token, a.max)
           v == AfterPage(w, page)
           l == Listed(r, page)
<1>1. /\ q.pc = "work" /\ a.route \in Listings /\ config.provider = "aws"
      /\ Goes(r, l, FALSE)
  BY DEF ListAws, Listing, Handling, At, Listings
<1>2. /\ Shape /\ a \in Ask /\ OnWalk(a, q, config.provider)
      /\ q.always \subseteq bucket /\ bucket \subseteq q.ever
  BY <1>1, AtWork
<1>3. /\ Led(w, P) /\ w.todo # <<>> /\ WalkInv(w, P, q.always, q.ever)
      /\ a.route = "list" => w = Start(P)
  BY <1>1, <1>2 DEF OnWalk
<1>4. P \in Keys /\ a.max \in Nat \ {0}
  BY <1>2, PrefixesAre DEF Ask
<1>5. page = AwsPage(Head(w.todo).prefix, Head(w.todo).token, a.max)
  BY DEF PagePrefix
<1>6. WalkInv(v, P, q.always, q.ever)
  BY <1>2, <1>3, <1>4, <1>5, WalkOn
<1>7. a.route = "list" => Exact(a, v, q.always, q.ever)
  <2> SUFFICES ASSUME a.route = "list" PROVE Exact(a, v, q.always, q.ever)
    OBVIOUS
  <2>1. w = Start(P) /\ Head(Start(P).todo) = [prefix |-> P, token |-> 0]
    BY <1>3 DEF Start
  <2>2. page = AwsPage(P, 0, a.max)
    BY <1>5, <2>1
  <2> QED
    BY <1>2, <2>1, <2>2, FirstPage
<1>8. a.route = "listAll" /\ v.todo = <<>> => Exact(a, v, q.always, q.ever)
  BY <1>2, <1>6, AllWalked
<1>9. ListedSo(r, page, l)
  BY <1>1, <1>2, ListedIs
<1>10. /\ request'[r].pc = l.pc /\ request'[r].status = l.status
       /\ request'[r].walk = l.walk
       /\ request'[r].always = q.always /\ request'[r].ever = q.ever
  BY <1>1, <1>9, WorkSees DEF ListedSo
<1>11. l.walk = v
  BY <1>9 DEF ListedSo
<1> HIDE DEF l, v, page, P
<1>12. CASE l.pc = "answered"
  <2>1. a.route = "list" \/ (a.route = "listAll" /\ v.todo = <<>>)
    BY <1>1, <1>9, <1>11, <1>12 DEF ListedSo, Listings, v
  <2>2. Exact(a, v, q.always, q.ever)
    BY <1>7, <1>8, <2>1
  <2> QED
    BY <1>10, <1>11, <1>12, <2>2 DEF Walked, Gating
<1>13. CASE l.pc # "answered"
  <2>1. a.route # "list" /\ v.todo # <<>> /\ l.pc = "work"
    BY <1>9, <1>11, <1>13 DEF ListedSo
  <2>2. OnWalk(a, request'[r], config.provider)
    BY <1>6, <1>10, <1>11, <2>1 DEF OnWalk, WalkInv, P
  <2> QED
    BY <1>10, <2>1, <2>2 DEF Walked
<1> QED
  BY <1>12, <1>13

LEMMA MinioTreads ==
  ASSUME GateInv, Typed, WalksInv, NEW r \in Requests, ListMinio(r)
  PROVE  Walked(AskOf(r), request'[r], config.provider)
<1> DEFINE a == AskOf(r)
           P == NormalizePrefix(a.key)
           q == request[r]
           w == q.walk
           page == MinioPage(PagePrefix(r))
           v == AfterPage(w, page)
           l == Listed(r, page)
<1>1. q.pc = "work" /\ a.route \in Listings /\ config.provider = "minio"
  BY DEF ListMinio, Listing, Handling, At, Listings
<1>2. /\ Shape /\ a \in Ask /\ OnWalk(a, q, config.provider)
      /\ bucket \subseteq q.ever /\ q.ever \in SUBSET Objects
  BY <1>1, AtWork
<1>3. Led(w, P) /\ w.todo # <<>>
  BY <1>1, <1>2 DEF OnWalk
<1>4. P \in Keys
  BY <1>2, PrefixesAre
<1>5. CASE Goes(r, l, FALSE)
  <2>1. GoodPage(Head(w.todo).prefix, page)
    <3>1. Head(w.todo).prefix \in Keys
      BY <1>3, TailIs DEF Led, Items
    <3> QED
      BY <3>1, MinioPageGood DEF PagePrefix
  <2>2. Led(v, P)
    BY <1>3, <1>4, <2>1, LedOn
  <2>3. ListedSo(r, page, l)
    BY <1>1, <1>2, ListedIs
  <2>4. request'[r].pc = l.pc /\ request'[r].walk = l.walk
    BY <1>1, <1>5, <2>3, WorkSees DEF ListedSo
  <2>5. l.walk = v
    BY <2>3 DEF ListedSo
  <2> HIDE DEF l, v, page, P
  <2>6. \/ l.pc = "answered"
        \/ l.pc = "work" /\ a.route # "list" /\ v.todo # <<>>
    BY <2>3, <2>5 DEF ListedSo
  <2> QED
    BY <1>1, <2>2, <2>4, <2>5, <2>6 DEF Walked, OnWalk, Gating, P
<1>6. CASE /\ MinioHangs(PagePrefix(r), a.max)
           /\ Goes(r, To(r, "hung"), FALSE)
  <2>1. /\ Whole(To(r, "hung")) /\ To(r, "hung").pc = "hung"
        /\ To(r, "hung").always = q.always /\ To(r, "hung").ever = q.ever
    BY <1>2, ToIs
  <2>2. request'[r].pc = "hung" /\ request'[r].ever = q.ever
    BY <1>1, <1>6, <2>1, WorkSees
  <2>3. Cardinality(q.ever \cap Below(<<Databank>>)) >= a.max
    BY <1>2, <1>3, <1>6, HangsFull DEF PagePrefix
  <2> QED
    BY <1>1, <2>2, <2>3 DEF Walked, Gating
<1> QED
  BY <1>5, <1>6 DEF ListMinio, To

LEMMA FailsTreads ==
  ASSUME GateInv, Typed, WalksInv, NEW r \in Requests, ListFails(r)
  PROVE  Walked(AskOf(r), request'[r], config.provider)
<1>1. request[r].pc = "work" /\ AskOf(r).route \in Listings
  BY DEF ListFails, Listing, Handling, At, Listings
<1>2. PICK e \in Failures : Goes(r, Says(r, StatusOf(e)), TRUE)
  BY DEF ListFails, Throws
<1>3. StatusOf(e) # 200
  BY DEF StatusOf
<1>4. /\ Whole(Says(r, StatusOf(e))) /\ Says(r, StatusOf(e)).pc = "answered"
      /\ Says(r, StatusOf(e)).status = StatusOf(e)
      /\ Says(r, StatusOf(e)).always = request[r].always
      /\ Says(r, StatusOf(e)).ever = request[r].ever
  <2>1. Shape
    BY DEF GateInv
  <2> QED
    BY <2>1, SaysIs
<1>5. request'[r].pc = "answered" /\ request'[r].status = StatusOf(e)
  BY <1>1, <1>2, <1>4, WorkSees
<1> QED
  BY <1>3, <1>5 DEF Walked, Gating

(* Requests that do not take the step see it.                              *)
LEMMA OthersTread ==
  ASSUME GateInv, WalksInv, config' = config, NEW r \in Requests, NEW q, Whole(q),
         MovesTo(r, q), NEW p \in Requests, p # r
  PROVE  Watched(p)' /\ Trodden(p)'
<1> DEFINE s == request[p]
<1>1. /\ request'[p].ask = s.ask /\ request'[p].pc = s.pc
      /\ request'[p].status = s.status /\ request'[p].walk = s.walk
  BY Moved DEF GateInv, Next_
<1>2. Sees(p, s)
  BY SeenSo DEF GateInv, Next_
<1>3. AskOf(p)' = AskOf(p)
  BY <1>1, AskStays
<1>4. Watched(p) /\ Trodden(p)
  BY DEF WalksInv
<1>5. Watched(p)'
  BY <1>1, <1>2 DEF Watched, Sees, Active
<1>6. /\ request'[p].always \in SUBSET s.always /\ s.ever \subseteq request'[p].ever
      /\ s.pc \in Over => request'[p].always = s.always /\ request'[p].ever = s.ever
      /\ s.hit => request'[p].hit
  BY <1>2 DEF Sees, Active
<1>7. ASSUME NEW a, Walked(a, s, config.provider)
      PROVE  Walked(a, request'[p], config.provider)
  <2>1. OnWalk(a, s, config.provider) => OnWalk(a, request'[p], config.provider)
    BY <1>1, <1>6, WalkStays DEF OnWalk
  <2> QED
    BY <1>1, <1>6, <1>7, <2>1 DEF Walked, Over
<1>8. ASSUME NEW a, Rested(a, s) PROVE Rested(a, request'[p])
  BY <1>1, <1>6, <1>8 DEF Rested
<1> QED
  BY <1>1, <1>3, <1>4, <1>5, <1>7, <1>8 DEF Trodden

LEMMA GatesTread ==
  ASSUME GateInv, WalksInv, NEW r \in Requests, GateAct(r)
  PROVE  WalksInv'
<1> DEFINE a == AskOf(r)
<1>1. Gated(r)
  BY GatesJudge
<1>2. PICK q : SetsOut(r, q) /\ MovesTo(r, q)
  BY GatesSetOut
<1>3. /\ Shape /\ Whole(q) /\ q.ask = request[r].ask
      /\ config' = config /\ bucket' = bucket /\ request[r].ask # {}
  BY <1>1, <1>2 DEF GateInv, SetsOut, Gated, gateVars
<1>4. /\ request'[r].ask = q.ask /\ request'[r].pc = q.pc
      /\ request'[r].status = q.status /\ request'[r].walk = q.walk
  BY <1>2, <1>3, Moved DEF Next_
<1>5. Sees(r, q)
  BY <1>2, <1>3, SeenSo DEF Next_
<1>6. AskOf(r)' = a
  BY <1>3, <1>4, AskStays
<1>7. Watched(r) /\ Trodden(r)
  BY DEF WalksInv
<1>8. /\ request'[r].always \subseteq bucket /\ bucket \subseteq request'[r].ever
      /\ request'[r].always \in SUBSET q.always /\ q.ever \subseteq request'[r].ever
  BY <1>2, <1>3, <1>5, <1>7 DEF SetsOut, Sees, Active, Watched, Over, Gating
<1>9. Watched(r)'
  BY <1>3, <1>8 DEF Watched
<1>10. a.route \in Listings => Walked(a, request'[r], config.provider)
  <2> SUFFICES ASSUME a.route \in Listings PROVE Walked(a, request'[r], config.provider)
    OBVIOUS
  <2>1. a \in Ask
    BY <1>3, AskOfType
  <2>2. OnWalk(a, request'[r], config.provider)
    <3>1. CASE request[r].pc = "new" /\ q.walk = Start(NormalizePrefix(a.key))
      <4>1. NormalizePrefix(a.key) \in Keys
        BY <2>1, PrefixesAre
      <4> QED
        BY <1>4, <3>1, <4>1, StartLed, StartWalks DEF OnWalk
    <3>2. CASE /\ request[r].pc \in Gating /\ q.walk = request[r].walk
               /\ q.always = request[r].always /\ q.ever = request[r].ever
      <4>1. OnWalk(a, request[r], config.provider)
        BY <1>3, <1>7, <3>2 DEF Trodden, Walked
      <4> QED
        BY <1>4, <1>8, <3>2, <4>1, WalkStays DEF OnWalk
    <3> QED
      BY <1>2, <3>1, <3>2 DEF SetsOut
  <2> QED
    BY <1>2, <1>4, <2>2 DEF Walked, SetsOut, Gating
<1>11. Rested(a, request'[r])
  BY <1>2, <1>4 DEF Rested, SetsOut, Gating
<1>12. Trodden(r)'
  BY <1>3, <1>6, <1>10, <1>11 DEF Trodden
<1>13. ASSUME NEW p \in Requests PROVE Watched(p)' /\ Trodden(p)'
  BY <1>2, <1>3, <1>9, <1>12, OthersTread
<1> QED
  BY <1>13 DEF WalksInv

LEMMA HandlersTread ==
  ASSUME GateInv, Typed, TruthInv, WalksInv, NEW r \in Requests, HandlerAct(r)
  PROVE  WalksInv'
<1> DEFINE a == AskOf(r)
<1>1. Handled(r) /\ Shape
  BY HandlersHandle DEF GateInv
<1>2. PICK q : Follows(r, q) /\ MovesTo(r, q)
  BY <1>1 DEF Handled
<1>3. /\ Whole(q) /\ q.ask = request[r].ask /\ config' = config
      /\ request[r].pc \in HandlerPcs
  BY <1>1, <1>2 DEF Follows, Handled, gateVars
<1>4. request'[r].ask = request[r].ask
  BY <1>1, <1>2, <1>3, Moved DEF Next_
<1>5. /\ request'[r].always = request[r].always \cap bucket'
      /\ request'[r].ever = request[r].ever \cup bucket'
  BY <1>1, <1>2, <1>3, HandlerSees
<1>6. AskOf(r)' = a
  BY <1>4, AskStays
<1>7. Watched(r)'
  BY <1>5 DEF Watched
<1>8. a.route \in Listings => Walked(a, request'[r], config.provider)
  BY ListingActs, AwsTreads, MinioTreads, FailsTreads
<1>9. a.route \notin Listings => Rested(a, request'[r])
  BY OthersRest DEF Rested
<1>10. Trodden(r)'
  BY <1>3, <1>6, <1>8, <1>9 DEF Trodden
<1>11. ASSUME NEW p \in Requests PROVE Watched(p)' /\ Trodden(p)'
  BY <1>2, <1>3, <1>7, <1>10, OthersTread
<1> QED
  BY <1>11 DEF WalksInv

LEMMA OutsideTreads ==
  ASSUME GateInv, WalksInv, RightsChange \/ WorkerUploads \/ UNCHANGED vars
  PROVE  WalksInv'
<1> SUFFICES ASSUME NEW p \in Requests PROVE Watched(p)' /\ Trodden(p)'
  BY DEF WalksInv
<1> DEFINE s == request[p]
<1>1. /\ config' = config
      /\ request'[p].ask = s.ask /\ request'[p].pc = s.pc
      /\ request'[p].status = s.status /\ request'[p].always = s.always
      /\ request'[p].hit = s.hit /\ s.ever \subseteq request'[p].ever
      /\ ~Active(p) => request'[p].ever = s.ever
  BY Outside DEF GateInv
<1>2. request'[p].walk = s.walk
  BY DEF RightsChange, WorkerUploads, Shaken, vars, GateInv, Shape, Whole, Fields
<1>3. /\ bucket \subseteq bucket'
      /\ Active(p) => request'[p].ever = s.ever \cup bucket' \/ bucket' = bucket
  BY DEF RightsChange, WorkerUploads, Put, vars, GateInv, Shape, Whole, Fields
<1>4. AskOf(p)' = AskOf(p)
  BY <1>1, AskStays
<1>5. Watched(p) /\ Trodden(p)
  BY DEF WalksInv
<1>6. Watched(p)'
  BY <1>1, <1>3, <1>5 DEF Watched, Active
<1>7. s.pc \in Over => request'[p].ever = s.ever
  BY <1>1 DEF Active
<1>8. ASSUME NEW a, Walked(a, s, config.provider)
      PROVE  Walked(a, request'[p], config.provider)
  <2>1. OnWalk(a, s, config.provider) => OnWalk(a, request'[p], config.provider)
    BY <1>1, <1>2, WalkStays DEF OnWalk
  <2> QED
    BY <1>1, <1>2, <1>7, <1>8, <2>1 DEF Walked, Over
<1>9. ASSUME NEW a, Rested(a, s) PROVE Rested(a, request'[p])
  BY <1>1, <1>9 DEF Rested
<1> QED
  BY <1>1, <1>4, <1>5, <1>6, <1>8, <1>9 DEF Trodden

LEMMA WalksInit == Init => WalksInv
<1> SUFFICES ASSUME Init, NEW r \in Requests PROVE Watched(r) /\ Trodden(r)
  BY DEF WalksInv
<1>1. request[r].pc = "new"
  BY DEF Init, NewRequest
<1> QED
  BY <1>1 DEF Watched, Active, Trodden, Walked, Rested, Gating

LEMMA WalksNext ==
  GateInv /\ Typed /\ TruthInv /\ WalksInv /\ [Next]_vars => WalksInv'
BY NextStirs, GatesTread, HandlersTread, OutsideTreads DEF Stirs

(* A recursive listing of S3 that succeeds names every file that was below *)
(* its prefix all the time, once, and none that never was, whatever comes  *)
(* and goes between its pages and folders; a plain one names all files of  *)
(* a folder whose entries fit a page.                                      *)
THEOREM ListingsAreExact == Spec => []ListingIsExact
<1>1. GateInv /\ WalksInv => ListingIsExact
  <2> SUFFICES ASSUME GateInv, WalksInv, NEW r \in Requests,
                      request[r].pc = "answered", request[r].status = 200,
                      AskOf(r).route \in Listings, config.provider = "aws"
               PROVE  Exact(AskOf(r), request[r].walk, request[r].always,
                            request[r].ever)
    BY DEF ListingIsExact, Is, Told, At, Listings, Exact, Due, Fitting
  <2>1. request[r].ask # {}
    BY DEF GateInv, Placed
  <2>2. Walked(AskOf(r), request[r], config.provider)
    BY <2>1 DEF WalksInv, Trodden
  <2> QED
    BY <2>2 DEF Walked
<1> QED
  BY <1>1, GateInit, GateNext, TypedInit, TypedNext, TruthInit, TruthNext,
     WalksInit, WalksNext, PTL DEF Spec

(* An answer that never ends is a download whose object broke off while it *)
(* was piped, or a listing of MinIO that came to maxKeys objects.          *)
THEOREM HangsAreOfTwoKinds == Spec => []HangsAreKnown
<1>1. GateInv /\ WalksInv => HangsAreKnown
  <2> SUFFICES ASSUME GateInv, WalksInv, NEW r \in Requests, At(r, {"hung"})
               PROVE  \/ Is(r, {"hung"}, {"download"}) /\ request[r].hit
                      \/ /\ Is(r, {"hung"}, {"list", "listAll"})
                         /\ config.provider = "minio"
                         /\ Cardinality(request[r].ever \cap Below(<<Databank>>))
                              >= AskOf(r).max
    BY DEF HangsAreKnown
  <2>1. request[r].pc = "hung" /\ request[r].ask # {}
    BY DEF At, GateInv, Placed
  <2>2. /\ AskOf(r).route \in Listings => Walked(AskOf(r), request[r], config.provider)
        /\ AskOf(r).route \notin Listings => Rested(AskOf(r), request[r])
    BY <2>1 DEF WalksInv, Trodden
  <2> QED
    BY <2>1, <2>2 DEF Walked, Rested, Is, At, Listings
<1> QED
  BY <1>1, GateInit, GateNext, TypedInit, TypedNext, TruthInit, TruthNext,
     WalksInit, WalksNext, PTL DEF Spec

=============================================================================
