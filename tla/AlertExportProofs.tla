-------------------------- MODULE AlertExportProofs --------------------------
(***************************************************************************)
(* DuplicatesAreTallied, CoolNamesFile and ReopensCounted of the side      *)
(* table, for any keys, table sizes and cooldown.                          *)
(***************************************************************************)
EXTENDS AlertExport, FiniteSetTheorems, TLAPS

Reasons == {"no", "cool", "wrote", "empty", "refused"}

ExportTypes ==
    /\ wall \in Nat \ {0} /\ mono \in Nat /\ steps \in Nat
    /\ present \in SUBSET Keys /\ todo \in SUBSET Keys
    /\ dumped \in [Keys -> Reasons] /\ path \in [Keys -> Nat]
    /\ reopens \in [Keys -> Nat]
    /\ lru \in Seq(Keys)
    /\ export \in [Keys -> Nat] /\ rowPath \in [Keys -> Nat]
    /\ tagged \in [Keys -> BOOLEAN] /\ rowReopens \in [Keys -> Nat]
    /\ lost \in Nat /\ files \in Nat /\ early \in Nat /\ opens \in Nat
    /\ lastFile \in [Keys -> Nat] /\ lastAt \in [Keys -> Nat]
    /\ opened \in [Keys -> Nat] /\ forgotten \in SUBSET Keys

-----------------------------------------------------------------------------
(* The inductive invariant                                                 *)

\* an export is remembered in a row only, and only a file was an export
ExportsAreRows ==
    \A k \in Keys : export[k] > 0 => k \in Rows /\ lastFile[k] > 0

\* until the wall clock is stepped a row knows when its file was written, and
\* which one it was
RowsAreTrue ==
    steps = 0 =>
       /\ wall = mono
       /\ \A k \in Keys :
             export[k] > 0 =>
                /\ export[k] = lastAt[k] /\ export[k] <= wall
                /\ rowPath[k] = lastFile[k]

\* an entry waiting to be found cool names the file that cools it
CoolPaths ==
    \A k \in present :
       /\ dumped[k] = "cool" => lastFile[k] > 0
       /\ steps = 0 /\ dumped[k] = "cool" => path[k] = lastFile[k]
       /\ steps = 0 /\ dumped[k] = "no" /\ CooldownActive(k)
             => path[k] = lastFile[k]

\* keys whose frames are on disk with no row to say so: each was tallied when
\* it came to this, and allows one early file
Exposed == {k \in Keys : lastFile[k] > 0 /\ export[k] = 0}
Tallied ==
    /\ IsFiniteSet(Exposed)
    /\ steps = 0 => early + Cardinality(Exposed) <= lost

\* what a row would say of its key's next incident, against what is true
RowsCount ==
    \A k \in Keys :
       /\ Count(k) <= opened[k]
       /\ k \notin forgotten => Count(k) = opened[k]

ExportInv ==
    /\ ExportTypes /\ ExportsAreRows /\ RowsAreTrue /\ CoolPaths
    /\ Tallied /\ RowsCount /\ ReopensCounted

-----------------------------------------------------------------------------
(* The side table                                                          *)

LEMMA RemoveAtFacts ==
    ASSUME NEW s \in Seq(Keys), NEW i \in 1 .. Len(s)
    PROVE  /\ RemoveAt(s, i) \in Seq(Keys)
           /\ Len(RemoveAt(s, i)) = Len(s) - 1
           /\ \A j \in 1 .. i - 1 : RemoveAt(s, i)[j] = s[j]
           /\ \A j \in i .. Len(s) - 1 : RemoveAt(s, i)[j] = s[j + 1]
<1>1. Len(s) \in Nat /\ i \in Nat
    OBVIOUS
<1>2. /\ SubSeq(s, 1, i - 1) \in Seq(Keys) /\ Len(SubSeq(s, 1, i - 1)) = i - 1
      /\ \A j \in 1 .. i - 1 : SubSeq(s, 1, i - 1)[j] = s[j]
    BY <1>1
<1>3. /\ SubSeq(s, i + 1, Len(s)) \in Seq(Keys)
      /\ Len(SubSeq(s, i + 1, Len(s))) = Len(s) - i
      /\ \A j \in 1 .. Len(s) - i : SubSeq(s, i + 1, Len(s))[j] = s[i + j]
    BY <1>1
<1> DEFINE p == SubSeq(s, 1, i - 1)
           q == SubSeq(s, i + 1, Len(s))
<1> HIDE DEF p, q
<1>4. /\ p \o q \in Seq(Keys) /\ Len(p \o q) = Len(p) + Len(q)
      /\ \A j \in 1 .. Len(p) : (p \o q)[j] = p[j]
      /\ \A j \in 1 .. Len(q) : (p \o q)[Len(p) + j] = q[j]
    <2>1. p \in Seq(Keys) /\ q \in Seq(Keys)
        BY <1>2, <1>3 DEF p, q
    <2>. QED  BY <2>1
<1>5. ASSUME NEW j \in i .. Len(s) - 1 PROVE (p \o q)[j] = s[j + 1]
    <2>1. /\ (j + 1) - i \in 1 .. Len(q) /\ Len(p) + ((j + 1) - i) = j
          /\ i + ((j + 1) - i) = j + 1
          /\ q[(j + 1) - i] = s[i + ((j + 1) - i)]
        BY <1>1, <1>2, <1>3, <1>5 DEF p, q
    <2>. QED  BY <1>4, <2>1
<1>6. /\ RemoveAt(s, i) = p \o q
      /\ Len(p) = i - 1 /\ Len(q) = Len(s) - i
      /\ \A j \in 1 .. i - 1 : p[j] = s[j]
    BY <1>2, <1>3 DEF RemoveAt, p, q
<1> DEFINE r == p \o q
<1>7. r \in Seq(Keys) /\ Len(r) = Len(s) - 1
    BY <1>1, <1>4, <1>6
<1>8. \A j \in 1 .. i - 1 : r[j] = s[j]
    BY <1>4, <1>6
<1>9. \A j \in i .. Len(s) - 1 : r[j] = s[j + 1]
    BY <1>5
<1> HIDE DEF r
<1>10. RemoveAt(s, i) = r
    BY <1>6 DEF r
<1>. QED  BY <1>7, <1>8, <1>9, <1>10, Zenon

\* appending a key loses no key
LEMMA AppendRows ==
    ASSUME NEW s \in Seq(Keys), NEW k \in Keys
    PROVE  /\ Append(s, k) \in Seq(Keys)
           /\ ToSet(Append(s, k)) = ToSet(s) \cup {k}
<1>1. /\ Append(s, k) \in Seq(Keys) /\ Len(s) \in Nat
      /\ Len(Append(s, k)) = Len(s) + 1
      /\ \A i \in 1 .. Len(s) : Append(s, k)[i] = s[i]
      /\ Append(s, k)[Len(s) + 1] = k
      /\ DOMAIN s = 1 .. Len(s) /\ DOMAIN Append(s, k) = 1 .. Len(s) + 1
    OBVIOUS
<1>2. ASSUME NEW x \in ToSet(Append(s, k)) PROVE x \in ToSet(s) \cup {k}
    BY <1>1, <1>2 DEF ToSet
<1>3. ASSUME NEW x \in ToSet(s) \cup {k} PROVE x \in ToSet(Append(s, k))
    BY <1>1, <1>3 DEF ToSet
<1>. QED  BY <1>1, <1>2, <1>3

\* side_get(k) gives k a row, and takes none but the coldest, and that one
\* only when k has none and the table is full
LEMMA TouchedFacts ==
    ASSUME lru \in Seq(Keys), NEW k \in Keys
    PROVE  /\ Touched(k) \in Seq(Keys) /\ k \in ToSet(Touched(k))
           /\ \A j \in Rows :
                 ~ (Displaced(k) /\ j = Coldest) => j \in ToSet(Touched(k))
           /\ Displaced(k) => Coldest \in Rows /\ Coldest # k
<1>1. Len(lru) \in Nat /\ DOMAIN lru = 1 .. Len(lru)
    OBVIOUS
<1>2. CASE k \in Rows
    <2> DEFINE i == Place(k)
               s == RemoveAt(lru, i)
    <2>1. i \in 1 .. Len(lru) /\ lru[i] = k
        BY <1>1, <1>2 DEF Place, Rows, ToSet
    <2> HIDE DEF i
    <2>2. /\ s \in Seq(Keys) /\ Len(s) = Len(lru) - 1
          /\ \A j \in 1 .. i - 1 : s[j] = lru[j]
          /\ \A j \in i .. Len(lru) - 1 : s[j] = lru[j + 1]
        BY <2>1, RemoveAtFacts
    <2>3. Touched(k) = Append(s, k)
        BY <1>2 DEF Touched, Displaced, s, i
    <2> HIDE DEF s
    <2>4. ASSUME NEW j \in Rows, j # k PROVE j \in ToSet(s)
        <3>1. PICK n \in 1 .. Len(lru) : lru[n] = j
            BY <1>1 DEF Rows, ToSet
        <3>2. DOMAIN s = 1 .. Len(s)
            BY <2>2
        <3>3. CASE n < i
            BY <1>1, <2>1, <2>2, <3>1, <3>2, <3>3 DEF ToSet
        <3>4. CASE n > i
            <4>1. n - 1 \in i .. Len(lru) - 1 /\ (n - 1) + 1 = n
                BY <1>1, <2>1, <3>4
            <4>2. s[n - 1] = j /\ n - 1 \in 1 .. Len(s)
                BY <1>1, <2>1, <2>2, <3>1, <4>1
            <4>. QED  BY <3>2, <4>2, Zenon DEF ToSet
        <3>. QED  BY <1>1, <2>1, <2>4, <3>1, <3>3, <3>4
    <2>. QED  BY <1>2, <2>2, <2>3, <2>4, AppendRows DEF Displaced
<1>3. CASE Displaced(k)
    <2>1. Len(lru) > 0 /\ k \notin Rows
        BY <1>3, ExportAssumption DEF Displaced
    <2>2. /\ Tail(lru) \in Seq(Keys) /\ Len(Tail(lru)) = Len(lru) - 1
          /\ \A j \in 1 .. Len(lru) - 1 : Tail(lru)[j] = lru[j + 1]
          /\ Coldest = lru[1]
        BY <1>1, <2>1 DEF Coldest
    <2>3. Touched(k) = Append(Tail(lru), k)
        BY <1>3, <2>1 DEF Touched
    <2>4. Coldest \in Rows
        BY <1>1, <2>1, <2>2 DEF Rows, ToSet
    <2>5. ASSUME NEW j \in Rows, j # Coldest PROVE j \in ToSet(Tail(lru))
        <3>1. PICK n \in 1 .. Len(lru) : lru[n] = j
            BY <1>1 DEF Rows, ToSet
        <3>2. n - 1 \in 1 .. Len(lru) - 1 /\ (n - 1) + 1 = n
            BY <1>1, <2>2, <2>5, <3>1
        <3>3. DOMAIN Tail(lru) = 1 .. Len(lru) - 1
            BY <2>2
        <3>4. Tail(lru)[n - 1] = j
            BY <2>2, <3>1, <3>2
        <3>. QED  BY <3>2, <3>3, <3>4 DEF ToSet
    <2>6. /\ Touched(k) \in Seq(Keys)
          /\ ToSet(Touched(k)) = ToSet(Tail(lru)) \cup {k}
        BY <2>2, <2>3, AppendRows, Zenon
    <2>. QED  BY <1>3, <2>1, <2>4, <2>5, <2>6
<1>4. CASE k \notin Rows /\ ~ Displaced(k)
    <2>1. Touched(k) = Append(lru, k)
        BY <1>4 DEF Touched
    <2>. QED  BY <1>4, <2>1, AppendRows DEF Rows
<1>. QED  BY <1>2, <1>3, <1>4

-----------------------------------------------------------------------------
(* A step that ends in side_get(k), where k's row is left with export x    *)

SideGot(k, x) ==
    /\ lru' = Touched(k) /\ lost' = Tally(k) /\ forgotten' = Forgot(k)
    /\ export' = Fields(k, export, x)

\* the key that loses an export by it, if one does
Gone(k) == IF Displaced(k) /\ export[Coldest] > 0 THEN {Coldest} ELSE {}

\* what the fields of the rows then are: k's is v, a displaced row's is none
Rewritten(k, f, v, none, g) ==
    /\ DOMAIN g = Keys /\ g[k] = v
    /\ \A j \in Keys :
          j # k => g[j] = IF Displaced(k) /\ j = Coldest THEN none ELSE f[j]

LEMMA FieldsFacts ==
    ASSUME NEW k \in Keys, NEW f \in [Keys -> Nat], NEW v \in Nat,
           NEW g, g = Fields(k, f, v)
    PROVE  g \in [Keys -> Nat] /\ Rewritten(k, f, v, 0, g)
BY DEF Fields, Rewritten

LEMMA TagsFacts ==
    ASSUME tagged \in [Keys -> BOOLEAN], NEW k \in Keys, NEW v \in BOOLEAN,
           NEW g, g = Tags(k, v)
    PROVE  g \in [Keys -> BOOLEAN] /\ Rewritten(k, tagged, v, FALSE, g)
<1>1. \A j \in Keys : tagged[j] \in BOOLEAN
    OBVIOUS
<1>2. g = [j \in Keys |-> IF j = k THEN v
                          ELSE tagged[j] /\ ~ (Displaced(k) /\ j = Coldest)]
    BY DEF Tags
<1>. QED  BY <1>1, <1>2 DEF Rewritten

LEMMA GotFacts ==
    ASSUME ExportTypes, ExportsAreRows, NEW k \in Keys, NEW x \in Nat, SideGot(k, x)
    PROVE  /\ lru' \in Seq(Keys) /\ export' \in [Keys -> Nat]
           /\ lost' \in Nat /\ forgotten' \in SUBSET Keys
           /\ k \in Rows' /\ export'[k] = x
           /\ \A j \in Keys :
                 j # k /\ export'[j] > 0 =>
                    export'[j] = export[j] /\ j \in Rows /\ j \in Rows'
<1>1. lru \in Seq(Keys) /\ export \in [Keys -> Nat] /\ lost \in Nat
    BY DEF ExportTypes
<1>2. /\ lru' \in Seq(Keys) /\ k \in Rows'
      /\ \A j \in Rows : ~ (Displaced(k) /\ j = Coldest) => j \in Rows'
      /\ Displaced(k) => Coldest \in Rows
    BY <1>1, TouchedFacts DEF SideGot, Rows
<1>3. export' \in [Keys -> Nat] /\ Rewritten(k, export, x, 0, export')
    BY <1>1, FieldsFacts DEF SideGot
<1>4. lost' \in Nat
    BY <1>1 DEF SideGot, Tally
<1>5. Rows \subseteq Keys
    BY <1>1 DEF Rows, ToSet
<1>6. forgotten' \in SUBSET Keys
    BY <1>2, <1>5 DEF SideGot, Forgot, ExportTypes
<1>7. ASSUME NEW j \in Keys, j # k, export'[j] > 0
      PROVE  export'[j] = export[j] /\ j \in Rows /\ j \in Rows'
    <2>1. ~ (Displaced(k) /\ j = Coldest) /\ export'[j] = export[j]
        BY <1>3, <1>7 DEF Rewritten
    <2>2. j \in Rows
        BY <1>7, <2>1 DEF ExportsAreRows
    <2>. QED  BY <1>2, <2>1, <2>2
<1>. QED  BY <1>2, <1>3, <1>4, <1>6, <1>7 DEF Rewritten

\* the tally goes up by the export lost
LEMMA GotTally ==
    ASSUME ExportTypes, ExportsAreRows, NEW k \in Keys, NEW x \in Nat, SideGot(k, x)
    PROVE  /\ IsFiniteSet(Gone(k)) /\ lost' = lost + Cardinality(Gone(k))
           /\ k \notin Gone(k)
           /\ \A j \in Gone(k) :
                 j \in Keys /\ lastFile[j] > 0 /\ export[j] > 0 /\ export'[j] = 0
           /\ \A j \in Keys \ Gone(k) :
                 j # k => (export'[j] = 0 <=> export[j] = 0)
<1>1. lru \in Seq(Keys) /\ export \in [Keys -> Nat] /\ lost \in Nat
    BY DEF ExportTypes
<1>2. Displaced(k) => Coldest \in Rows /\ Coldest # k
    BY <1>1, TouchedFacts
<1>3. Rows \subseteq Keys
    BY <1>1 DEF Rows, ToSet
<1>4. Rewritten(k, export, x, 0, export')
    BY <1>1, FieldsFacts DEF SideGot
<1>5. IsFiniteSet(Gone(k)) /\ lost' = lost + Cardinality(Gone(k))
    <2>1. CASE Displaced(k) /\ export[Coldest] > 0
        <3>1. Gone(k) = {Coldest} /\ lost' = lost + 1
            BY <2>1 DEF Gone, SideGot, Tally
        <3>. QED  BY <3>1, FS_Singleton
    <2>2. CASE ~ (Displaced(k) /\ export[Coldest] > 0)
        <3>1. Gone(k) = {} /\ lost' = lost
            BY <2>2 DEF Gone, SideGot, Tally
        <3>. QED  BY <1>1, <3>1, FS_EmptySet
    <2>. QED  BY <2>1, <2>2
<1>6. ASSUME NEW j \in Gone(k)
      PROVE  /\ j # k /\ j \in Keys
             /\ lastFile[j] > 0 /\ export[j] > 0 /\ export'[j] = 0
    <2>1. Displaced(k) /\ j = Coldest /\ export[j] > 0
        BY <1>6 DEF Gone
    <2>2. j # k /\ j \in Keys
        BY <1>2, <1>3, <2>1
    <2>. QED  BY <1>4, <2>1, <2>2 DEF ExportsAreRows, Rewritten
<1>7. ASSUME NEW j \in Keys \ Gone(k), j # k
      PROVE  export'[j] = 0 <=> export[j] = 0
    <2>1. Displaced(k) /\ j = Coldest => export[j] = 0
        BY <1>1, <1>7 DEF Gone
    <2>. QED  BY <1>4, <1>7, <2>1 DEF Rewritten
<1>. QED  BY <1>5, <1>6, <1>7

LEMMA DisjointUnion ==
    ASSUME NEW A, NEW B, IsFiniteSet(A), IsFiniteSet(B), A \cap B = {}
    PROVE  /\ IsFiniteSet(A \cup B)
           /\ Cardinality(A) \in Nat /\ Cardinality(B) \in Nat
           /\ Cardinality(A \cup B) = Cardinality(A) + Cardinality(B)
<1>1. Cardinality(A) \in Nat /\ Cardinality(B) \in Nat
    BY FS_CardinalityType
<1>2. /\ IsFiniteSet(A \cup B)
      /\ Cardinality(A \cup B)
            = Cardinality(A) + Cardinality(B) - Cardinality(A \cap B)
    BY FS_Union, Zenon
<1>3. Cardinality(A \cap B) = 0
    BY FS_EmptySet, Zenon
<1>. QED  BY <1>1, <1>2, <1>3

\* room for one more early file for each export lost
LEMMA TalliedKept ==
    ASSUME ExportTypes, ExportsAreRows, Tallied, NEW k \in Keys,
           SideGot(k, export[k]), UNCHANGED <<lastFile, early>>,
           steps' = 0 => steps = 0
    PROVE  Tallied'
<1>1. export[k] \in Nat /\ early \in Nat /\ lost \in Nat
    BY DEF ExportTypes
<1>2. /\ IsFiniteSet(Gone(k)) /\ lost' = lost + Cardinality(Gone(k))
      /\ k \notin Gone(k)
      /\ \A j \in Gone(k) :
            j \in Keys /\ lastFile[j] > 0 /\ export[j] > 0 /\ export'[j] = 0
      /\ \A j \in Keys \ Gone(k) :
            j # k => (export'[j] = 0 <=> export[j] = 0)
    BY <1>1, GotTally
<1>3. export'[k] = export[k]
    BY <1>1, GotFacts
<1>4. (Exposed') = Exposed \cup Gone(k) /\ Exposed \cap Gone(k) = {}
    BY <1>2, <1>3 DEF Exposed
<1>5. IsFiniteSet(Exposed') /\ IsFiniteSet(Exposed) /\ IsFiniteSet(Gone(k))
      /\ Cardinality(Exposed') = Cardinality(Exposed) + Cardinality(Gone(k))
      /\ Cardinality(Exposed) \in Nat /\ Cardinality(Gone(k)) \in Nat
    BY <1>2, <1>4, DisjointUnion DEF Tallied
<1>. QED  BY <1>1, <1>2, <1>5 DEF Tallied

\* an early file uses up what its key had been exposed to
LEMMA TalliedSpent ==
    ASSUME ExportTypes, ExportsAreRows, RowsAreTrue, Tallied,
           NEW k \in Keys, SideGot(k, wall), ~ CooldownActive(k),
           UNCHANGED steps, NEW n \in Nat \ {0},
           lastFile' = [lastFile EXCEPT ![k] = n],
           early' = IF lastFile[k] > 0 /\ mono - lastAt[k] < Cooldown
                    THEN early + 1 ELSE early
    PROVE  Tallied'
<1>1. /\ wall \in Nat \ {0} /\ early \in Nat /\ lost \in Nat
      /\ lastFile \in [Keys -> Nat] /\ export \in [Keys -> Nat]
    BY DEF ExportTypes
<1>2. /\ IsFiniteSet(Gone(k)) /\ lost' = lost + Cardinality(Gone(k))
      /\ k \notin Gone(k)
      /\ \A j \in Gone(k) :
            j \in Keys /\ lastFile[j] > 0 /\ export[j] > 0 /\ export'[j] = 0
      /\ \A j \in Keys \ Gone(k) :
            j # k => (export'[j] = 0 <=> export[j] = 0)
    BY <1>1, GotTally
<1>3. export'[k] = wall
    BY <1>1, GotFacts
<1>4. /\ (Exposed') = (Exposed \cup Gone(k)) \ {k}
      /\ Exposed \cap Gone(k) = {}
    BY <1>1, <1>2, <1>3 DEF Exposed
<1> DEFINE All == Exposed \cup Gone(k)
<1>5. /\ IsFiniteSet(All) /\ Cardinality(Exposed) \in Nat
      /\ Cardinality(All) = Cardinality(Exposed) + Cardinality(Gone(k))
      /\ Cardinality(Gone(k)) \in Nat
    BY <1>2, <1>4, DisjointUnion DEF Tallied
<1>6. /\ IsFiniteSet(Exposed')
      /\ Cardinality(Exposed') =
            IF k \in All THEN Cardinality(All) - 1 ELSE Cardinality(All)
    BY <1>4, <1>5, FS_RemoveElement
<1>7. steps = 0 /\ early' # early => k \in All
    <2> SUFFICES ASSUME steps = 0, early' # early PROVE k \in Exposed
        OBVIOUS
    <2>1. lastFile[k] > 0 /\ mono - lastAt[k] < Cooldown
        BY <1>1
    <2>2. ASSUME export[k] > 0 PROVE FALSE
        <3>1. /\ k \in Rows /\ export[k] <= wall
              /\ wall - export[k] = mono - lastAt[k]
            BY <2>2 DEF ExportsAreRows, RowsAreTrue
        <3>. QED  BY <1>1, <2>1, <2>2, <3>1 DEF CooldownActive
    <2>. QED  BY <1>1, <2>1, <2>2 DEF Exposed
<1>8. early' \in {early, early + 1}
    BY <1>1
<1>9. ASSUME steps = 0 PROVE early' + Cardinality(Exposed') <= lost'
    <2>1. early + Cardinality(Exposed) <= lost
        BY <1>9 DEF Tallied
    <2> HIDE DEF All
    <2>2. Cardinality(All) \in Nat
        BY <1>5
    <2>. QED  BY <1>1, <1>2, <1>5, <1>6, <1>7, <1>8, <1>9, <2>1, <2>2
<1>. QED  BY <1>6, <1>9 DEF Tallied

\* rows that keep their exports stay true
LEMMA GotRows ==
    ASSUME ExportTypes, ExportsAreRows, RowsAreTrue, NEW k \in Keys,
           SideGot(k, export[k]), rowPath' = Fields(k, rowPath, rowPath[k]),
           UNCHANGED <<wall, mono, steps, lastFile, lastAt>>
    PROVE  ExportsAreRows' /\ RowsAreTrue'
<1>1. /\ export \in [Keys -> Nat] /\ rowPath \in [Keys -> Nat]
      /\ export[k] \in Nat /\ rowPath[k] \in Nat
    BY DEF ExportTypes
<1>2. /\ k \in Rows' /\ export'[k] = export[k]
      /\ \A j \in Keys :
            j # k /\ export'[j] > 0 =>
               export'[j] = export[j] /\ j \in Rows /\ j \in Rows'
    BY <1>1, GotFacts
<1>3. Rewritten(k, export, export[k], 0, export')
    BY <1>1, FieldsFacts DEF SideGot
<1>4. Rewritten(k, rowPath, rowPath[k], 0, rowPath')
    BY <1>1, FieldsFacts
<1>5. ASSUME NEW j \in Keys, export'[j] > 0
      PROVE  export'[j] = export[j] /\ rowPath'[j] = rowPath[j]
    BY <1>3, <1>4, <1>5 DEF Rewritten
<1>6. ExportsAreRows'
    BY <1>2 DEF ExportsAreRows
<1>7. RowsAreTrue'
    BY <1>5 DEF RowsAreTrue
<1>. QED  BY <1>6, <1>7

\* nothing that keeps its export starts to cool
LEMMA GotCool ==
    ASSUME ExportTypes, ExportsAreRows, NEW k \in Keys, NEW x \in Nat,
           SideGot(k, x), UNCHANGED wall, NEW j \in Keys,
           j = k => x = export[k], CooldownActive(j)'
    PROVE  CooldownActive(j)
<1>1. export'[j] > 0 /\ export'[j] = export[j] /\ j \in Rows
    <2>1. export'[j] > 0
        BY DEF CooldownActive
    <2>2. CASE j = k
        BY <2>1, <2>2, GotFacts DEF ExportsAreRows
    <2>3. CASE j # k
        BY <2>1, <2>3, GotFacts
    <2>. QED  BY <2>2, <2>3, <2>1
<1>. QED  BY <1>1 DEF CooldownActive

\* what the next incident of a key would count, where its row is left as it
\* was, fresh or displaced
LEMMA GotCount ==
    ASSUME ExportTypes, RowsCount, NEW k \in Keys, SideGot(k, export'[k]),
           rowReopens' = Fields(k, rowReopens, rowReopens[k]),
           tagged' = Tags(k, tagged[k]), UNCHANGED opened
    PROVE  RowsCount'
<1>1. /\ lru \in Seq(Keys) /\ rowReopens \in [Keys -> Nat]
      /\ tagged \in [Keys -> BOOLEAN] /\ opened \in [Keys -> Nat]
      /\ rowReopens[k] \in Nat /\ tagged[k] \in BOOLEAN
    BY DEF ExportTypes
<1>2. rowReopens' \in [Keys -> Nat] /\ Rewritten(k, rowReopens, rowReopens[k], 0, rowReopens')
    BY <1>1, FieldsFacts
<1>3. tagged' \in [Keys -> BOOLEAN] /\ Rewritten(k, tagged, tagged[k], FALSE, tagged')
    BY <1>1, TagsFacts
<1>4. Displaced(k) => Coldest # k
    BY <1>1, TouchedFacts
<1>5. forgotten' = IF Displaced(k) THEN forgotten \cup {Coldest} ELSE forgotten
    BY DEF SideGot, Forgot
<1>6. ASSUME NEW j \in Keys
      PROVE  /\ Count(j)' <= opened'[j]
             /\ j \notin forgotten' => Count(j)' = opened'[j]
    <2>1. /\ Count(j) <= opened[j]
          /\ j \notin forgotten => Count(j) = opened[j]
        BY DEF RowsCount
    <2>2. CASE Displaced(k) /\ j = Coldest
        <3>1. rowReopens'[j] = 0 /\ ~ tagged'[j] /\ j \in forgotten'
            BY <1>2, <1>3, <1>4, <1>5, <2>2 DEF Rewritten
        <3>2. opened'[j] \in Nat
            BY <1>1
        <3>. QED  BY <3>1, <3>2 DEF Count
    <2>3. CASE ~ (Displaced(k) /\ j = Coldest)
        <3>1. rowReopens'[j] = rowReopens[j]
            BY <1>2, <2>3 DEF Rewritten
        <3>2. tagged'[j] = tagged[j]
            BY <1>3, <2>3, Zenon DEF Rewritten
        <3>3. j \notin forgotten' => j \notin forgotten
            BY <1>5
        <3>. QED  BY <2>1, <3>1, <3>2, <3>3 DEF Count
    <2>. QED  BY <2>2, <2>3
<1>. QED  BY <1>6 DEF RowsCount

-----------------------------------------------------------------------------
(* The steps                                                               *)

\* an incident opens: the key counts it, and gets back what its row knew
LEMMA TakeKeeps ==
    ASSUME ExportInv, NEW k \in Keys, NEW gone \in SUBSET Keys, Take(k, gone)
    PROVE  ExportInv'
<1>1. /\ ExportTypes /\ ExportsAreRows /\ RowsAreTrue /\ CoolPaths
      /\ Tallied /\ RowsCount /\ ReopensCounted
    BY DEF ExportInv
<1>2. /\ SideGot(k, export[k]) /\ export[k] \in Nat
      /\ UNCHANGED <<wall, mono, steps, files, lastFile, lastAt, early, todo>>
    BY <1>1 DEF Take, SideGot, ExportTypes, clocks
<1>3. /\ lru' \in Seq(Keys) /\ export' \in [Keys -> Nat]
      /\ lost' \in Nat /\ forgotten' \in SUBSET Keys
      /\ k \in Rows' /\ export'[k] = export[k]
      /\ \A j \in Keys :
            j # k /\ export'[j] > 0 =>
               export'[j] = export[j] /\ j \in Rows /\ j \in Rows'
    BY <1>1, <1>2, GotFacts
<1>4. /\ lru \in Seq(Keys) /\ rowReopens \in [Keys -> Nat]
      /\ rowPath \in [Keys -> Nat] /\ path \in [Keys -> Nat]
      /\ dumped \in [Keys -> Reasons]
      /\ reopens \in [Keys -> Nat] /\ present \in SUBSET Keys
      /\ tagged \in [Keys -> BOOLEAN] /\ opened \in [Keys -> Nat]
      /\ export \in [Keys -> Nat] /\ rowPath[k] \in Nat
    BY <1>1 DEF ExportTypes
<1> /\ rowReopens' = Fields(k, rowReopens, Count(k))
    /\ rowPath' = Fields(k, rowPath, rowPath[k]) /\ tagged' = Tags(k, TRUE)
    BY DEF Take
<1>5. Count(k) \in Nat
    BY <1>4 DEF Count
<1>6. rowReopens' \in [Keys -> Nat] /\ Rewritten(k, rowReopens, Count(k), 0, rowReopens')
    BY <1>4, <1>5, FieldsFacts
<1>7. tagged' \in [Keys -> BOOLEAN] /\ Rewritten(k, tagged, TRUE, FALSE, tagged')
    BY <1>4, TagsFacts
<1>8. rowPath' \in [Keys -> Nat] /\ Rewritten(k, rowPath, rowPath[k], 0, rowPath')
    BY <1>4, FieldsFacts
<1>9. /\ present' = (present \ gone) \cup {k}
      /\ dumped' = [dumped EXCEPT ![k] = "no"]
      /\ path' = [path EXCEPT ![k] = rowPath[k]]
      /\ reopens' = [reopens EXCEPT ![k] = Count(k)]
      /\ opened' = [opened EXCEPT ![k] = @ + 1] /\ opens' = opens + 1
    BY DEF Take
<1>10. ExportTypes'
    <2>1. /\ dumped' \in [Keys -> Reasons] /\ path' \in [Keys -> Nat]
          /\ reopens' \in [Keys -> Nat] /\ opened' \in [Keys -> Nat]
          /\ present' \in SUBSET Keys
        BY <1>4, <1>5, <1>9 DEF Reasons
    <2>2. opens' \in Nat
        BY <1>1, <1>9 DEF ExportTypes
    <2>. QED  BY <1>1, <1>2, <1>3, <1>6, <1>7, <1>8, <2>1, <2>2, Zenon
              DEF ExportTypes
<1>11. ExportsAreRows' /\ RowsAreTrue'
    BY <1>1, <1>2, GotRows
<1>12. CoolPaths'
    <2>1. ASSUME NEW j \in Keys, CooldownActive(j)' PROVE CooldownActive(j)
        BY <1>1, <1>2, <2>1, GotCool
    <2>2. CooldownActive(k) /\ steps = 0 => rowPath[k] = lastFile[k]
        BY <1>1 DEF CooldownActive, RowsAreTrue
    <2>3. /\ dumped'[k] = "no" /\ path'[k] = rowPath[k]
          /\ \A j \in Keys \ {k} : dumped'[j] = dumped[j] /\ path'[j] = path[j]
        BY <1>4, <1>9
    <2>. QED  BY <1>1, <1>2, <1>4, <1>9, <2>1, <2>2, <2>3 DEF CoolPaths
<1>13. Tallied'
    BY <1>1, <1>2, TalliedKept
<1>14. ASSUME NEW j \in Keys
       PROVE  /\ Count(j)' <= opened'[j]
              /\ j \notin forgotten' => Count(j)' = opened'[j]
    <2>1. /\ Count(j) <= opened[j] /\ opened[j] \in Nat
          /\ j \notin forgotten => Count(j) = opened[j]
        BY <1>1, <1>4 DEF RowsCount
    <2>2. Displaced(k) => Coldest # k
        BY <1>4, TouchedFacts
    <2>3. forgotten' = IF Displaced(k) THEN forgotten \cup {Coldest} ELSE forgotten
        BY DEF Take, Forgot
    <2>4. CASE j = k
        <3>1. Count(j)' = Count(j) + 1 /\ opened'[j] = opened[j] + 1
            BY <1>4, <1>6, <1>7, <1>9, <2>4 DEF Count, Rewritten
        <3>. QED  BY <1>5, <2>1, <2>3, <2>4, <3>1
    <2>5. CASE j # k /\ Displaced(k) /\ j = Coldest
        <3>1. rowReopens'[j] = 0 /\ ~ tagged'[j] /\ j \in forgotten'
            BY <1>6, <1>7, <2>3, <2>5 DEF Rewritten
        <3>2. opened'[j] \in Nat
            BY <1>4, <1>9, <2>5
        <3>. QED  BY <3>1, <3>2 DEF Count
    <2>6. CASE j # k /\ ~ (Displaced(k) /\ j = Coldest)
        <3>1. rowReopens'[j] = rowReopens[j] /\ opened'[j] = opened[j]
            BY <1>4, <1>6, <1>9, <2>6 DEF Rewritten
        <3>2. tagged'[j] = tagged[j]
            BY <1>7, <2>6, Zenon DEF Rewritten
        <3>3. j \notin forgotten' => j \notin forgotten
            BY <2>3
        <3>. QED  BY <2>1, <3>1, <3>2, <3>3 DEF Count
    <2>. QED  BY <2>4, <2>5, <2>6
<1>15. ReopensCounted'
    <2>1. forgotten \subseteq forgotten'
        BY DEF Take, Forgot
    <2>2. /\ reopens'[k] = Count(k) /\ opened'[k] = opened[k] + 1
          /\ \A j \in Keys \ {k} : reopens'[j] = reopens[j] /\ opened'[j] = opened[j]
        BY <1>4, <1>9
    <2>3. /\ Count(k) <= opened[k] /\ opened[k] \in Nat
          /\ k \notin forgotten => Count(k) = opened[k]
        BY <1>1, <1>4 DEF RowsCount
    <2>. QED  BY <1>1, <1>4, <1>5, <1>9, <2>1, <2>2, <2>3 DEF ReopensCounted
<1>16. RowsCount'
    BY <1>14 DEF RowsCount
<1>. QED  BY <1>10, <1>11, <1>12, <1>13, <1>15, <1>16 DEF ExportInv

\* a step that leaves the rows what they are, touched or not
LEMMA RowsSame ==
    ASSUME ExportInv, Rows \subseteq Rows',
           UNCHANGED <<wall, mono, steps, export, rowPath, tagged, rowReopens,
                       lost, lastFile, lastAt, early, opened, forgotten>>
    PROVE  /\ ExportsAreRows' /\ RowsAreTrue' /\ Tallied' /\ RowsCount'
           /\ \A j \in Keys : CooldownActive(j)' => CooldownActive(j)
<1>1. ExportsAreRows' /\ RowsAreTrue'
    BY DEF ExportInv, ExportsAreRows, RowsAreTrue
<1>2. Tallied'
    BY DEF ExportInv, Tallied, Exposed
<1>3. RowsCount'
    BY DEF ExportInv, RowsCount, Count
<1>4. \A j \in Keys : CooldownActive(j)' => CooldownActive(j)
    BY DEF ExportInv, ExportsAreRows, CooldownActive
<1>. QED  BY <1>1, <1>2, <1>3, <1>4

LEMMA FoundFacts ==
    ASSUME ExportInv, NEW k \in Keys, lru' = Found(k)
    PROVE  lru' \in Seq(Keys) /\ Rows \subseteq Rows'
<1>1. lru \in Seq(Keys)
    BY DEF ExportInv, ExportTypes
<1>2. CASE k \in Rows
    <2>1. lru' = Touched(k) /\ ~ Displaced(k)
        BY <1>2 DEF Found, Displaced
    <2>2. /\ Touched(k) \in Seq(Keys)
          /\ \A j \in Rows : j \in ToSet(Touched(k))
        BY <1>1, <2>1, TouchedFacts
    <2>. QED  BY <2>1, <2>2 DEF Rows
<1>3. CASE k \notin Rows
    BY <1>1, <1>3 DEF Found, Rows
<1>. QED  BY <1>2, <1>3

LEMMA DumpCoolKeeps == ASSUME ExportInv, NEW k \in Keys, DumpCool(k) PROVE ExportInv'
<1>1. /\ lru' \in Seq(Keys) /\ Rows \subseteq Rows'
      /\ UNCHANGED <<wall, mono, steps, export, rowPath, tagged, rowReopens,
                     lost, files, lastFile, lastAt, early, opens, opened,
                     forgotten, present, reopens, path>>
      /\ dumped' = [dumped EXCEPT ![k] = "cool"] /\ todo' = todo \ {k}
      /\ dumped[k] = "no" /\ CooldownActive(k)
    BY FoundFacts DEF DumpCool, Due, clocks
<1>2. /\ ExportsAreRows' /\ RowsAreTrue' /\ Tallied' /\ RowsCount'
      /\ \A j \in Keys : CooldownActive(j)' => CooldownActive(j)
    BY <1>1, RowsSame
<1>3. ExportTypes'
    <2>1. dumped' \in [Keys -> Reasons] /\ todo' \in SUBSET Keys
        BY <1>1 DEF ExportInv, ExportTypes, Reasons
    <2>. QED  BY <1>1, <2>1 DEF ExportInv, ExportTypes
<1>4. CoolPaths'
    <2>1. lastFile[k] > 0
        BY <1>1 DEF ExportInv, ExportsAreRows, CooldownActive
    <2>2. /\ dumped'[k] = "cool"
          /\ \A j \in Keys \ {k} : dumped'[j] = dumped[j]
          /\ present \subseteq Keys
        BY <1>1 DEF ExportInv, ExportTypes
    <2>. QED  BY <1>1, <1>2, <2>1, <2>2 DEF ExportInv, CoolPaths
<1>5. ReopensCounted'
    BY <1>1 DEF ExportInv, ReopensCounted
<1>. QED  BY <1>2, <1>3, <1>4, <1>5 DEF ExportInv

LEMMA DumpEmptyKeeps == ASSUME ExportInv, NEW k \in Keys, DumpEmpty(k) PROVE ExportInv'
<1>1. PICK p \in {0, path[k]} : path' = [path EXCEPT ![k] = p]
    BY Zenon DEF DumpEmpty
<1>2. /\ lru' \in Seq(Keys) /\ Rows \subseteq Rows'
      /\ UNCHANGED <<wall, mono, steps, export, rowPath, tagged, rowReopens,
                     lost, files, lastFile, lastAt, early, opens, opened,
                     forgotten, present, reopens>>
      /\ dumped' = [dumped EXCEPT ![k] = "empty"] /\ todo' = todo \ {k}
    BY FoundFacts DEF DumpEmpty, Due, clocks
<1>3. /\ ExportsAreRows' /\ RowsAreTrue' /\ Tallied' /\ RowsCount'
      /\ \A j \in Keys : CooldownActive(j)' => CooldownActive(j)
    BY <1>2, RowsSame
<1>4. ExportTypes'
    <2>1. /\ dumped' \in [Keys -> Reasons] /\ todo' \in SUBSET Keys
          /\ path' \in [Keys -> Nat]
        BY <1>1, <1>2 DEF ExportInv, ExportTypes, Reasons
    <2>. QED  BY <1>2, <2>1 DEF ExportInv, ExportTypes
<1>5. CoolPaths'
    <2>1. /\ dumped'[k] = "empty"
          /\ \A j \in Keys \ {k} : dumped'[j] = dumped[j] /\ path'[j] = path[j]
          /\ present \subseteq Keys
        BY <1>1, <1>2 DEF ExportInv, ExportTypes
    <2>. QED  BY <1>2, <1>3, <2>1 DEF ExportInv, CoolPaths
<1>6. ReopensCounted'
    BY <1>2 DEF ExportInv, ReopensCounted
<1>. QED  BY <1>3, <1>4, <1>5, <1>6 DEF ExportInv

LEMMA DumpFailKeeps == ASSUME ExportInv, NEW k \in Keys, DumpFail(k) PROVE ExportInv'
<1>1. PICK r \in {"no", "refused"} : dumped' = [dumped EXCEPT ![k] = r]
    BY Zenon DEF DumpFail
<1>2. /\ ExportTypes /\ ExportsAreRows /\ RowsAreTrue /\ CoolPaths
      /\ Tallied /\ RowsCount /\ ReopensCounted
    BY DEF ExportInv
<1>3. /\ SideGot(k, export[k]) /\ export[k] \in Nat
      /\ UNCHANGED <<wall, mono, steps, files, lastFile, lastAt, early,
                     opens, opened, present, reopens>>
      /\ todo' = todo \ {k} /\ path' = [path EXCEPT ![k] = 0]
      /\ ~ CooldownActive(k)
      /\ rowPath' = Fields(k, rowPath, rowPath[k])
      /\ tagged' = Tags(k, tagged[k])
      /\ rowReopens' = Fields(k, rowReopens, rowReopens[k])
    BY <1>2 DEF DumpFail, Due, SideGot, ExportTypes, clocks
<1>4. ExportTypes'
    <2>1. /\ lru' \in Seq(Keys) /\ export' \in [Keys -> Nat]
          /\ lost' \in Nat /\ forgotten' \in SUBSET Keys
        BY <1>2, <1>3, GotFacts
    <2>2. /\ rowPath \in [Keys -> Nat] /\ rowPath[k] \in Nat
          /\ rowReopens \in [Keys -> Nat] /\ rowReopens[k] \in Nat
          /\ tagged \in [Keys -> BOOLEAN] /\ tagged[k] \in BOOLEAN
        BY <1>2 DEF ExportTypes
    <2>3. rowPath' \in [Keys -> Nat] /\ rowReopens' \in [Keys -> Nat]
        BY <1>3, <2>2, FieldsFacts
    <2>4. tagged' \in [Keys -> BOOLEAN]
        BY <1>3, <2>2, TagsFacts
    <2>5. /\ dumped' \in [Keys -> Reasons] /\ todo' \in SUBSET Keys
          /\ path' \in [Keys -> Nat]
        BY <1>1, <1>2, <1>3 DEF ExportTypes, Reasons
    <2>. QED  BY <1>2, <1>3, <2>1, <2>3, <2>4, <2>5, Zenon DEF ExportTypes
<1>5. ExportsAreRows' /\ RowsAreTrue'
    BY <1>2, <1>3, GotRows
<1>6. CoolPaths'
    <2>1. \A j \in Keys : CooldownActive(j)' => CooldownActive(j)
        BY <1>2, <1>3, GotCool
    <2>2. /\ dumped'[k] # "cool"
          /\ \A j \in Keys \ {k} : dumped'[j] = dumped[j] /\ path'[j] = path[j]
          /\ present \subseteq Keys
        BY <1>1, <1>2, <1>3 DEF ExportTypes
    <2>. QED  BY <1>2, <1>3, <2>1, <2>2 DEF CoolPaths
<1>7. Tallied'
    BY <1>2, <1>3, TalliedKept
<1>8. RowsCount'
    <2>1. SideGot(k, export'[k])
        <3>1. export'[k] = export[k]
            BY <1>2, <1>3, GotFacts
        <3>. QED  BY <1>3, <3>1
    <2>. QED  BY <1>2, <1>3, <2>1, GotCount
<1>9. ReopensCounted'
    <2>1. forgotten \subseteq forgotten'
        BY <1>3 DEF SideGot, Forgot
    <2>. QED  BY <1>2, <1>3, <2>1 DEF ReopensCounted
<1>. QED  BY <1>4, <1>5, <1>6, <1>7, <1>8, <1>9 DEF ExportInv

LEMMA DumpWriteKeeps == ASSUME ExportInv, NEW k \in Keys, DumpWrite(k) PROVE ExportInv'
<1>1. /\ ExportTypes /\ ExportsAreRows /\ RowsAreTrue /\ CoolPaths
      /\ Tallied /\ RowsCount /\ ReopensCounted
    BY DEF ExportInv
<1>2. /\ SideGot(k, wall) /\ wall \in Nat \ {0} /\ files' = files + 1
      /\ UNCHANGED <<wall, mono, steps, opens, opened, present, reopens>>
      /\ todo' = todo \ {k} /\ ~ CooldownActive(k)
      /\ dumped' = [dumped EXCEPT ![k] = "wrote"]
      /\ path' = [path EXCEPT ![k] = files']
      /\ rowPath' = Fields(k, rowPath, files')
      /\ tagged' = Tags(k, tagged[k])
      /\ rowReopens' = Fields(k, rowReopens, rowReopens[k])
      /\ lastFile' = [lastFile EXCEPT ![k] = files']
      /\ lastAt' = [lastAt EXCEPT ![k] = mono]
      /\ early' = IF lastFile[k] > 0 /\ mono - lastAt[k] < Cooldown
                  THEN early + 1 ELSE early
    BY <1>1 DEF DumpWrite, Due, SideGot, ExportTypes, clocks
<1>3. /\ lru' \in Seq(Keys) /\ export' \in [Keys -> Nat]
      /\ lost' \in Nat /\ forgotten' \in SUBSET Keys
      /\ k \in Rows' /\ export'[k] = wall
      /\ \A j \in Keys :
            j # k /\ export'[j] > 0 =>
               export'[j] = export[j] /\ j \in Rows /\ j \in Rows'
    BY <1>1, <1>2, GotFacts
<1>4. /\ rowPath \in [Keys -> Nat] /\ export \in [Keys -> Nat]
      /\ rowReopens \in [Keys -> Nat] /\ rowReopens[k] \in Nat
      /\ tagged \in [Keys -> BOOLEAN] /\ tagged[k] \in BOOLEAN
      /\ files' \in Nat \ {0} /\ mono \in Nat
      /\ lastFile \in [Keys -> Nat] /\ lastAt \in [Keys -> Nat]
      /\ dumped \in [Keys -> Reasons] /\ path \in [Keys -> Nat]
      /\ present \subseteq Keys
    BY <1>1, <1>2 DEF ExportTypes
<1>5. Rewritten(k, export, wall, 0, export')
    BY <1>2, <1>4, FieldsFacts DEF SideGot
<1>6. rowPath' \in [Keys -> Nat] /\ Rewritten(k, rowPath, files', 0, rowPath')
    BY <1>2, <1>4, FieldsFacts
<1>7. /\ lastFile'[k] = files' /\ lastAt'[k] = mono
      /\ \A j \in Keys \ {k} :
            lastFile'[j] = lastFile[j] /\ lastAt'[j] = lastAt[j]
    BY <1>2, <1>4
<1>8. ExportTypes'
    <2>1. rowReopens' \in [Keys -> Nat]
        BY <1>2, <1>4, FieldsFacts
    <2>2. tagged' \in [Keys -> BOOLEAN]
        BY <1>2, <1>4, TagsFacts
    <2>3. /\ dumped' \in [Keys -> Reasons] /\ todo' \in SUBSET Keys
          /\ path' \in [Keys -> Nat] /\ lastFile' \in [Keys -> Nat]
          /\ lastAt' \in [Keys -> Nat]
        BY <1>1, <1>2, <1>4 DEF ExportTypes, Reasons
    <2>4. early' \in Nat /\ files' \in Nat
        BY <1>1, <1>2 DEF ExportTypes
    <2>. QED  BY <1>1, <1>2, <1>3, <1>6, <2>1, <2>2, <2>3, <2>4, Zenon
              DEF ExportTypes
<1>9. ExportsAreRows'
    <2>1. \A j \in Keys \ {k} :
             export'[j] > 0 => j \in Rows' /\ lastFile'[j] > 0
        BY <1>1, <1>3, <1>7 DEF ExportsAreRows
    <2>2. k \in Rows' /\ lastFile'[k] > 0
        BY <1>3, <1>4, <1>7
    <2>. QED  BY <2>1, <2>2 DEF ExportsAreRows
<1>10. RowsAreTrue'
    <2>1. ASSUME NEW j \in Keys, j # k, export'[j] > 0
          PROVE  export'[j] = export[j] /\ rowPath'[j] = rowPath[j]
        BY <1>5, <1>6, <2>1 DEF Rewritten
    <2>2. rowPath'[k] = files'
        BY <1>6 DEF Rewritten
    <2>3. ASSUME steps' = 0
          PROVE  /\ wall' = mono'
                 /\ \A j \in Keys \ {k} :
                       export'[j] > 0 =>
                          /\ export'[j] = lastAt'[j] /\ export'[j] <= wall'
                          /\ rowPath'[j] = lastFile'[j]
        BY <1>1, <1>2, <1>7, <2>1, <2>3 DEF RowsAreTrue
    <2>4. ASSUME steps' = 0
          PROVE  /\ export'[k] = lastAt'[k] /\ export'[k] <= wall'
                 /\ rowPath'[k] = lastFile'[k]
        BY <1>2, <1>3, <1>7, <2>2, <2>3, <2>4
    <2>. QED  BY <2>3, <2>4 DEF RowsAreTrue
<1>11. CoolPaths'
    <2>1. ASSUME NEW j \in Keys, j # k, CooldownActive(j)'
          PROVE  CooldownActive(j)
        BY <1>1, <1>2, <2>1, GotCool
    <2>2. /\ dumped'[k] = "wrote"
          /\ \A j \in Keys \ {k} : dumped'[j] = dumped[j] /\ path'[j] = path[j]
        BY <1>2, <1>4
    <2>. QED  BY <1>1, <1>2, <1>4, <1>7, <2>1, <2>2 DEF CoolPaths
<1>12. Tallied'
    BY <1>1, <1>2, <1>4, TalliedSpent
<1>13. RowsCount'
    BY <1>1, <1>2, <1>3, GotCount
<1>14. ReopensCounted'
    <2>1. forgotten \subseteq forgotten'
        BY <1>2 DEF SideGot, Forgot
    <2>. QED  BY <1>1, <1>2, <2>1 DEF ReopensCounted
<1>. QED  BY <1>8, <1>9, <1>10, <1>11, <1>12, <1>13, <1>14 DEF ExportInv

LEMMA ClearKeeps == ASSUME ExportInv, Clear PROVE ExportInv'
<1>1. /\ present' = {} /\ lru' = <<>> /\ forgotten' = {}
      /\ dumped' = [k \in Keys |-> "no"] /\ path' = [k \in Keys |-> 0]
      /\ reopens' = [k \in Keys |-> 0] /\ export' = [k \in Keys |-> 0]
      /\ rowPath' = [k \in Keys |-> 0] /\ rowReopens' = [k \in Keys |-> 0]
      /\ tagged' = [k \in Keys |-> FALSE] /\ opened' = [k \in Keys |-> 0]
      /\ lastFile' = [k \in Keys |-> 0] /\ lastAt' = [k \in Keys |-> 0]
      /\ UNCHANGED <<wall, mono, steps, todo, lost, files, early, opens>>
    BY DEF Clear, clocks
<1>2. /\ wall \in Nat \ {0} /\ mono \in Nat /\ steps \in Nat
      /\ todo \in SUBSET Keys /\ lost \in Nat /\ files \in Nat
      /\ early \in Nat /\ opens \in Nat
      /\ IsFiniteSet(Exposed) /\ (steps = 0 => early + Cardinality(Exposed) <= lost)
      /\ (steps = 0 => wall = mono)
    BY DEF ExportInv, ExportTypes, Tallied, RowsAreTrue
<1>3. ExportTypes'
    <2>1. /\ present' \in SUBSET Keys /\ forgotten' \in SUBSET Keys
          /\ lru' \in Seq(Keys)
        BY <1>1
    <2>2. dumped' \in [Keys -> Reasons]
        BY <1>1 DEF Reasons
    <2>3. /\ path' \in [Keys -> Nat] /\ reopens' \in [Keys -> Nat]
          /\ export' \in [Keys -> Nat] /\ rowPath' \in [Keys -> Nat]
          /\ rowReopens' \in [Keys -> Nat] /\ opened' \in [Keys -> Nat]
          /\ lastFile' \in [Keys -> Nat] /\ lastAt' \in [Keys -> Nat]
          /\ tagged' \in [Keys -> BOOLEAN]
        BY <1>1
    <2>. QED  BY <1>1, <1>2, <2>1, <2>2, <2>3, Zenon DEF ExportTypes
<1>4. \A k \in Keys : ~ (export'[k] > 0)
    BY <1>1
<1>5. ExportsAreRows' /\ RowsAreTrue' /\ CoolPaths' /\ ReopensCounted'
    BY <1>1, <1>2, <1>4 DEF ExportsAreRows, RowsAreTrue, CoolPaths, ReopensCounted
<1>6. Tallied'
    <2>1. (Exposed') = {}
        BY <1>1 DEF Exposed
    <2>2. Cardinality(Exposed) \in Nat
        BY <1>2, FS_CardinalityType
    <2>3. IsFiniteSet(Exposed') /\ Cardinality(Exposed') = 0
        BY <2>1, FS_EmptySet
    <2>. QED  BY <1>1, <1>2, <2>2, <2>3 DEF Tallied
<1>7. RowsCount'
    BY <1>1 DEF RowsCount, Count
<1>. QED  BY <1>3, <1>5, <1>6, <1>7 DEF ExportInv

\* the clocks: while only ticks moved them, what cools only ever stops to
LEMMA ClockKeeps == ASSUME ExportInv, Tick \/ StepWall PROVE ExportInv'
<1>1. /\ UNCHANGED <<todo, present, dumped, path, reopens, lru, export, rowPath,
                     tagged, rowReopens, lost, files, lastFile, lastAt,
                     early, opens, opened, forgotten>>
    BY DEF Tick, StepWall, entries, side, history
<1>2. \/ wall' = wall + 1 /\ mono' = mono + 1 /\ steps' = steps
      \/ wall' \in Nat \ {0} /\ mono' = mono /\ steps' = steps + 1
    BY ExportAssumption DEF Tick, StepWall, Times
<1>3. wall \in Nat \ {0} /\ mono \in Nat /\ steps \in Nat
    BY DEF ExportInv, ExportTypes
<1>4. /\ wall' \in Nat \ {0} /\ mono' \in Nat /\ steps' \in Nat
      /\ steps' = 0 => steps = 0 /\ wall' = wall + 1 /\ mono' = mono + 1
    BY <1>2, <1>3
<1>5. ExportTypes'
    BY <1>1, <1>4, Zenon DEF ExportInv, ExportTypes
<1>6. ExportsAreRows' /\ RowsCount' /\ ReopensCounted'
    BY <1>1 DEF ExportInv, ExportsAreRows, Rows, RowsCount, Count, ReopensCounted
<1>7. Tallied'
    BY <1>1, <1>4 DEF ExportInv, Tallied, Exposed
<1>8. \A k \in Keys : export[k] \in Nat /\ (export'[k]) = export[k]
    BY <1>1 DEF ExportInv, ExportTypes
<1>9. RowsAreTrue'
    BY <1>1, <1>3, <1>4, <1>8 DEF ExportInv, RowsAreTrue
<1>10. CoolPaths'
    <2>1. ASSUME steps' = 0, NEW k \in Keys, CooldownActive(k)'
          PROVE  CooldownActive(k)
        <3>1. export[k] <= wall
            BY <1>1, <1>4, <2>1 DEF ExportInv, RowsAreTrue, CooldownActive
        <3>. QED  BY <1>1, <1>3, <1>4, <1>8, <2>1, <3>1, ExportAssumption
                  DEF CooldownActive, Rows
    <2>2. present \subseteq Keys
        BY DEF ExportInv, ExportTypes
    <2>. QED  BY <1>1, <1>4, <2>1, <2>2 DEF ExportInv, CoolPaths
<1>. QED  BY <1>5, <1>6, <1>7, <1>9, <1>10 DEF ExportInv

\* the steps that only move the poll along
LEMMA OtherStepsKeep ==
    ASSUME ExportInv,
           \/ BeginPoll \/ EndRules \/ EndPoll
           \/ (\E k \in Keys : DumpSkip(k)) \/ UNCHANGED vars
    PROVE  ExportInv'
<1>1. /\ UNCHANGED <<clocks, entries, side, history>>
      /\ todo' \in SUBSET Keys
    BY DEF ExportInv, ExportTypes, BeginPoll, EndRules, EndPoll, DumpSkip, vars
<1>2. UNCHANGED <<wall, mono, steps, present, dumped, path, reopens, lru, export,
                  rowPath, tagged, rowReopens, lost, files, lastFile, lastAt,
                  early, opens, opened, forgotten>>
    BY <1>1 DEF clocks, entries, side, history
<1>3. /\ ExportsAreRows' /\ RowsAreTrue' /\ Tallied' /\ RowsCount'
      /\ \A j \in Keys : CooldownActive(j)' => CooldownActive(j)
    <2>1. Rows \subseteq Rows'
        BY <1>2 DEF Rows
    <2>. QED  BY <1>2, <2>1, RowsSame
<1>4. ExportTypes'
    BY <1>1, <1>2, Zenon DEF ExportInv, ExportTypes
<1>5. CoolPaths' /\ ReopensCounted'
    <2>1. present \subseteq Keys
        BY DEF ExportInv, ExportTypes
    <2>. QED  BY <1>2, <1>3, <2>1
              DEF ExportInv, CoolPaths, ReopensCounted
<1>. QED  BY <1>3, <1>4, <1>5 DEF ExportInv

LEMMA ExportInit == Init => ExportInv
<1> SUFFICES ASSUME Init PROVE ExportInv
    OBVIOUS
<1>1. ExportTypes
    <2>1. /\ present \in SUBSET Keys /\ forgotten \in SUBSET Keys
          /\ lru \in Seq(Keys) /\ todo \in SUBSET Keys
        BY DEF Init
    <2>2. dumped \in [Keys -> Reasons]
        BY DEF Init, Reasons
    <2>3. /\ path \in [Keys -> Nat] /\ reopens \in [Keys -> Nat]
          /\ export \in [Keys -> Nat] /\ rowPath \in [Keys -> Nat]
          /\ rowReopens \in [Keys -> Nat] /\ opened \in [Keys -> Nat]
          /\ lastFile \in [Keys -> Nat] /\ lastAt \in [Keys -> Nat]
          /\ tagged \in [Keys -> BOOLEAN]
        BY DEF Init
    <2>4. /\ wall \in Nat \ {0} /\ mono \in Nat /\ steps \in Nat
          /\ lost \in Nat /\ files \in Nat /\ early \in Nat /\ opens \in Nat
        BY DEF Init
    <2>. QED  BY <2>1, <2>2, <2>3, <2>4 DEF ExportTypes
<1>2. Tallied
    <2>1. Exposed = {}
        BY DEF Init, Exposed
    <2>. QED  BY <2>1, FS_EmptySet DEF Init, Tallied
<1>. QED  BY <1>1, <1>2 DEF Init, ExportInv, ExportsAreRows, RowsAreTrue,
          CoolPaths, RowsCount, Count, ReopensCounted

LEMMA ExportStep == ExportInv /\ [Next]_vars => ExportInv'
<1> SUFFICES ASSUME ExportInv, [Next]_vars PROVE ExportInv'
    OBVIOUS
<1>1. ASSUME NEW k \in Keys, Open(k) PROVE ExportInv'
    BY <1>1, TakeKeeps DEF Open
<1>2. ASSUME NEW k \in Keys, OpenOver(k) PROVE ExportInv'
    <2>1. present \subseteq Keys
        BY DEF ExportInv, ExportTypes
    <2>2. PICK j \in present : Take(k, {j})
        BY <1>2 DEF OpenOver
    <2>. QED  BY <2>1, <2>2, TakeKeeps
<1>3. ASSUME NEW k \in Keys, DumpCool(k) PROVE ExportInv'
    BY <1>3, DumpCoolKeeps
<1>4. ASSUME NEW k \in Keys, DumpWrite(k) PROVE ExportInv'
    BY <1>4, DumpWriteKeeps
<1>5. ASSUME NEW k \in Keys, DumpEmpty(k) PROVE ExportInv'
    BY <1>5, DumpEmptyKeeps
<1>6. ASSUME NEW k \in Keys, DumpFail(k) PROVE ExportInv'
    BY <1>6, DumpFailKeeps
<1>. QED  BY <1>1, <1>2, <1>3, <1>4, <1>5, <1>6, ClearKeeps, ClockKeeps,
             OtherStepsKeep, Zenon DEF Next

LEMMA ExportInvHolds == Spec => []ExportInv
BY ExportInit, ExportStep, PTL DEF Spec

-----------------------------------------------------------------------------
(* The specification                                                       *)

\* While the wall clock runs true, each file written within a key's cooldown
\* was paid for by a row the LRU displaced and pcap_cooldown's tally counted:
\* the keys still exposed are the tally not yet used up (side_get() in
\* src/alerts/engine.c).
THEOREM DuplicatesStayTallied == Spec => []DuplicatesAreTallied
<1>1. ExportInv => DuplicatesAreTallied
    <2> SUFFICES ASSUME ExportInv, steps = 0 PROVE early <= lost
        BY DEF DuplicatesAreTallied
    <2>1. Cardinality(Exposed) \in Nat
        BY FS_CardinalityType DEF ExportInv, Tallied
    <2>. QED  BY <2>1 DEF ExportInv, Tallied, ExportTypes
<1>. QED  BY <1>1, ExportInvHolds, PTL

\* An incident told that its key is cooling names a file of the key that was
\* really written: what fire_inv() put into the entry is what the side row
\* said, and only a file starts a cooldown (dump_new_alert_pcaps() in
\* src/alerts/engine.c).
THEOREM CoolNamesAFile == Spec => []CoolNamesFile
<1>1. ExportInv => CoolNamesFile
    BY DEF ExportInv, CoolPaths, CoolNamesFile
<1>. QED  BY <1>1, ExportInvHolds, PTL

\* reopen_count is never too high, and exact while the key's row was not lost,
\* whatever exports touch the row in between (fire_inv() in
\* src/alerts/engine.c).
THEOREM ReopensAreCounted == Spec => []ReopensCounted
<1>1. ExportInv => ReopensCounted
    BY DEF ExportInv, ReopensCounted
<1>. QED  BY <1>1, ExportInvHolds, PTL
=============================================================================
