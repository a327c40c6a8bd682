------------------------- MODULE HlsPlaylist_proofs -------------------------
(***************************************************************************)
(* Proofs about the analysis and the planning of a playlist of any length. *)
(* HlsInv says what the two loops have collected by the line they are at;  *)
(* both are explained by Since, the lines of a kind since the last URI.    *)
(***************************************************************************)
EXTENDS HlsPlaylist, FiniteSetTheorems, SequenceTheorems, WellFoundedInduction, TLAPS

-----------------------------------------------------------------------------
(* Playlists. *)

LEMMA MarksFinite == IsFiniteSet(Marks)
  <1>1. /\ IsFiniteSet({"key_none", "key_encrypted"}) /\ IsFiniteSet({"key_unclear", "key_eme"})
        /\ IsFiniteSet({"key_hidden"}) /\ IsFiniteSet({"media_sequence", "target_duration"})
        /\ IsFiniteSet({"bad_value", "map"}) /\ IsFiniteSet({"headerless"})
    <2>1. \A x, y: IsFiniteSet({x, y})
      <3> TAKE x, y
      <3>1. IsFiniteSet({x})
        BY FS_Singleton
      <3>2. IsFiniteSet({x} \cup {y})
        BY <3>1, FS_AddElement
      <3>3. {x, y} = {x} \cup {y}
        OBVIOUS
      <3> QED
        BY <3>2, <3>3
    <2> QED
      BY <2>1, FS_Singleton
  <1>2. Marks = (({"key_none", "key_encrypted"} \cup {"key_unclear", "key_eme"}) \cup {"key_hidden"})
                \cup (({"media_sequence", "target_duration"} \cup {"bad_value", "map"}) \cup {"headerless"})
    BY DEF Marks, KeyMarks, VisibleKeys
  <1>3. IsFiniteSet({"key_none", "key_encrypted"} \cup {"key_unclear", "key_eme"})
    BY <1>1, FS_Union
  <1>4. IsFiniteSet({"media_sequence", "target_duration"} \cup {"bad_value", "map"})
    BY <1>1, FS_Union
  <1>5. IsFiniteSet(({"key_none", "key_encrypted"} \cup {"key_unclear", "key_eme"}) \cup {"key_hidden"})
    BY <1>1, <1>3, FS_Union
  <1>6. IsFiniteSet(({"media_sequence", "target_duration"} \cup {"bad_value", "map"}) \cup {"headerless"})
    BY <1>1, <1>4, FS_Union
  <1> QED
    BY <1>2, <1>5, <1>6, FS_Union

LEMMA PlaylistShape ==
    ASSUME NEW t \in Playlists
    PROVE  /\ t.body \in Seq(Lines) /\ Len(t.body) \in Nat /\ DOMAIN t.body = 1..Len(t.body)
           /\ t.marks \in SUBSET Marks
           /\ Cardinality(t.marks) \in Nat /\ Len(t.body) + Cardinality(t.marks) <= MaxLines
           /\ t = [marks |-> t.marks, body |-> t.body]
  <1>1. PICK n \in 0..MaxLines:
           t \in [marks: {m \in SUBSET Marks: Cardinality(m) <= MaxLines - n}, body: [1..n -> Lines]]
    BY DEF Playlists
  <1>2. n \in Nat
    BY <1>1, PlaylistAssumption
  <1>3. t.body \in Seq(Lines) /\ Len(t.body) = n
    BY <1>1, <1>2
  <1>4. t.marks \in SUBSET Marks /\ Cardinality(t.marks) <= MaxLines - n
    BY <1>1
  <1>5. Cardinality(t.marks) \in Nat
    BY <1>4, MarksFinite, FS_Subset, FS_CardinalityType
  <1>6. DOMAIN t.body = 1..Len(t.body)
    BY <1>3
  <1> QED
    BY <1>1, <1>2, <1>3, <1>4, <1>5, <1>6, PlaylistAssumption

LEMMA PlaylistMade ==
    ASSUME NEW b \in Seq(Lines), NEW m \in SUBSET Marks, Len(b) + Cardinality(m) <= MaxLines
    PROVE  [marks |-> m, body |-> b] \in Playlists
  <1>1. Len(b) \in Nat /\ Cardinality(m) \in Nat /\ b \in [1..Len(b) -> Lines]
    BY MarksFinite, FS_Subset, FS_CardinalityType, LenProperties
  <1>2. Len(b) \in 0..MaxLines /\ Cardinality(m) <= MaxLines - Len(b)
    BY <1>1, PlaylistAssumption
  <1> QED
    BY <1>1, <1>2 DEF Playlists

LEMMA NoTextServed == NoText \in Playlists
  <1>1. <<>> \in Seq(Lines) /\ {} \in SUBSET Marks
    OBVIOUS
  <1>2. Len(<<>>) + Cardinality({}) <= MaxLines
    BY FS_EmptySet, PlaylistAssumption
  <1>3. [marks |-> {}, body |-> <<>>] \in Playlists
    BY <1>1, <1>2, PlaylistMade
  <1> QED
    BY <1>3 DEF NoText

-----------------------------------------------------------------------------
(* Since, line by line. *)

LEMMA SinceStart ==
    ASSUME NEW t, NEW kind
    PROVE  Since(t, 1, kind) = {}
  BY DEF Since

LEMMA SinceNext ==
    ASSUME NEW t, NEW i \in Nat \ {0}, NEW kind, kind \notin Uris
    PROVE  Since(t, i + 1, kind) =
             IF t.body[i] \in Uris THEN {}
             ELSE IF t.body[i] = kind THEN Since(t, i, kind) \cup {i}
             ELSE Since(t, i, kind)
  <1>1. \A j \in 1..i: j \in Since(t, i + 1, kind) <=>
            t.body[j] = kind /\ \A k \in j..i: t.body[k] \notin Uris
    BY DEF Since
  <1>2. \A j \in 1..(i - 1): j \in Since(t, i, kind) <=>
            t.body[j] = kind /\ \A k \in j..(i - 1): t.body[k] \notin Uris
    BY DEF Since
  <1>3. Since(t, i + 1, kind) \subseteq 1..i /\ Since(t, i, kind) \subseteq 1..(i - 1)
    BY DEF Since
  <1>4. CASE t.body[i] \in Uris
    <2>1. \A j \in 1..i: i \in j..i
      OBVIOUS
    <2> QED
      BY <1>1, <1>3, <1>4, <2>1
  <1>5. CASE t.body[i] \notin Uris
    <2>1. \A j \in 1..(i - 1): j \in Since(t, i + 1, kind) <=> j \in Since(t, i, kind)
      <3> SUFFICES ASSUME NEW j \in 1..(i - 1)
                   PROVE  j \in Since(t, i + 1, kind) <=> j \in Since(t, i, kind)
        OBVIOUS
      <3>1. j..i = (j..(i - 1)) \cup {i} /\ j \in 1..i
        OBVIOUS
      <3> QED
        BY <1>1, <1>2, <1>5, <3>1
    <2>2. i \in Since(t, i + 1, kind) <=> t.body[i] = kind
      <3>1. i..i = {i} /\ i \in 1..i
        OBVIOUS
      <3> QED
        BY <1>1, <1>5, <3>1
    <2>3. \A j \in 1..i: j = i \/ j \in 1..(i - 1)
      OBVIOUS
    <2>4. i \notin Since(t, i, kind)
      BY <1>3
    <2>5. \A j: j \in Since(t, i + 1, kind) <=>
                 j \in Since(t, i, kind) \/ (j = i /\ t.body[i] = kind)
      BY <1>3, <2>1, <2>2, <2>3, <2>4
    <2>6. CASE t.body[i] = kind
      <3>1. Since(t, i + 1, kind) = Since(t, i, kind) \cup {i}
        BY <2>5, <2>6
      <3> QED
        BY <1>5, <2>6, <3>1
    <2>7. CASE t.body[i] # kind
      <3>1. Since(t, i + 1, kind) = Since(t, i, kind)
        BY <2>5, <2>7
      <3> QED
        BY <1>5, <2>7, <3>1
    <2> QED
      BY <2>6, <2>7
  <1> QED
    BY <1>4, <1>5

\* The kind of the last STREAM-INF since the last URI, line by line.
LEMMA LastInfStart ==
    ASSUME NEW t, NEW kind
    PROVE  ~LastInf(t, 1, kind)
  BY SinceStart DEF LastInf

LEMMA LastInfNext ==
    ASSUME NEW t, NEW i \in Nat \ {0}, NEW kind \in StreamInfs
    PROVE  LastInf(t, i + 1, kind) <=>
             IF t.body[i] \in Uris THEN FALSE
             ELSE IF t.body[i] \in StreamInfs THEN t.body[i] = kind
             ELSE LastInf(t, i, kind)
  <1>1. kind \notin Uris
    BY DEF StreamInfs, Uris
  <1>2. \A n \in Nat: \A k: Since(t, n, k) \subseteq 1..(n - 1)
    BY DEF Since
  <1>3. CASE t.body[i] \in Uris
    BY <1>1, <1>3, SinceNext DEF LastInf
  <1>4. CASE t.body[i] \notin Uris /\ t.body[i] = kind
    <2>1. i \in Since(t, i + 1, kind)
      BY <1>1, <1>4, SinceNext
    <2>2. \A k \in i..(i + 1 - 1): k = i
      OBVIOUS
    <2> QED
      BY <1>4, <2>1, <2>2 DEF LastInf
  <1>5. CASE t.body[i] \notin Uris /\ t.body[i] \in StreamInfs /\ t.body[i] # kind
    <2>1. \A j \in Since(t, i + 1, kind): i \in j..(i + 1 - 1)
      BY <1>2
    <2> QED
      BY <1>5, <2>1 DEF LastInf
  <1>6. CASE t.body[i] \notin Uris /\ t.body[i] \notin StreamInfs
    <2>1. Since(t, i + 1, kind) = Since(t, i, kind)
      BY <1>1, <1>6, SinceNext
    <2>2. \A j \in Since(t, i, kind): \A k \in j..(i + 1 - 1): k \in j..(i - 1) \/ k = i
      BY <1>2
    <2>3. \A j \in Since(t, i, kind): \A k \in j..(i - 1): k \in j..(i + 1 - 1)
      BY <1>2
    <2> QED
      BY <1>6, <2>1, <2>2, <2>3 DEF LastInf
  <1> QED
    BY <1>3, <1>4, <1>5, <1>6

LEMMA LastInfUnique ==
    ASSUME NEW t, NEW i \in Nat \ {0}, NEW a \in StreamInfs, NEW b \in StreamInfs,
           LastInf(t, i, a), LastInf(t, i, b)
    PROVE  a = b
  <1>1. PICK j \in Since(t, i, a): \A k \in j..(i - 1): t.body[k] \in StreamInfs => t.body[k] = a
    BY DEF LastInf
  <1>2. PICK l \in Since(t, i, b): \A k \in l..(i - 1): t.body[k] \in StreamInfs => t.body[k] = b
    BY DEF LastInf
  <1>3. j \in 1..(i - 1) /\ l \in 1..(i - 1) /\ t.body[j] = a /\ t.body[l] = b
    BY DEF Since
  <1>4. CASE j <= l
    <2>1. l \in j..(i - 1)
      BY <1>3, <1>4
    <2> QED
      BY <1>1, <1>3, <2>1
  <1>5. CASE l <= j
    <2>1. j \in l..(i - 1)
      BY <1>3, <1>5
    <2> QED
      BY <1>2, <1>3, <2>1
  <1> QED
    BY <1>3, <1>4, <1>5

\* A set of positions that is not empty has a last one.
LEMMA HasLast ==
    ASSUME NEW n \in Nat, NEW S \in SUBSET (1..n), S # {}
    PROVE  \E i \in S: \A j \in S: j <= i
  <1> DEFINE T == {n - i: i \in S}
  <1>1. T \subseteq Nat /\ T # {}
    <2>1. PICK i \in S: TRUE
      OBVIOUS
    <2>2. n - i \in T
      OBVIOUS
    <2>3. \A j \in S: n - j \in Nat
      OBVIOUS
    <2> QED
      BY <2>2, <2>3
  <1> DEFINE R == OpToRel(<, Nat)
  <1>2. PICK x \in T: \A y \in T: ~(<<y, x>> \in R)
    <2> HIDE DEF T, R
    <2> QED
      BY <1>1, NatLessThanWellFounded, WFMin DEF R
  <1>3. \A y \in T: ~(y < x)
    BY <1>1, <1>2 DEF OpToRel
  <1> HIDE DEF R
  <1>4. PICK i \in S: x = n - i
    OBVIOUS
  <1>5. \A j \in S: n - j \in T
    OBVIOUS
  <1> HIDE DEF T
  <1> QED
    BY <1>3, <1>4, <1>5

-----------------------------------------------------------------------------
(* One line of the planner's loop. *)

LEMMA ScansGrow ==
    ASSUME NEW n \in Nat, NEW s \in SegmentScans(n)
    PROVE  s \in SegmentScans(n + 1)
  <1>1. Segments(n) \subseteq Segments(n + 1)
    BY DEF Segments
  <1>2. s.segments \in Seq(Segments(n + 1))
    BY <1>1, SeqMonotonic DEF SegmentScans
  <1> QED
    BY <1>2 DEF SegmentScans

LEMMA SegmentLineKeeps ==
    ASSUME NEW t \in Playlists, t = text, NEW n \in Nat, n < Len(t.body), NEW s \in SegmentScans(n),
           ~MalformedLine(s, n + 1),
           ListsSegments(s.segments, t, n),
           Since(t, n + 1, "extinf") = (IF s.extinf = 0 THEN {} ELSE {s.extinf}),
           LastOf(Since(t, n + 1, "byterange"), s.range)
    PROVE  /\ SegmentLine(s, n + 1) \in SegmentScans(n + 1)
           /\ ListsSegments(SegmentLine(s, n + 1).segments, t, n + 1)
           /\ Since(t, n + 2, "extinf") =
                 IF SegmentLine(s, n + 1).extinf = 0 THEN {} ELSE {SegmentLine(s, n + 1).extinf}
           /\ LastOf(Since(t, n + 2, "byterange"), SegmentLine(s, n + 1).range)
  <1> DEFINE i == n + 1
             l == t.body[i]
             r == SegmentLine(s, i)
  <1>1. i \in 1..Len(t.body) /\ l \in Lines /\ i + 1 = n + 2
    BY PlaylistShape
  <1>2. s \in SegmentScans(i)
    BY ScansGrow
  <1>3. /\ "extinf" \notin Uris /\ "byterange" \notin Uris
        /\ UriLines(t) \cap 1..i = (UriLines(t) \cap 1..n) \cup (IF l \in Uris THEN {i} ELSE {})
    BY <1>1, PlaylistShape DEF UriLines, Uris
  <1>4. /\ Since(t, i + 1, "extinf") = IF l \in Uris THEN {} ELSE IF l = "extinf"
                                       THEN Since(t, i, "extinf") \cup {i} ELSE Since(t, i, "extinf")
        /\ Since(t, i + 1, "byterange") = IF l \in Uris THEN {} ELSE IF l = "byterange"
                                  THEN Since(t, i, "byterange") \cup {i} ELSE Since(t, i, "byterange")
    <2>1. i \in Nat \ {0}
      OBVIOUS
    <2>2. "extinf" \notin Uris /\ "byterange" \notin Uris
      BY DEF Uris
    <2> HIDE DEF i
    <2>3. Since(t, i + 1, "extinf") =
            IF t.body[i] \in Uris THEN {}
            ELSE IF t.body[i] = "extinf" THEN Since(t, i, "extinf") \cup {i}
            ELSE Since(t, i, "extinf")
      BY <2>1, <2>2, SinceNext
    <2>4. Since(t, i + 1, "byterange") =
            IF t.body[i] \in Uris THEN {}
            ELSE IF t.body[i] = "byterange" THEN Since(t, i, "byterange") \cup {i}
            ELSE Since(t, i, "byterange")
      BY <2>1, <2>2, SinceNext
    <2> QED
      BY <2>3, <2>4
  <1>5. Since(t, i, "byterange") \subseteq 1..n
    BY DEF Since
  <1>6. CASE l = "byterange"
    <2>1. r = [s EXCEPT !.range = i]
      BY <1>6 DEF SegmentLine
    <2>2. r \in SegmentScans(i) /\ r.segments = s.segments /\ r.extinf = s.extinf /\ r.range = i
      BY <1>1, <1>2, <2>1 DEF SegmentScans
    <2>3. LastOf(Since(t, i + 1, "byterange"), r.range)
      BY <1>3, <1>4, <1>5, <1>6, <2>2 DEF LastOf
    <2>4. ListsSegments(r.segments, t, i)
      BY <1>3, <1>6, <2>2 DEF ListsSegments
    <2> QED
      BY <1>1, <1>3, <1>4, <1>6, <2>2, <2>3, <2>4
  <1>7. CASE l = "extinf"
    <2>1. r = [s EXCEPT !.extinf = i] /\ s.extinf = 0
      BY <1>7 DEF SegmentLine, MalformedLine
    <2>2. r \in SegmentScans(i) /\ r.segments = s.segments /\ r.range = s.range /\ r.extinf = i
      BY <1>1, <1>2, <2>1 DEF SegmentScans
    <2>3. Since(t, i + 1, "extinf") = {i} /\ i # 0
      BY <1>3, <1>4, <1>7, <2>1
    <2>4. ListsSegments(r.segments, t, i)
      BY <1>3, <1>7, <2>2 DEF ListsSegments
    <2> QED
      BY <1>1, <1>3, <1>4, <1>7, <2>2, <2>3, <2>4
  <1>8. CASE l \in Uris
    <2> DEFINE e == [uri |-> i, extinf |-> s.extinf, range |-> s.range]
    <2>1. r = [segments |-> Append(s.segments, e), extinf |-> 0, range |-> 0]
      BY <1>8 DEF SegmentLine, Segment, Uris
    <2>2. s.extinf # 0
      BY <1>8 DEF MalformedLine
    <2>3. e \in Segments(i) /\ s.segments \in Seq(Segments(i)) /\ s.segments \in Seq(Segments(n))
      BY <1>1, <1>2, <2>2 DEF SegmentScans, Segments
    <2> DEFINE q == Append(s.segments, e)
    <2>4. r \in SegmentScans(i)
      <3>1. q \in Seq(Segments(i))
        BY <2>3
      <3> QED
        BY <1>1, <2>1, <3>1 DEF SegmentScans
    <2>5. /\ DOMAIN q = DOMAIN s.segments \cup {Len(s.segments) + 1}
          /\ Len(s.segments) \in Nat /\ DOMAIN s.segments = 1..Len(s.segments)
          /\ q[Len(s.segments) + 1] = e
          /\ \A m \in DOMAIN s.segments: q[m] = s.segments[m]
      BY <2>3
    <2>6. \A m \in DOMAIN s.segments: s.segments[m].uri \in 1..n
      <3>1. \A m \in DOMAIN s.segments: s.segments[m] \in Segments(n)
        BY <2>3, <2>5, ElementOfSeq
      <3> QED
        BY <3>1 DEF Segments
    <2>7. {q[m].uri: m \in DOMAIN q} = UriLines(t) \cap 1..i
      <3>1. {s.segments[m].uri: m \in DOMAIN s.segments} = UriLines(t) \cap 1..n
        BY DEF ListsSegments
      <3>2. UriLines(t) \cap 1..i = (UriLines(t) \cap 1..n) \cup {i}
        BY <1>3, <1>8
      <3>3. e.uri = i
        OBVIOUS
      <3> HIDE DEF q, e, i
      <3> QED
        BY <2>5, <3>1, <3>2, <3>3
    <2>8. \A a, b \in DOMAIN q: a < b => q[a].uri < q[b].uri
      <3> SUFFICES ASSUME NEW a \in DOMAIN q, NEW b \in DOMAIN q, a < b
                   PROVE  q[a].uri < q[b].uri
        OBVIOUS
      <3>1. a \in DOMAIN s.segments
        BY <2>5
      <3>2. CASE b \in DOMAIN s.segments
        BY <2>5, <3>1, <3>2 DEF ListsSegments
      <3>3. CASE b = Len(s.segments) + 1
        BY <2>5, <2>6, <3>1, <3>3
      <3> QED
        BY <2>5, <3>2, <3>3
    <2>9. \A m \in DOMAIN q: /\ Since(t, q[m].uri, "extinf") = {q[m].extinf}
                             /\ LastOf(Since(t, q[m].uri, "byterange"), q[m].range)
      <3>1. /\ Since(t, e.uri, "extinf") = {e.extinf}
            /\ LastOf(Since(t, e.uri, "byterange"), e.range)
        BY <2>2
      <3>2. \A m \in DOMAIN s.segments:
               /\ Since(t, s.segments[m].uri, "extinf") = {s.segments[m].extinf}
               /\ LastOf(Since(t, s.segments[m].uri, "byterange"), s.segments[m].range)
        BY DEF ListsSegments
      <3> HIDE DEF q, e, i
      <3> QED
        BY <2>5, <3>1, <3>2
    <2>10. ListsSegments(q, t, i)
      BY <2>7, <2>8, <2>9 DEF ListsSegments
    <2>11. LastOf({}, 0)
      BY DEF LastOf
    <2>12. Since(t, i + 1, "extinf") = {} /\ Since(t, i + 1, "byterange") = {}
      BY <1>4, <1>8
    <2>13. r.segments = q /\ r.extinf = 0 /\ r.range = 0
      BY <2>1
    <2> HIDE DEF q, r, l
    <2> QED
      BY <1>1, <2>4, <2>10, <2>11, <2>12, <2>13 DEF r
  <1>9. CASE l \notin Uris \cup {"extinf", "byterange"}
    <2>1. r = s
      BY <1>9 DEF SegmentLine
    <2>2. ListsSegments(r.segments, t, i)
      BY <1>3, <1>9, <2>1 DEF ListsSegments
    <2> QED
      BY <1>1, <1>2, <1>4, <1>9, <2>1, <2>2
  <1> QED
    BY <1>6, <1>7, <1>8, <1>9

-----------------------------------------------------------------------------
(* One line of the loop over a master playlist. *)

LEMMA VariantLineKeeps ==
    ASSUME NEW t \in Playlists, t = text, NEW n \in Nat, n < Len(t.body), NEW s \in VariantScans(n),
           FindsVariants(s, t, n)
    PROVE  /\ VariantLine(s, n + 1) \in VariantScans(n + 1)
           /\ FindsVariants(VariantLine(s, n + 1), t, n + 1)
  <1> DEFINE i == n + 1
             l == t.body[i]
             r == VariantLine(s, i)
  <1>1. i \in 1..Len(t.body) /\ i \in Nat \ {0} /\ l \in Lines /\ i \in DOMAIN t.body
    BY PlaylistShape
  <1>2. s.found \in Seq(Variants(i)) /\ s.found \in Seq(Variants(n)) /\ s \in VariantScans(i)
    <2>1. Variants(n) \subseteq Variants(i)
      BY DEF Variants
    <2> QED
      BY <2>1, SeqMonotonic DEF VariantScans
  <1>3. \A kind \in StreamInfs:
           LastInf(t, i + 1, kind) <=> IF l \in Uris THEN FALSE
                                       ELSE IF l \in StreamInfs THEN l = kind
                                       ELSE LastInf(t, i, kind)
    <2> HIDE DEF i
    <2> QED
      BY <1>1, LastInfNext
  <1>4. None \notin StreamInfs /\ StreamInfs \cap Uris = {}
    BY DEF None, StreamInfs, Uris
  <1>5. \A kind \in StreamInfs: \A j \in Leads(t, kind) \cap 1..i:
            j \in Leads(t, kind) \cap 1..n \/ (j = i /\ l \in Uris /\ LastInf(t, i, kind))
    BY <1>1 DEF Leads, UriLines
  <1>6. CASE l \in StreamInfs
    <2>1. r = [s EXCEPT !.pending = l]
      BY <1>6 DEF VariantLine
    <2>2. r \in VariantScans(i) /\ r.found = s.found /\ r.pending = l
      BY <1>2, <1>6, <2>1 DEF VariantScans
    <2> HIDE DEF r, i
    <2>3. \A kind \in StreamInfs: r.pending = kind <=> LastInf(t, i + 1, kind)
      BY <1>3, <1>4, <1>6, <2>2
    <2>4. FindsVariants(r, t, i)
      BY <1>4, <1>5, <1>6, <2>2, <2>3 DEF FindsVariants
    <2> QED
      BY <2>2, <2>4 DEF r, i
  <1>7. CASE l \notin StreamInfs /\ (l \notin Uris \/ s.pending = None)
    <2>1. r = s
      BY <1>7 DEF VariantLine
    <2>2. \A kind \in StreamInfs: s.pending = kind <=> LastInf(t, i, kind)
      BY DEF FindsVariants
    <2> HIDE DEF r, i
    <2>3. \A kind \in StreamInfs: r.pending = kind <=> LastInf(t, i + 1, kind)
      BY <1>3, <1>4, <1>7, <2>1, <2>2
    <2>4. FindsVariants(r, t, i)
      BY <1>4, <1>5, <1>7, <2>1, <2>2, <2>3 DEF FindsVariants
    <2> QED
      BY <1>2, <2>1, <2>4 DEF r, i
  <1>8. CASE l \in Uris /\ s.pending # None
    <2> DEFINE e == [line |-> i, high |-> s.pending = "stream_inf_high"]
               q == Append(s.found, e)
    <2>1. r = [found |-> q, pending |-> None]
      BY <1>4, <1>8 DEF VariantLine
    <2>2. e \in Variants(i)
      BY DEF Variants
    <2>3. q \in Seq(Variants(i))
      BY <1>2, <2>2
    <2>4. r \in VariantScans(i)
      BY <2>1, <2>3 DEF VariantScans
    <2>5. /\ DOMAIN q = DOMAIN s.found \cup {Len(s.found) + 1}
          /\ Len(s.found) \in Nat /\ DOMAIN s.found = 1..Len(s.found)
          /\ q[Len(s.found) + 1] = e
          /\ \A m \in DOMAIN s.found: q[m] = s.found[m]
      BY <1>2, <2>2
    <2>6. \A m \in DOMAIN s.found: s.found[m].line \in 1..n
      <3>1. \A m \in DOMAIN s.found: s.found[m] \in Variants(n)
        BY <1>2, <2>5, ElementOfSeq
      <3> QED
        BY <3>1 DEF Variants
    <2>7. i \in Leads(t, KindOf(e)) /\ e.line = i
      <3>1. s.pending \in StreamInfs
        BY <1>8 DEF VariantScans
      <3>2. KindOf(e) = s.pending
        BY <3>1 DEF KindOf, StreamInfs
      <3>3. LastInf(t, i, s.pending)
        BY <3>1 DEF FindsVariants
      <3> QED
        BY <1>1, <1>8, <3>2, <3>3 DEF Leads, UriLines
    <2>8. \A a, b \in DOMAIN q: a < b => q[a].line < q[b].line
      <3> SUFFICES ASSUME NEW a \in DOMAIN q, NEW b \in DOMAIN q, a < b
                   PROVE  q[a].line < q[b].line
        OBVIOUS
      <3>1. a \in DOMAIN s.found
        BY <2>5
      <3>2. CASE b \in DOMAIN s.found
        BY <2>5, <3>1, <3>2 DEF FindsVariants
      <3>3. CASE b = Len(s.found) + 1
        BY <2>5, <2>6, <3>1, <3>3
      <3> QED
        BY <2>5, <3>2, <3>3
    <2> HIDE DEF e, q, r, i
    <2>9. \A a \in DOMAIN q: q[a].line \in Leads(t, KindOf(q[a]))
      BY <2>5, <2>7 DEF FindsVariants
    <2>10. \A kind \in StreamInfs: \A j \in Leads(t, kind) \cap 1..i:
              \E a \in DOMAIN q: q[a].line = j
      <3> SUFFICES ASSUME NEW kind \in StreamInfs, NEW j \in Leads(t, kind) \cap 1..i
                   PROVE  \E a \in DOMAIN q: q[a].line = j
        OBVIOUS
      <3>1. CASE j \in 1..n
        BY <2>5, <3>1 DEF FindsVariants
      <3>2. CASE j = i
        BY <2>5, <2>7, <3>2
      <3> QED
        BY <1>5, <3>1, <3>2
    <2>11. \A kind \in StreamInfs: ~LastInf(t, i + 1, kind)
      BY <1>3, <1>8
    <2>12. r.found = q /\ r.pending = None
      BY <2>1
    <2>13. FindsVariants(r, t, i)
      BY <1>4, <2>8, <2>9, <2>10, <2>11, <2>12 DEF FindsVariants
    <2> QED
      BY <2>4, <2>13 DEF r, i
  <1> QED
    BY <1>6, <1>7, <1>8

\* The variant that is taken: of its kind the last one, and of the lower kind
\* only if there is none of the higher.
LEMMA BestIsLast ==
    ASSUME NEW n \in Nat, NEW found \in Seq(Variants(n)), found # <<>>,
           \A a, b \in DOMAIN found: a < b => found[a].line < found[b].line
    PROVE  \E m \in DOMAIN found:
              /\ BestVariant(found) = found[m].line
              /\ ~found[m].high => \A a \in DOMAIN found: ~found[a].high
              /\ \A a \in DOMAIN found: found[a].high = found[m].high => found[a].line <= found[m].line
  <1> DEFINE high == {i \in DOMAIN found: found[i].high}
             best == IF high = {} THEN DOMAIN found ELSE high
             m == CHOOSE i \in best: \A j \in best: j <= i
  <1>1. Len(found) \in Nat /\ DOMAIN found = 1..Len(found) /\ DOMAIN found # {}
    BY EmptySeq, LenProperties
  <1>2. \A a \in DOMAIN found: found[a].line \in Nat /\ found[a].high \in BOOLEAN
    <2>1. \A a \in DOMAIN found: found[a] \in Variants(n)
      BY <1>1, ElementOfSeq
    <2> QED
      BY <2>1 DEF Variants
  <1>3. best \in SUBSET (1..Len(found)) /\ best # {}
    BY <1>1
  <1>4. \E i \in best: \A j \in best: j <= i
    <2> HIDE DEF best
    <2> QED
      BY <1>1, <1>3, HasLast
  <1>5. m \in best /\ \A j \in best: j <= m
    <2> HIDE DEF best
    <2> QED
      BY <1>4
  <1>6. BestVariant(found) = found[m].line
    BY DEF BestVariant
  <1> HIDE DEF m
  <1>7. m \in DOMAIN found
    BY <1>5
  <1>8. ~found[m].high => \A a \in DOMAIN found: ~found[a].high
    BY <1>5
  <1>9. \A a \in DOMAIN found: found[a].high = found[m].high => a <= m
    BY <1>5, <1>8
  <1>10. \A a \in DOMAIN found: found[a].high = found[m].high => found[a].line <= found[m].line
    <2> HIDE DEF best, high
    <2> SUFFICES ASSUME NEW a \in DOMAIN found, found[a].high = found[m].high
                 PROVE  found[a].line <= found[m].line
      OBVIOUS
    <2>1. a = m \/ a < m
      BY <1>1, <1>7, <1>9
    <2> QED
      BY <1>2, <1>7, <2>1
  <1> QED
    BY <1>6, <1>7, <1>8, <1>10

-----------------------------------------------------------------------------
(* The analyzer. *)

\* What EncryptionReported asks to be reported.
Encrypted(t) ==
    /\ IsHls(t) /\ IsMedia(t) /\ Has(t, Uris) /\ "map" \notin t.marks
    /\ {"key_encrypted", "key_eme", "key_unclear"} \cap t.marks # {}

LEMMA EncryptedIsRejected ==
    ASSUME NEW t, Encrypted(t), NEW allowMaster \in BOOLEAN
    PROVE  Rejection(t, allowMaster) = "encrypted"
  <1>1. IsHls(t) /\ IsMedia(t) /\ ~IsMaster(t) /\ "map" \notin t.marks
    BY DEF Encrypted, IsMedia
  <1>2. DrmStatus(t) # None
    BY DEF Encrypted, DrmStatus, None
  <1> QED
    BY <1>1, <1>2 DEF Rejection

LEMMA NotEncrypted ==
    /\ ~Encrypted(NoText)
    /\ \A t: IsMaster(t) => ~Encrypted(t)
  <1>1. ~Has(NoText, Uris) /\ ~IsMedia(NoText)
    BY DEF Has, NoText, IsMedia
  <1> QED
    BY <1>1 DEF Encrypted, IsMedia

Reasons ==
    {"policy_denied", "fetch_failed", "parse_failed", "no_variants", "no_segments",
     "fmp4_unsupported", "master_unsupported", "encrypted", "planning_failed"}

LEMMA RejectionTyped ==
    ASSUME NEW t, NEW allowMaster \in BOOLEAN
    PROVE  Rejection(t, allowMaster) \in Reasons \cup {None}
  BY DEF Rejection, Reasons

\* What the analysis lets through is a media playlist without an init map.
LEMMA AcceptedIsMedia ==
    ASSUME NEW t, Rejection(t, FALSE) = None
    PROVE  IsHls(t) /\ IsMedia(t) /\ ~IsMaster(t) /\ "map" \notin t.marks
  <1>1. None \notin Reasons
    BY DEF None, Reasons
  <1> QED
    BY <1>1 DEF Rejection, Reasons, IsMedia

-----------------------------------------------------------------------------
(* The invariant is inductive. *)

LEMMA InitInv == Init => HlsInv
  <1> SUFFICES ASSUME Init PROVE HlsInv
    OBVIOUS
  <1>1. /\ pc = "fetch" /\ text = NoText /\ line = 0 /\ scan = NoScan /\ outcome = None
        /\ target \in {"uri", "foreign_uri"} /\ nested = FALSE
    BY DEF Init
  <1>2. Len(text.body) \in Nat /\ text \in Playlists
    BY <1>1, NoTextServed, PlaylistShape
  <1>3. TypeOK
    <2>1. line \in 0..Len(text.body)
      BY <1>1, <1>2
    <2>2. pc \in {"fetch", "select", "variants", "analyze", "plan", "done"}
      BY <1>1
    <2> QED
      BY <1>1, <1>2, <2>1, <2>2 DEF TypeOK
  <1>4. FetchShape /\ VariantShape /\ SegmentShape /\ OutcomeShape /\ EncryptionReported
    BY <1>1 DEF FetchShape, VariantShape, SegmentShape, OutcomeShape, EncryptionReported, None
  <1> QED
    BY <1>3, <1>4 DEF HlsInv

\* A failure says no more than its reason, which must be the right one for
\* an encrypted playlist.
LEMMA FailureKeeps ==
    ASSUME HlsInv, NEW reason \in Reasons, Fail(reason), text' \in Playlists,
           UNCHANGED <<target, nested>>, Encrypted(text') => reason = "encrypted"
    PROVE  HlsInv'
  <1>1. /\ pc' = "done" /\ outcome' = reason /\ line' = 0 /\ scan' = NoScan
        /\ reason # None /\ reason # "planned"
    BY DEF Fail, Reasons, None
  <1>2. TypeOK'
    <2>1. Len(text'.body) \in Nat
      BY PlaylistShape
    <2> QED
      BY <1>1, <2>1 DEF HlsInv, TypeOK, Reasons
  <1>3. FetchShape' /\ VariantShape' /\ SegmentShape' /\ OutcomeShape'
    BY <1>1 DEF FetchShape, VariantShape, SegmentShape, OutcomeShape
  <1>4. EncryptionReported'
    BY <1>1 DEF EncryptionReported, Encrypted
  <1> QED
    BY <1>2, <1>3, <1>4 DEF HlsInv

\* A step from one loop to another starts it afresh.
LEMMA FetchStepsKeep ==
    ASSUME HlsInv, RefuseHost \/ Serve \/ FetchFails \/ Fetch
    PROVE  HlsInv'
  <1>1. /\ pc = "fetch" /\ line = 0 /\ scan = NoScan /\ outcome = None /\ text \in Playlists
        /\ target = "foreign_uri" => text = NoText
    BY DEF HlsInv, TypeOK, FetchShape, RefuseHost, Serve, FetchFails, Fetch
  <1>2. {"fetch_failed", "parse_failed"} \subseteq Reasons
    BY DEF Reasons
  <1>3. CASE RefuseHost
    <2>1. text' \in Playlists /\ ~Encrypted(text')
      BY <1>1, <1>3, NotEncrypted DEF RefuseHost
    <2> QED
      BY <1>2, <1>3, <2>1, FailureKeeps DEF RefuseHost
  <1>4. CASE FetchFails
    <2>1. text' \in Playlists /\ ~Encrypted(text')
      BY <1>4, NotEncrypted, NoTextServed DEF FetchFails
    <2> QED
      BY <1>2, <1>4, <2>1, FailureKeeps DEF FetchFails
  <1>5. CASE Serve
    <2>1. UNCHANGED <<pc, target, nested, line, scan, outcome>> /\ target = "uri"
      BY <1>5 DEF Serve
    <2>2. /\ text.body \in Seq(Lines) /\ Len(text.body) \in Nat /\ text.marks \in SUBSET Marks
          /\ Cardinality(text.marks) \in Nat /\ text = [marks |-> text.marks, body |-> text.body]
          /\ Len(text.body) + Cardinality(text.marks) < MaxLines
      BY <1>1, <1>5, PlaylistShape DEF Serve
    <2>3. text' \in Playlists
      <3>1. ASSUME NEW l \in Lines, text' = [text EXCEPT !.body = Append(@, l)]
            PROVE  text' \in Playlists
        <4>1. text' = [marks |-> text.marks, body |-> Append(text.body, l)]
          BY <2>2, <3>1
        <4>2. Append(text.body, l) \in Seq(Lines) /\ Len(Append(text.body, l)) = Len(text.body) + 1
          BY <2>2
        <4>3. Len(Append(text.body, l)) + Cardinality(text.marks) <= MaxLines
          BY <2>2, <4>2, PlaylistAssumption
        <4>4. [marks |-> text.marks, body |-> Append(text.body, l)] \in Playlists
          BY <2>2, <4>2, <4>3, PlaylistMade
        <4> QED
          BY <4>1, <4>4
      <3>2. ASSUME NEW m \in Marks \ text.marks, text' = [text EXCEPT !.marks = @ \cup {m}]
            PROVE  text' \in Playlists
        <4>1. text' = [marks |-> text.marks \cup {m}, body |-> text.body]
          BY <2>2, <3>2
        <4>2. IsFiniteSet(text.marks)
          BY <2>2, MarksFinite, FS_Subset
        <4>3. Cardinality(text.marks \cup {m}) = Cardinality(text.marks) + 1
          BY <4>2, FS_AddElement
        <4>4. text.marks \cup {m} \in SUBSET Marks
          BY <2>2
        <4>5. Len(text.body) + Cardinality(text.marks \cup {m}) <= MaxLines
          BY <2>2, <4>3, PlaylistAssumption
        <4>6. [marks |-> text.marks \cup {m}, body |-> text.body] \in Playlists
          BY <2>2, <4>4, <4>5, PlaylistMade
        <4> QED
          BY <4>1, <4>6
      <3> QED
        BY <1>5, <3>1, <3>2 DEF Serve
    <2>4. Len(text'.body) \in Nat
      BY <2>3, PlaylistShape
    <2>5. TypeOK'
      BY <1>1, <2>1, <2>3, <2>4 DEF HlsInv, TypeOK
    <2>6. FetchShape' /\ VariantShape' /\ SegmentShape' /\ OutcomeShape' /\ EncryptionReported'
      BY <1>1, <2>1
      DEF FetchShape, VariantShape, SegmentShape, OutcomeShape, EncryptionReported, None
    <2> QED
      BY <2>5, <2>6 DEF HlsInv
  <1>6. CASE Fetch
    <2>1. UNCHANGED <<target, nested, text, line, scan, outcome>> /\ pc' \in {"analyze", "select"}
      BY <1>6 DEF Fetch
    <2>2. TypeOK'
      BY <1>1, <2>1 DEF HlsInv, TypeOK
    <2>3. FetchShape' /\ VariantShape' /\ SegmentShape' /\ OutcomeShape' /\ EncryptionReported'
      BY <1>1, <2>1
      DEF FetchShape, VariantShape, SegmentShape, OutcomeShape, EncryptionReported, None
    <2> QED
      BY <2>2, <2>3 DEF HlsInv
  <1> QED
    BY <1>3, <1>4, <1>5, <1>6

\* The first look, and the change to a variant.
LEMMA SelectStepsKeep ==
    ASSUME HlsInv, RejectFirst \/ Select \/ RejectMedia
    PROVE  HlsInv'
  <1>1. /\ pc \in {"select", "analyze"} /\ line = 0 /\ scan = NoScan /\ outcome = None
        /\ text \in Playlists /\ UNCHANGED <<target, nested, text>> /\ Len(text.body) \in Nat
    BY PlaylistShape DEF HlsInv, TypeOK, FetchShape, RejectFirst, Select, RejectMedia
  <1>2. CASE RejectFirst
    <2>1. Rejection(text, TRUE) \in Reasons /\ Fail(Rejection(text, TRUE))
      BY <1>2, RejectionTyped DEF RejectFirst
    <2>2. Encrypted(text') => Rejection(text, TRUE) = "encrypted"
      BY <1>1, EncryptedIsRejected
    <2> QED
      BY <1>1, <2>1, <2>2, FailureKeeps
  <1>3. CASE RejectMedia
    <2>1. Rejection(text, FALSE) \in Reasons /\ Fail(Rejection(text, FALSE))
      BY <1>3, RejectionTyped DEF RejectMedia
    <2>2. Encrypted(text') => Rejection(text, FALSE) = "encrypted"
      BY <1>1, EncryptedIsRejected
    <2> QED
      BY <1>1, <2>1, <2>2, FailureKeeps
  <1>4. CASE Select /\ IsMaster(text)
    <2>1. pc' = "variants" /\ scan' = StartVariants /\ UNCHANGED <<target, nested, text, line, outcome>>
      BY <1>4 DEF Select
    <2>2. StartVariants \in VariantScans(0)
      <3>1. <<>> \in Seq(Variants(0))
        OBVIOUS
      <3> QED
        BY <3>1 DEF StartVariants, VariantScans
    <2>3. FindsVariants(StartVariants, text, 0)
      <3>1. DOMAIN StartVariants.found = {} /\ StartVariants.pending = None
        BY DEF StartVariants
      <3>2. \A kind \in StreamInfs: ~LastInf(text, 0 + 1, kind)
        BY LastInfStart
      <3>3. None \notin StreamInfs
        BY DEF None, StreamInfs
      <3> QED
        BY <3>1, <3>2, <3>3 DEF FindsVariants
    <2>4. VariantShape'
      BY <1>1, <1>4, <2>1, <2>2, <2>3 DEF VariantShape, IsMaster, Has
    <2>5. TypeOK'
      BY <1>1, <2>1, <2>2 DEF HlsInv, TypeOK
    <2>6. FetchShape' /\ SegmentShape' /\ OutcomeShape' /\ EncryptionReported'
      BY <1>1, <2>1 DEF FetchShape, SegmentShape, OutcomeShape, EncryptionReported, None
    <2> QED
      BY <2>4, <2>5, <2>6 DEF HlsInv
  <1>5. CASE Select /\ ~IsMaster(text)
    <2>1. pc' = "analyze" /\ UNCHANGED <<target, nested, text, line, scan, outcome>>
      BY <1>5 DEF Select
    <2>2. TypeOK'
      BY <1>1, <2>1 DEF HlsInv, TypeOK
    <2>3. FetchShape' /\ VariantShape' /\ SegmentShape' /\ OutcomeShape' /\ EncryptionReported'
      BY <1>1, <2>1
      DEF FetchShape, VariantShape, SegmentShape, OutcomeShape, EncryptionReported, None
    <2> QED
      BY <2>2, <2>3 DEF HlsInv
  <1> QED
    BY <1>2, <1>3, <1>4, <1>5

\* The variant loop, and the way out of it.
LEMMA VariantStepsKeep ==
    ASSUME HlsInv, ReadVariants \/ SelectVariant \/ NoVariant
    PROVE  HlsInv'
  <1>1. /\ pc = "variants" /\ text \in Playlists /\ IsMaster(text) /\ outcome = None
        /\ line \in 0..Len(text.body) /\ Len(text.body) \in Nat
        /\ scan \in VariantScans(line) /\ FindsVariants(scan, text, line)
    BY PlaylistShape
    DEF HlsInv, TypeOK, VariantShape, OutcomeShape, ReadVariants, SelectVariant, NoVariant
  <1>2. CASE ReadVariants
    <2>1. /\ line < Len(text.body) /\ line' = line + 1 /\ scan' = VariantLine(scan, line + 1)
          /\ UNCHANGED <<pc, target, nested, text, outcome>>
      BY <1>2 DEF ReadVariants
    <2>2. VariantLine(scan, line + 1) \in VariantScans(line + 1)
          /\ FindsVariants(VariantLine(scan, line + 1), text, line + 1)
      <3>1. line \in Nat /\ line < Len(text.body)
        BY <1>1, <2>1
      <3> QED
        BY <1>1, <3>1, VariantLineKeeps
    <2>3. VariantShape'
      BY <1>1, <2>1, <2>2 DEF VariantShape, IsMaster, Has
    <2>4. line' \in 0..Len(text'.body)
      BY <1>1, <2>1
    <2>5. TypeOK'
      BY <2>1, <2>2, <2>4 DEF HlsInv, TypeOK
    <2>6. FetchShape' /\ SegmentShape' /\ OutcomeShape' /\ EncryptionReported'
      BY <1>1, <2>1 DEF FetchShape, SegmentShape, OutcomeShape, EncryptionReported, None
    <2> QED
      BY <2>3, <2>5, <2>6 DEF HlsInv
  <1>3. CASE SelectVariant
    <2>1. /\ target' = text.body[BestVariant(scan.found)] /\ target' # "unsafe_uri" /\ nested' = TRUE
          /\ text' = NoText /\ line' = 0 /\ scan' = NoScan /\ pc' = "fetch" /\ outcome' = outcome
          /\ scan.found # <<>>
      BY <1>3 DEF SelectVariant
    <2>2. target' \in Uris
      <3>1. PICK m \in DOMAIN scan.found: BestVariant(scan.found) = scan.found[m].line
        <4>1. line \in Nat /\ scan.found \in Seq(Variants(line))
          BY <1>1 DEF VariantScans
        <4>2. \A a, b \in DOMAIN scan.found: a < b => scan.found[a].line < scan.found[b].line
          BY <1>1 DEF FindsVariants
        <4> QED
          BY <2>1, <4>1, <4>2, BestIsLast
      <3>2. scan.found[m].line \in UriLines(text)
        BY <1>1 DEF FindsVariants, Leads
      <3> QED
        BY <2>1, <3>1, <3>2 DEF UriLines
    <2>3. text' \in Playlists /\ Len(text'.body) \in Nat
      BY <2>1, NoTextServed, PlaylistShape
    <2>4. line' \in 0..Len(text'.body)
      BY <2>1, <2>3
    <2>5. target' \in {"uri", "foreign_uri"}
      BY <2>1, <2>2 DEF Uris
    <2>6. TypeOK'
      BY <1>1, <2>1, <2>3, <2>4, <2>5 DEF TypeOK
    <2>7. FetchShape' /\ VariantShape' /\ SegmentShape' /\ OutcomeShape' /\ EncryptionReported'
      BY <1>1, <2>1
      DEF FetchShape, VariantShape, SegmentShape, OutcomeShape, EncryptionReported, None
    <2> QED
      BY <2>6, <2>7 DEF HlsInv
  <1>4. CASE NoVariant
    <2>1. Fail("no_variants") \/ Fail("parse_failed")
      BY <1>4 DEF NoVariant
    <2>2. UNCHANGED <<target, nested, text>> /\ text' \in Playlists /\ ~Encrypted(text')
      BY <1>1, <1>4, NotEncrypted DEF NoVariant
    <2>3. "no_variants" \in Reasons /\ "parse_failed" \in Reasons
      BY DEF Reasons
    <2> QED
      BY <2>1, <2>2, <2>3, FailureKeeps
  <1> QED
    BY <1>2, <1>3, <1>4

\* The acceptance, and the loop of the planner.
LEMMA PlanStepsKeep ==
    ASSUME HlsInv, Accept \/ ReadSegments \/ Plan \/ PlanFails
    PROVE  HlsInv'
  <1>1. /\ UNCHANGED <<target, nested, text>> /\ text \in Playlists /\ outcome = None
        /\ line \in 0..Len(text.body) /\ Len(text.body) \in Nat /\ line \in Nat
        /\ Rejection(text, FALSE) = None
    <2>1. text \in Playlists /\ line \in 0..Len(text.body)
      BY DEF HlsInv, TypeOK
    <2>2. Rejection(text, FALSE) = None /\ outcome = None
      BY DEF HlsInv, SegmentShape, OutcomeShape, Accept, ReadSegments, Plan, PlanFails
    <2>3. UNCHANGED <<target, nested, text>>
      BY DEF Accept, ReadSegments, Plan, PlanFails
    <2>4. Len(text.body) \in Nat
      BY <2>1, PlaylistShape
    <2>5. line \in Nat
      BY <2>1, <2>4
    <2> QED
      BY <2>1, <2>2, <2>3, <2>4, <2>5
  <1>2. ~Encrypted(text) /\ ~Encrypted(text')
    <2>1. "encrypted" # None
      BY DEF None
    <2> QED
      BY <1>1, <2>1, EncryptedIsRejected
  <1>3. ASSUME NEW reason \in {"policy_denied", "planning_failed"}, Fail(reason)
        PROVE  HlsInv'
    <2>1. reason \in Reasons
      BY <1>3 DEF Reasons
    <2> QED
      BY <1>1, <1>2, <1>3, <2>1, FailureKeeps
  <1>4. CASE Accept /\ pc' = "plan"
    <2>1. pc = "analyze" /\ scan' = StartSegments /\ UNCHANGED <<line, outcome>> /\ line = 0
      BY <1>4 DEF HlsInv, FetchShape, Accept, Fail
    <2>2. StartSegments \in SegmentScans(0)
      <3>1. <<>> \in Seq(Segments(0))
        OBVIOUS
      <3> QED
        BY <3>1 DEF StartSegments, SegmentScans
    <2>3. ListsSegments(StartSegments.segments, text, 0)
      <3>1. StartSegments.segments = <<>> /\ DOMAIN StartSegments.segments = {} /\ 1..0 = {}
        BY DEF StartSegments
      <3> QED
        BY <3>1 DEF ListsSegments
    <2>4. /\ Since(text, 0 + 1, "extinf") = IF StartSegments.extinf = 0 THEN {} ELSE {StartSegments.extinf}
          /\ LastOf(Since(text, 0 + 1, "byterange"), StartSegments.range)
      BY SinceStart DEF LastOf, StartSegments
    <2>5. SegmentShape'
      <3>1. /\ scan' \in SegmentScans(line') /\ ListsSegments(scan'.segments, text', line')
            /\ Since(text', line' + 1, "extinf") = IF scan'.extinf = 0 THEN {} ELSE {scan'.extinf}
            /\ LastOf(Since(text', line' + 1, "byterange"), scan'.range)
            /\ Rejection(text', FALSE) = None
        BY <1>1, <2>1, <2>2, <2>3, <2>4
      <3> QED
        BY <3>1 DEF SegmentShape
    <2>6. TypeOK'
      BY <1>1, <1>4, <2>1, <2>2 DEF HlsInv, TypeOK
    <2>7. FetchShape' /\ VariantShape' /\ OutcomeShape' /\ EncryptionReported'
      BY <1>1, <1>4, <2>1 DEF FetchShape, VariantShape, OutcomeShape, EncryptionReported, None
    <2> QED
      BY <2>5, <2>6, <2>7 DEF HlsInv
  <1>5. CASE Accept /\ Fail("policy_denied")
    BY <1>3, <1>5
  <1>6. CASE ReadSegments
    <2>1. /\ pc = "plan" /\ line < Len(text.body) /\ ~MalformedLine(scan, line + 1)
          /\ line' = line + 1 /\ scan' = SegmentLine(scan, line + 1)
          /\ UNCHANGED <<pc, target, nested, text, outcome>>
      BY <1>6 DEF ReadSegments
    <2>2. /\ scan \in SegmentScans(line) /\ ListsSegments(scan.segments, text, line)
          /\ Since(text, line + 1, "extinf") = IF scan.extinf = 0 THEN {} ELSE {scan.extinf}
          /\ LastOf(Since(text, line + 1, "byterange"), scan.range)
      BY <2>1 DEF HlsInv, SegmentShape
    <2>3. /\ SegmentLine(scan, line + 1) \in SegmentScans(line + 1)
          /\ ListsSegments(SegmentLine(scan, line + 1).segments, text, line + 1)
          /\ Since(text, line + 2, "extinf") =
                IF SegmentLine(scan, line + 1).extinf = 0 THEN {} ELSE {SegmentLine(scan, line + 1).extinf}
          /\ LastOf(Since(text, line + 2, "byterange"), SegmentLine(scan, line + 1).range)
      BY <1>1, <2>1, <2>2, SegmentLineKeeps
    <2>4. SegmentShape'
      <3>1. line' + 1 = line + 2
        BY <1>1, <2>1
      <3>2. /\ scan' \in SegmentScans(line') /\ ListsSegments(scan'.segments, text', line')
            /\ Since(text', line' + 1, "extinf") = IF scan'.extinf = 0 THEN {} ELSE {scan'.extinf}
            /\ LastOf(Since(text', line' + 1, "byterange"), scan'.range)
            /\ Rejection(text', FALSE) = None
        BY <1>1, <2>1, <2>3, <3>1
      <3> QED
        BY <3>2 DEF SegmentShape
    <2>5. line' \in 0..Len(text'.body)
      BY <1>1, <2>1
    <2>6. TypeOK'
      BY <2>1, <2>3, <2>5 DEF HlsInv, TypeOK
    <2>7. FetchShape' /\ VariantShape' /\ OutcomeShape' /\ EncryptionReported'
      BY <1>1, <2>1 DEF FetchShape, VariantShape, OutcomeShape, EncryptionReported, None
    <2> QED
      BY <2>4, <2>6, <2>7 DEF HlsInv
  <1>7. CASE Plan
    <2>1. /\ pc = "plan" /\ Supported(text) /\ line = Len(text.body) /\ pc' = "done"
          /\ outcome' = "planned" /\ UNCHANGED <<target, nested, text, line, scan>>
      BY <1>7 DEF Plan
    <2>2. TypeOK'
      BY <2>1 DEF HlsInv, TypeOK
    <2>3. SegmentShape'
      BY <2>1 DEF HlsInv, SegmentShape
    <2>4. EncryptionReported'
      BY <1>2 DEF EncryptionReported, Encrypted
    <2>5. FetchShape' /\ VariantShape'
      BY <2>1 DEF FetchShape, VariantShape
    <2>6. OutcomeShape'
      BY <2>1 DEF OutcomeShape, Supported, Has, None
    <2> QED
      BY <2>2, <2>3, <2>4, <2>5, <2>6 DEF HlsInv
  <1>8. CASE PlanFails
    <2>1. Fail("planning_failed")
      BY <1>8 DEF PlanFails
    <2> QED
      BY <1>3, <2>1
  <1>9. Accept => pc' = "plan" \/ Fail("policy_denied")
    BY DEF Accept
  <1> QED
    BY <1>4, <1>5, <1>6, <1>7, <1>8, <1>9

LEMMA StutterKeeps == HlsInv /\ UNCHANGED vars => HlsInv'
  <1> SUFFICES ASSUME HlsInv, UNCHANGED vars PROVE HlsInv'
    OBVIOUS
  <1>1. UNCHANGED <<pc, target, nested, text, line, scan, outcome>>
    BY DEF vars
  <1>2. TypeOK'
    BY <1>1 DEF HlsInv, TypeOK
  <1>3. FetchShape' /\ VariantShape'
    BY <1>1 DEF HlsInv, FetchShape, VariantShape, IsMaster, Has
  <1>4. SegmentShape'
    BY <1>1 DEF HlsInv, SegmentShape
  <1>5. OutcomeShape' /\ EncryptionReported'
    BY <1>1 DEF HlsInv, OutcomeShape, EncryptionReported, Supported, IsHls, IsMedia, IsMaster, Has
  <1> QED
    BY <1>2, <1>3, <1>4, <1>5 DEF HlsInv

LEMMA StepKeeps == HlsInv /\ [Next]_vars => HlsInv'
  BY FetchStepsKeep, SelectStepsKeep, VariantStepsKeep, PlanStepsKeep, StutterKeeps
  DEF Next, Step, Done

-----------------------------------------------------------------------------
(* What is proved of every playlist. *)

\* The scans of both loops explain what they have collected, at every line:
\* this is what the code's two loops rely on and never state.
THEOREM HlsInvariant == Spec => []HlsInv
  BY InitInv, StepKeeps, PTL DEF Spec

\* Types, for the states of the analysis and the planner.
THEOREM HlsTypeCorrect == Spec => []TypeOK
  <1>1. HlsInv => TypeOK
    BY DEF HlsInv
  <1> QED
    BY <1>1, HlsInvariant, PTL

\* A planned playlist is clear: the analyzer's and the planner's checks
\* complete each other, however the key lines are spelled.
THEOREM HlsPlannedIsClear == Spec => []PlannedIsClear
  <1>1. HlsInv => PlannedIsClear
    <2> SUFFICES ASSUME HlsInv, outcome = "planned"
                 PROVE  /\ (KeyMarks \cup {"map", "headerless"}) \cap text.marks = {}
                        /\ ~Has(text, StreamInfs)
      BY DEF PlannedIsClear
    <2>1. Supported(text) /\ Rejection(text, FALSE) = None
      BY DEF HlsInv, OutcomeShape, SegmentShape
    <2>2. IsHls(text) /\ "map" \notin text.marks
      BY <2>1, AcceptedIsMedia
    <2> QED
      BY <2>1, <2>2 DEF Supported, IsHls
  <1> QED
    BY <1>1, HlsInvariant, PTL

\* An encrypted media playlist is reported as encrypted, by whichever of the
\* two looks at it sees it.
THEOREM HlsEncryptionReported == Spec => []EncryptionReported
  <1>1. HlsInv => EncryptionReported
    BY DEF HlsInv
  <1> QED
    BY <1>1, HlsInvariant, PTL

\* The segments are as many as the URI lines they stand for: no two of them
\* stand for the same line.
LEMMA SegmentsCounted ==
    ASSUME NEW n \in Nat, NEW segments \in Seq(Segments(n)), NEW t,
           ListsSegments(segments, t, n), UriLines(t) \subseteq 1..n
    PROVE  Len(segments) = Cardinality(UriLines(t))
  <1> DEFINE uri == [m \in 1..Len(segments) |-> segments[m].uri]
  <1>1. Len(segments) \in Nat /\ DOMAIN segments = 1..Len(segments)
    BY LenProperties
  <1>2. \A m \in 1..Len(segments): segments[m].uri \in Nat
    <2>1. \A m \in 1..Len(segments): segments[m] \in Segments(n)
      BY <1>1, ElementOfSeq
    <2> QED
      BY <2>1 DEF Segments
  <1>3. {segments[m].uri: m \in 1..Len(segments)} = UriLines(t)
    BY <1>1 DEF ListsSegments
  <1>4. \A a, b \in 1..Len(segments): segments[a].uri = segments[b].uri => a = b
    <2> SUFFICES ASSUME NEW a \in 1..Len(segments), NEW b \in 1..Len(segments),
                        segments[a].uri = segments[b].uri
                 PROVE  a = b
      OBVIOUS
    <2>1. ~(a < b) /\ ~(b < a)
      BY <1>1, <1>2 DEF ListsSegments
    <2> QED
      BY <1>1, <2>1
  <1>5. uri \in Bijection(1..Len(segments), UriLines(t))
    <2>1. uri \in [1..Len(segments) -> UriLines(t)]
      BY <1>3
    <2>2. \A a, b \in 1..Len(segments): uri[a] = uri[b] => a = b
      BY <1>4
    <2>3. \A u \in UriLines(t): \E m \in 1..Len(segments): uri[m] = u
      BY <1>3
    <2> HIDE DEF uri
    <2> QED
      BY <2>1, <2>2, <2>3 DEF Bijection, Injection, Surjection, IsInjective
  <1>6. IsFiniteSet(1..Len(segments)) /\ Cardinality(1..Len(segments)) = Len(segments)
    <2> DEFINE size == Len(segments)
    <2>1. 1 \in Int /\ size \in Int /\ size \in Nat
      BY <1>1
    <2> HIDE DEF size
    <2>2. /\ IsFiniteSet(1..size)
          /\ Cardinality(1..size) = IF 1 > size THEN 0 ELSE size - 1 + 1
      BY <2>1, FS_Interval
    <2>3. Cardinality(1..size) = size
      BY <2>1, <2>2
    <2> QED
      BY <2>2, <2>3 DEF size
  <1> HIDE DEF uri
  <1>7. ExistsBijection(1..Len(segments), UriLines(t))
    BY <1>5 DEF ExistsBijection
  <1> QED
    BY <1>6, <1>7, FS_Bijection

\* The plan and the analyzer's count agree, though no code is shared, and no
\* duration or byte range goes to another segment.
THEOREM HlsPlanFaithful == Spec => []PlanFaithful
  <1>1. HlsInv => PlanFaithful
    <2> SUFFICES ASSUME HlsInv, outcome = "planned"
                 PROVE  /\ Len(scan.segments) = SegmentCount(text)
                        /\ ListsSegments(scan.segments, text, Len(text.body))
      BY DEF PlanFaithful
    <2>1. /\ scan \in SegmentScans(line) /\ line = Len(text.body) /\ text \in Playlists
          /\ ListsSegments(scan.segments, text, line) /\ Rejection(text, FALSE) = None
      BY DEF HlsInv, TypeOK, OutcomeShape, SegmentShape
    <2>2. line \in Nat /\ UriLines(text) \subseteq 1..line
      BY <2>1, PlaylistShape DEF UriLines
    <2>3. scan.segments \in Seq(Segments(line))
      BY <2>1 DEF SegmentScans
    <2>4. Len(scan.segments) = Cardinality(UriLines(text))
      BY <2>1, <2>2, <2>3, SegmentsCounted
    <2>5. ~IsMaster(text)
      BY <2>1, AcceptedIsMedia
    <2> QED
      BY <2>1, <2>4, <2>5 DEF SegmentCount
  <1> QED
    BY <1>1, HlsInvariant, PTL

\* The variant that is fetched is the best of those a STREAM-INF leads to,
\* whichever lines stand between the two.
THEOREM HlsVariantBest == Spec => VariantBest
  <1> DEFINE Best(t, u) ==
               LET high == Leads(t, "stream_inf_high")
                   best == IF high = {} THEN Leads(t, "stream_inf") ELSE high
               IN  \E i \in best: u = t.body[i] /\ \A j \in best: j <= i
  <1>1. ASSUME HlsInv, [Next]_vars, pc = "variants", pc' = "fetch"
        PROVE  Best(text, target')
    <2>1. SelectVariant
      BY <1>1 DEF Next, Step, Done, vars, RefuseHost, Serve, FetchFails, Fetch, RejectFirst, Select,
                  ReadVariants, NoVariant, RejectMedia, Accept, ReadSegments, Plan, PlanFails, Fail
    <2>2. target' = text.body[BestVariant(scan.found)] /\ line = Len(text.body) /\ scan.found # <<>>
      BY <2>1 DEF SelectVariant
    <2>3. /\ text \in Playlists /\ scan \in VariantScans(line) /\ FindsVariants(scan, text, line)
      BY <1>1 DEF HlsInv, TypeOK, VariantShape
    <2>4. line \in Nat /\ DOMAIN text.body = 1..line
      BY <2>2, <2>3, PlaylistShape
    <2>5. scan.found \in Seq(Variants(line))
      BY <2>3 DEF VariantScans
    <2>6. \A a, b \in DOMAIN scan.found: a < b => scan.found[a].line < scan.found[b].line
      BY <2>3 DEF FindsVariants
    <2>7. PICK m \in DOMAIN scan.found:
             /\ BestVariant(scan.found) = scan.found[m].line
             /\ ~scan.found[m].high => \A a \in DOMAIN scan.found: ~scan.found[a].high
             /\ \A a \in DOMAIN scan.found:
                   scan.found[a].high = scan.found[m].high => scan.found[a].line <= scan.found[m].line
      BY <2>2, <2>4, <2>5, <2>6, BestIsLast
    <2> DEFINE f == scan.found
    <2>8. \A a \in DOMAIN f: f[a].line \in Leads(text, KindOf(f[a])) /\ f[a].line \in Nat
                               /\ f[a].high \in BOOLEAN
      <3>1. \A a \in DOMAIN f: f[a] \in Variants(line)
        BY <2>5, LenProperties, ElementOfSeq
      <3> QED
        BY <2>3, <3>1 DEF FindsVariants, Variants
    <2>9. \A kind \in StreamInfs: \A i \in Leads(text, kind):
             \E a \in DOMAIN f: f[a].line = i /\ KindOf(f[a]) = kind
      <3> SUFFICES ASSUME NEW kind \in StreamInfs, NEW i \in Leads(text, kind)
                   PROVE  \E a \in DOMAIN f: f[a].line = i /\ KindOf(f[a]) = kind
        OBVIOUS
      <3>1. i \in 1..line /\ LastInf(text, i, kind)
        BY <2>4 DEF Leads, UriLines
      <3>2. PICK a \in DOMAIN f: f[a].line = i
        BY <2>3, <3>1 DEF FindsVariants
      <3>3. LastInf(text, i, KindOf(f[a])) /\ KindOf(f[a]) \in StreamInfs
        <4>1. KindOf(f[a]) \in StreamInfs
          BY DEF KindOf, StreamInfs
        <4>2. f[a].line \in Leads(text, KindOf(f[a]))
          BY <2>8
        <4> QED
          BY <3>2, <4>1, <4>2 DEF Leads
      <3>4. i \in Nat \ {0}
        BY <3>1
      <3>5. KindOf(f[a]) = kind
        BY <3>1, <3>3, <3>4, LastInfUnique
      <3> QED
        BY <3>2, <3>5
    <2> HIDE DEF f
    <2>10. \A a \in DOMAIN f: KindOf(f[a]) = "stream_inf_high" <=> f[a].high
      BY DEF KindOf
    <2>11. {"stream_inf", "stream_inf_high"} = StreamInfs
      BY DEF StreamInfs
    <2> DEFINE high == Leads(text, "stream_inf_high")
               best == IF high = {} THEN Leads(text, "stream_inf") ELSE high
    <2>12. f[m].line \in best /\ m \in DOMAIN f
      <3>1. m \in DOMAIN f
        BY <2>7 DEF f
      <3>2. CASE f[m].high
        <4>1. f[m].line \in high
          BY <2>8, <3>1, <3>2 DEF KindOf
        <4> QED
          BY <3>1, <4>1
      <3>3. CASE ~f[m].high
        <4>1. f[m].line \in Leads(text, "stream_inf")
          BY <2>8, <3>1, <3>3 DEF KindOf
        <4>2. \A a \in DOMAIN f: ~f[a].high
          BY <2>7, <3>3 DEF f
        <4>3. high = {}
          BY <2>9, <2>10, <2>11, <4>2
        <4> QED
          BY <3>1, <4>1, <4>3
      <3> QED
        BY <3>2, <3>3
    <2>13. \A j \in best: j <= f[m].line
      <3> SUFFICES ASSUME NEW j \in best PROVE j <= f[m].line
        OBVIOUS
      <3>1. PICK a \in DOMAIN f: f[a].line = j /\
                 KindOf(f[a]) = IF high = {} THEN "stream_inf" ELSE "stream_inf_high"
        BY <2>9, <2>11
      <3>2. f[a].high <=> high # {}
        BY <2>10, <3>1
      <3>3. f[m].high <=> high # {}
        <4>1. f[m].high => high # {}
          BY <2>8, <2>12 DEF KindOf
        <4>2. high # {} => f[m].high
          BY <2>7, <3>1, <3>2 DEF f
        <4> QED
          BY <4>1, <4>2
      <3>4. f[a].high = f[m].high
        BY <2>8, <2>12, <3>2, <3>3
      <3>5. \A b \in DOMAIN f: f[b].high = f[m].high => f[b].line <= f[m].line
        BY <2>7 DEF f
      <3> QED
        BY <3>1, <3>4, <3>5
    <2>14. target' = text.body[f[m].line]
      BY <2>2, <2>7 DEF f
    <2> HIDE DEF best
    <2>15. \E i \in best: target' = text.body[i] /\ \A j \in best: j <= i
      BY <2>12, <2>13, <2>14
    <2> QED
      BY <2>15 DEF best
  <1>2. HlsInv /\ [Next]_vars =>
          [(pc = "variants" /\ pc' = "fetch") =>
             LET high == Leads(text, "stream_inf_high")
                 best == IF high = {} THEN Leads(text, "stream_inf") ELSE high
             IN  \E i \in best: target' = text.body[i] /\ \A j \in best: j <= i]_vars
    BY <1>1
  <1> QED
    BY <1>2, HlsInvariant, PTL DEF Spec, VariantBest


-----------------------------------------------------------------------------
(* The bound on the steps of an analysis. *)

\* The peer adds one line at a time.
LEMMA ServeAddsALine ==
    ASSUME text \in Playlists, Serve
    PROVE  Served' = Served + 1
  <1>1. /\ text.body \in Seq(Lines) /\ Len(text.body) \in Nat /\ text.marks \in SUBSET Marks
        /\ Cardinality(text.marks) \in Nat /\ text = [marks |-> text.marks, body |-> text.body]
    BY PlaylistShape
  <1>2. ASSUME NEW l \in Lines, text' = [text EXCEPT !.body = Append(@, l)]
        PROVE  Len(text'.body) = Len(text.body) + 1 /\ text'.marks = text.marks
    <2>1. text' = [marks |-> text.marks, body |-> Append(text.body, l)]
      BY <1>1, <1>2
    <2>2. Len(Append(text.body, l)) = Len(text.body) + 1
      BY <1>1
    <2> QED
      BY <2>1, <2>2
  <1>3. ASSUME NEW m \in Marks \ text.marks, text' = [text EXCEPT !.marks = @ \cup {m}]
        PROVE  Cardinality(text'.marks) = Cardinality(text.marks) + 1 /\ text'.body = text.body
    <2>1. text' = [marks |-> text.marks \cup {m}, body |-> text.body]
      BY <1>1, <1>3
    <2>2. IsFiniteSet(text.marks)
      BY <1>1, MarksFinite, FS_Subset
    <2>3. Cardinality(text.marks \cup {m}) = Cardinality(text.marks) + 1
      BY <2>2, FS_AddElement
    <2> QED
      BY <2>1, <2>3
  <1>4. \/ \E l \in Lines: text' = [text EXCEPT !.body = Append(@, l)]
        \/ \E m \in Marks \ text.marks: text' = [text EXCEPT !.marks = @ \cup {m}]
    BY DEF Serve
  <1>5. \/ Len(text'.body) = Len(text.body) + 1 /\ text'.marks = text.marks
        \/ Cardinality(text'.marks) = Cardinality(text.marks) + 1 /\ text'.body = text.body
    BY <1>2, <1>3, <1>4
  <1> QED
    BY <1>1, <1>5 DEF Served

\* What the steps left come to at each stage; they are never fewer than none.
StepsLeftFit ==
    /\ Served \in 0..MaxLines
    /\ Unread \in 0..MaxLines
    /\ pc \in {"fetch", "select", "variants", "analyze", "plan", "done"}
    /\ pc = "done" => StepsLeft = 0
    /\ pc = "plan" => StepsLeft = 1 + Unread
    /\ pc = "analyze" => StepsLeft = 2 + MaxLines
    /\ pc = "fetch" /\ nested => StepsLeft = 3 + 2 * MaxLines - Served
    /\ pc = "variants" => StepsLeft = 4 + 2 * MaxLines + Unread
    /\ pc = "select" => StepsLeft = 5 + 3 * MaxLines
    /\ pc = "fetch" /\ ~nested => StepsLeft = 6 + 4 * MaxLines - Served

LEMMA StepsLeftFits == HlsInv => StepsLeftFit
  <1> SUFFICES ASSUME HlsInv PROVE StepsLeftFit
    OBVIOUS
  <1>1. /\ text \in Playlists /\ line \in 0..Len(text.body)
        /\ pc \in {"fetch", "select", "variants", "analyze", "plan", "done"}
    BY DEF HlsInv, TypeOK
  <1>2. /\ Len(text.body) \in Nat /\ Cardinality(text.marks) \in Nat
        /\ Len(text.body) + Cardinality(text.marks) <= MaxLines
    BY <1>1, PlaylistShape
  <1>3. Served \in 0..MaxLines /\ Unread \in 0..MaxLines
    BY <1>1, <1>2, PlaylistAssumption DEF Served, Unread
  <1>4. /\ pc = "done" => StepsLeft = 0
        /\ pc = "plan" => StepsLeft = 1 + Unread
        /\ pc = "analyze" => StepsLeft = 2 + MaxLines
        /\ pc = "variants" => StepsLeft = 4 + 2 * MaxLines + Unread
        /\ pc = "select" => StepsLeft = 5 + 3 * MaxLines
    BY DEF StepsLeft
  <1>5. /\ pc = "fetch" /\ nested => StepsLeft = 3 + 2 * MaxLines - Served
        /\ pc = "fetch" /\ ~nested => StepsLeft = 6 + 4 * MaxLines - Served
    BY DEF StepsLeft
  <1> QED
    BY <1>1, <1>3, <1>4, <1>5 DEF StepsLeftFit

\* What a step does with the stage, the lines served and the lines read.
LEMMA StageMovesOn ==
    ASSUME HlsInv, Step
    PROVE  \/ pc # "done" /\ pc' = "done"
           \/ pc = "fetch" /\ pc' = "fetch" /\ nested' = nested /\ Served' = Served + 1
           \/ pc = "fetch" /\ pc' = (IF nested THEN "analyze" ELSE "select")
           \/ pc = "select" /\ pc' = "variants" /\ Unread' = Unread
           \/ pc = "select" /\ pc' = "analyze"
           \/ pc = "variants" /\ pc' = "variants" /\ Unread' = Unread - 1
           \/ pc = "variants" /\ pc' = "fetch" /\ nested' /\ Served' = 0
           \/ pc = "analyze" /\ pc' = "plan"
           \/ pc = "plan" /\ pc' = "plan" /\ Unread' = Unread - 1
  <1>1. text \in Playlists /\ line \in 0..Len(text.body)
    BY DEF HlsInv, TypeOK
  <1>2. Len(text.body) \in Nat
    BY <1>1, PlaylistShape
  <1>3. CASE RefuseHost \/ FetchFails \/ RejectFirst \/ NoVariant \/ RejectMedia \/ Plan \/ PlanFails
    BY <1>3 DEF RefuseHost, FetchFails, RejectFirst, NoVariant, RejectMedia, Plan, PlanFails, Fail
  <1>4. CASE Serve
    BY <1>1, <1>4, ServeAddsALine DEF Serve
  <1>5. CASE Fetch
    BY <1>5 DEF Fetch
  <1>6. CASE Select
    BY <1>6 DEF Select, Unread
  <1>7. CASE ReadVariants \/ ReadSegments
    <2>1. /\ pc' = pc /\ pc \in {"variants", "plan"} /\ text' = text /\ line' = line + 1
      BY <1>7 DEF ReadVariants, ReadSegments
    <2>2. Unread' = Unread - 1
      BY <1>1, <1>2, <2>1 DEF Unread
    <2> QED
      BY <2>1, <2>2
  <1>8. CASE SelectVariant
    <2>1. pc = "variants" /\ pc' = "fetch" /\ nested' /\ text' = NoText
      BY <1>8 DEF SelectVariant
    <2>2. Served' = 0
      BY <2>1, FS_EmptySet DEF NoText, Served
    <2> QED
      BY <2>1, <2>2
  <1>9. CASE Accept
    BY <1>9 DEF Accept, Fail
  <1> QED
    BY <1>3, <1>4, <1>5, <1>6, <1>7, <1>8, <1>9 DEF Step

\* For playlists of any length: the analysis and the planning of a track end
\* within 4 * MaxLines + 6 steps, the peer's lines counted, and so after two
\* manifests at most.
THEOREM HlsAnalysisAdvances == Spec => AnalysisAdvances
  <1>1. HlsInv /\ StepsLeftFit /\ StepsLeftFit' /\ [Next]_vars
           => [StepsLeft' \in 0..(StepsLeft - 1)]_vars
    <2> SUFFICES ASSUME HlsInv, StepsLeftFit, StepsLeftFit', Step
                 PROVE  StepsLeft' \in 0..(StepsLeft - 1)
      BY DEF Next, Done
    <2> USE PlaylistAssumption
    <2>1. CASE pc' = "done"
      BY <2>1, StageMovesOn DEF StepsLeftFit
    <2>2. CASE pc = "fetch" /\ pc' # "done"
      BY <2>2, StageMovesOn DEF StepsLeftFit
    <2>3. CASE pc \in {"select", "analyze"} /\ pc' # "done"
      BY <2>3, StageMovesOn DEF StepsLeftFit
    <2>4. CASE pc \in {"variants", "plan"} /\ pc' # "done"
      BY <2>4, StageMovesOn DEF StepsLeftFit
    <2> QED
      BY <2>1, <2>2, <2>3, <2>4, StageMovesOn DEF StepsLeftFit
  <1> QED
    BY <1>1, StepsLeftFits, HlsInvariant, PTL DEF Spec, AnalysisAdvances
=============================================================================
