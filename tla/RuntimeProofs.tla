--------------------------- MODULE RuntimeProofs ---------------------------
(***************************************************************************)
(* Two of the runtime's components, one after the other.                   *)
(*                                                                         *)
(* Collections: every step of the headers over shared storage is a step of *)
(* the value semantics a writer of Tea is told of, for any names, owners,  *)
(* structs, references, elements and limits, and any scripts the checker   *)
(* would let through.                                                      *)
(*                                                                         *)
(* Sync: what the sync operator keeps for every projector, every number of *)
(* values and notifications, and every order in which the two sides and    *)
(* the consumer act.                                                       *)
(***************************************************************************)
EXTENDS Collections, Sync, WellFoundedInduction, FiniteSetTheorems, TLAPS

(***************************************************************************)
(* Collections                                                             *)
(***************************************************************************)

(* Well-founded: a set of numbers has a least.                             *)
LEMMA Least ==
  ASSUME NEW S, S \subseteq Nat, S # {}
  PROVE  \E x \in S : \A y \in S : x <= y
<1> DEFINE R == {pair \in Nat \X Nat : pair[1] < pair[2]}
<1>1. IsWellFoundedOn(R, Nat)
  BY NatLessThanWellFounded DEF OpToRel
<1>2. PICK x \in S : \A y \in S : ~ (<<y, x>> \in R)
  <2> HIDE DEF R
  <2> QED
    BY <1>1, WFMin
<1>3. \A y \in S : y < x => <<y, x>> \in R
  OBVIOUS
<1> HIDE DEF R
<1>4. x \in Nat /\ \A y \in S : y \in Nat /\ ~(y < x)
  BY <1>2, <1>3
<1> QED
  BY <1>4

(* A directory keeps each of its keys once, as canonicalKey() gives it.    *)
Directory == {e \in Seq(Entries) :
  /\ \A i \in 1..Len(e) : e[i].key \notin {Nil, NegativeZero}
  /\ \A i, j \in 1..Len(e) : e[i].key = e[j].key => i = j}

Payload(k) == IF k = "map" THEN {e \in Directory : Len(e) <= MaxElements} ELSE Seq(Elements)
HeaderOf(k) ==
  IF k = "array" THEN ArrayHeaders ELSE IF k = "map" THEN MapHeaders ELSE MatrixHeaders

(* A header of kind k that is na, or agrees with what its storage holds.   *)
Sound(m, k, h) ==
  /\ h \in HeaderOf(k) /\ m.blocks[h.storage] \in Payload(k)
  /\ IF k = "array" THEN ArrayAgrees(h, m.blocks[h.storage])
     ELSE IF k = "map" THEN MapAgrees(h, m.blocks[h.storage])
     ELSE MatrixAgrees(h, m.blocks[h.storage])
Good(m, k, h) == h = Nil \/ Sound(m, k, h)

Memories ==
  [blocks : [Refs -> Stored \cup {Free}], names : [Names -> HeaderValues \cup {Nil}],
   owners : [Owners -> Structs \cup {Nil}], fields : [Structs -> HeaderValues \cup {Nil, Free}]]

(* Storage that is in use is never written.                                *)
Grown(m, m2) ==
  /\ m2 \in Memories
  /\ m2.names = m.names /\ m2.owners = m.owners /\ m2.fields = m.fields
  /\ \A r \in Refs : m.blocks[r] # Free => m2.blocks[r] = m.blocks[r]

(* What is allocated leaves the meaning of every header as it was: this is *)
(* why sharing cannot be seen.                                             *)
LEMMA GrownKeeps ==
  ASSUME CollectionsAssumption, NEW m \in Memories, NEW m2, Grown(m, m2), NEW k \in Kinds, NEW h, Good(m, k, h)
  PROVE  Good(m2, k, h) /\ Meaning(m2, h) = Meaning(m, h)
<1>1. CASE h = Nil
  BY <1>1 DEF Good, Meaning
<1>2. CASE Sound(m, k, h)
  <2>1. h.storage \in Refs
    BY <1>2 DEF Sound, HeaderOf, ArrayHeaders, MapHeaders, MatrixHeaders
  <2>2. m.blocks[h.storage] # Free
    BY <1>2 DEF Sound, Payload, Directory, CollectionsAssumption, Stored
  <2>3. m2.blocks[h.storage] = m.blocks[h.storage]
    BY <2>1, <2>2 DEF Grown
  <2> QED
    BY <1>2, <2>3 DEF Good, Sound, Meaning
<1> QED
  BY <1>1, <1>2 DEF Good

At(h, r) == [h EXCEPT !.storage = r]

(* An allocation takes a reference that nothing was put in, or throws.     *)
LEMMA Allocated ==
  ASSUME CollectionsAssumption, NEW m \in Memories, NEW h, NEW payload \in Stored,
         Allocate(m, h, payload) # Error("HEAP_LIMIT_EXCEEDED")
  PROVE  \E r \in Refs, m2 \in Memories :
           /\ Allocate(m, h, payload) = Gives(m2, At(h, r), <<>>)
           /\ Grown(m, m2) /\ m2.blocks[r] = payload
<1> DEFINE free == {r \in Refs : m.blocks[r] = Free}
<1>1. free # {}
  BY DEF Allocate
<1>2. free \subseteq Nat
  BY DEF CollectionsAssumption
<1>3. \E x \in free : \A y \in free : x <= y
  <2> HIDE DEF free
  <2> QED
    BY <1>1, <1>2, Least
<1> DEFINE r == CHOOSE x \in free : \A y \in free : x <= y
           m2 == [m EXCEPT !.blocks[r] = payload]
<1>4. r \in free
  <2> HIDE DEF free
  <2> QED
    BY <1>3
<1>5. Allocate(m, h, payload) = Gives(m2, At(h, r), <<>>)
  BY <1>1 DEF Allocate, At
<1>6. r \in Refs /\ m.blocks[r] = Free
  BY <1>4
<1> HIDE DEF r, free
<1>7. m2 \in Memories /\ m2.blocks[r] = payload
  BY <1>6 DEF Memories
<1>8. Grown(m, m2)
  BY <1>6, <1>7 DEF Grown, Memories
<1> HIDE DEF m2
<1> QED
  BY <1>5, <1>6, <1>7, <1>8

(* What an operation gives in the end, if the heap has room for it.        *)
Gave(m, r, k, v, w) ==
  \/ r = Error("HEAP_LIMIT_EXCEEDED")
  \/ \E m2 \in Memories, h \in HeaderValues :
       r = Gives(m2, h, w) /\ Grown(m, m2) /\ Sound(m2, k, h) /\ Meaning(m2, h) = v
Does(m, r, k, refused, v, w) ==
  IF refused = "ok" THEN Gave(m, r, k, v, w) ELSE r = Error(refused)

(* A header that agrees with its storage is never refused as a receiver.   *)
LEMMA SoundIsHeader ==
  ASSUME CollectionsAssumption, NEW m, NEW k \in Kinds, NEW h, Sound(m, k, h)
  PROVE  /\ h \in HeaderValues /\ h # Nil /\ h.kind = k /\ h.storage \in Refs
         /\ m.blocks[h.storage] # Free
         /\ ReceiverError(m, h) = NoError
<1>1. h \in HeaderValues /\ h.kind = k /\ h.storage \in Refs
  BY DEF Sound, HeaderOf, Kinds, ArrayHeaders, MapHeaders, MatrixHeaders, HeaderValues
<1>2. h # Nil
  BY <1>1 DEF CollectionsAssumption
<1>3. m.blocks[h.storage] # Free
  BY DEF Sound, Payload, Directory, CollectionsAssumption, Stored
<1>4. Agrees(m, h)
  BY <1>1, <1>3 DEF Agrees, Sound, Kinds
<1> QED
  BY <1>1, <1>2, <1>3, <1>4 DEF ReceiverError

(* An array is made, or no reference was left.                             *)
LEMMA GaveArray ==
  ASSUME CollectionsAssumption, NEW m \in Memories, NEW elements \in Seq(Elements),
         NEW h \in [kind : {"array"}, storage : Refs \cup {Nil}, size : Nat, capacity : Nat],
         h.size = Len(elements), h.size <= h.capacity
  PROVE  Gave(m, Allocate(m, h, elements), "array", [kind |-> "array", of |-> elements], <<>>)
<1>1. elements \in Stored
  BY DEF Stored
<1>2. SUFFICES ASSUME Allocate(m, h, elements) # Error("HEAP_LIMIT_EXCEEDED")
             PROVE  Gave(m, Allocate(m, h, elements), "array", [kind |-> "array", of |-> elements], <<>>)
  BY DEF Gave
<1>3. PICK r \in Refs, m2 \in Memories :
        /\ Allocate(m, h, elements) = Gives(m2, At(h, r), <<>>)
        /\ Grown(m, m2) /\ m2.blocks[r] = elements
  BY <1>1, <1>2, Allocated
<1> DEFINE after == At(h, r)
<1>4. after \in ArrayHeaders /\ after.storage = r /\ after.size = Len(elements) /\ after.size <= after.capacity
  BY DEF ArrayHeaders, At
<1> HIDE DEF after
<1>5. Sound(m2, "array", after)
  BY <1>3, <1>4 DEF Sound, HeaderOf, Payload, ArrayAgrees
<1>6. after \in HeaderValues /\ after # Nil /\ after.kind = "array"
  BY <1>5, SoundIsHeader DEF Kinds
<1>7. Meaning(m2, after) = [kind |-> "array", of |-> elements]
  BY <1>3, <1>4, <1>6 DEF Meaning
<1>8. Allocate(m, h, elements) = Gives(m2, after, <<>>)
  BY <1>3 DEF after
<1> QED
  BY <1>3, <1>5, <1>6, <1>7, <1>8 DEF Gave

(* A map is made, or no reference was left.                                *)
LEMMA GaveMap ==
  ASSUME CollectionsAssumption, NEW m \in Memories, NEW entries \in Directory,
         NEW h \in [kind : {"map"}, storage : Refs \cup {Nil}, size : Nat], h.size = Len(entries),
         Len(entries) <= MaxElements
  PROVE  Gave(m, Allocate(m, h, entries), "map",
              [kind |-> "map", order |-> Keys(entries), under |-> UnderKeys(entries)], <<>>)
<1>1. entries \in Stored
  BY DEF Stored, Directory
<1> DEFINE v == [kind |-> "map", order |-> Keys(entries), under |-> UnderKeys(entries)]
<1>2. SUFFICES ASSUME Allocate(m, h, entries) # Error("HEAP_LIMIT_EXCEEDED")
             PROVE  Gave(m, Allocate(m, h, entries), "map", v, <<>>)
  BY DEF Gave
<1>3. PICK r \in Refs, m2 \in Memories :
        /\ Allocate(m, h, entries) = Gives(m2, At(h, r), <<>>)
        /\ Grown(m, m2) /\ m2.blocks[r] = entries
  BY <1>1, <1>2, Allocated
<1> DEFINE after == At(h, r)
<1>4. after \in MapHeaders /\ after.storage = r /\ after.size = Len(entries)
  BY DEF MapHeaders, At
<1> HIDE DEF after
<1>5. Sound(m2, "map", after)
  BY <1>3, <1>4 DEF Sound, HeaderOf, Payload, MapAgrees
<1>6. after \in HeaderValues /\ after # Nil /\ after.kind = "map"
  BY <1>5, SoundIsHeader DEF Kinds
<1>7. Meaning(m2, after) = v
  BY <1>3, <1>4, <1>6 DEF Meaning
<1>8. Allocate(m, h, entries) = Gives(m2, after, <<>>)
  BY <1>3 DEF after
<1> HIDE DEF v
<1> QED
  BY <1>3, <1>5, <1>6, <1>7, <1>8 DEF Gave

(* The rectangle of a storage of rows * columns elements.                  *)
Spot(columns, i, j) == (i - 1) * columns + (j - 1) + 1
Rectangle(rows, columns, elements) ==
  [i \in 1..rows |-> [j \in 1..columns |-> elements[Spot(columns, i, j)]]]

(* Every row and column has a place of its own in the storage.             *)
LEMMA CellWithin ==
  ASSUME NEW rows \in Nat, NEW columns \in Nat, NEW i \in 1..rows, NEW j \in 1..columns
  PROVE  Spot(columns, i, j) \in 1..rows * columns
<1>1. i - 1 \in Nat /\ rows - i \in Nat
  OBVIOUS
<1>2. (i - 1) * columns \in Nat /\ (rows - i) * columns \in Nat
  BY <1>1
<1>3. rows * columns = (i - 1) * columns + columns + (rows - i) * columns
  BY <1>1
<1> QED
  BY <1>2, <1>3 DEF Spot

LEMMA CellApart ==
  ASSUME NEW columns \in Nat, NEW i \in Nat, NEW i2 \in Nat, NEW j \in 1..columns, NEW j2 \in 1..columns,
         Spot(columns, i, j) = Spot(columns, i2, j2)
  PROVE  i = i2 /\ j = j2
<1>1. (i - 1) * columns - (i2 - 1) * columns = (i - i2) * columns
  OBVIOUS
<1>2. (i - i2) * columns = j2 - j
  BY <1>1 DEF Spot
<1>3. ~(i > i2)
  <2> SUFFICES ASSUME i > i2 PROVE FALSE
    OBVIOUS
  <2>1. i - i2 - 1 \in Nat
    OBVIOUS
  <2>2. (i - i2) * columns = columns + (i - i2 - 1) * columns /\ (i - i2 - 1) * columns \in Nat
    BY <2>1
  <2> QED
    BY <1>2, <2>2
<1>4. ~(i2 > i)
  <2> SUFFICES ASSUME i2 > i PROVE FALSE
    OBVIOUS
  <2>1. i2 - i - 1 \in Nat
    OBVIOUS
  <2>2. (i - i2) * columns = -(columns + (i2 - i - 1) * columns) /\ (i2 - i - 1) * columns \in Nat
    BY <2>1
  <2> QED
    BY <1>2, <2>2
<1> QED
  BY <1>2, <1>3, <1>4

LEMMA SameSeq ==
  ASSUME NEW S, NEW p \in Seq(S), NEW q \in Seq(S), Len(p) = Len(q), \A i \in 1..Len(p) : p[i] = q[i]
  PROVE  p = q
  OBVIOUS

LEMMA SubSeqIs ==
  ASSUME NEW S, NEW s \in Seq(S), NEW i \in 1..Len(s), NEW j \in 1..Len(s), i <= j
  PROVE  /\ SubSeq(s, i, j) \in Seq(S) /\ Len(SubSeq(s, i, j)) = j - i + 1
         /\ \A n \in 1..j - i + 1 : SubSeq(s, i, j)[n] = s[i + n - 1]
<1>1. \A n \in i..j : s[n] \in S
  OBVIOUS
<1>2. Len(SubSeq(s, i, j)) = j - i + 1
  OBVIOUS
<1>3. \A n \in 1..j - i + 1 : SubSeq(s, i, j)[n] = s[i + n - 1]
  OBVIOUS
<1>4. SubSeq(s, i, j) \in Seq(S)
  BY <1>1
<1> QED
  BY <1>2, <1>3, <1>4

LEMMA FunctionIsSeq ==
  ASSUME NEW n \in Nat, NEW S, NEW q, q = [j \in 1..n |-> q[j]], \A j \in 1..n : q[j] \in S
  PROVE  q \in Seq(S) /\ Len(q) = n
  OBVIOUS

(* A rectangle has its rows and columns, each cell where Spot says.        *)
LEMMA RectangleIs ==
  ASSUME NEW rows \in Nat, NEW columns \in Nat, NEW e \in Seq(Elements), Len(e) = rows * columns
  PROVE  /\ Rectangle(rows, columns, e) \in Seq(Seq(Elements)) /\ Len(Rectangle(rows, columns, e)) = rows
         /\ \A i \in 1..rows : /\ Rectangle(rows, columns, e)[i] \in Seq(Elements)
                               /\ Len(Rectangle(rows, columns, e)[i]) = columns
                               /\ \A j \in 1..columns :
                                    Rectangle(rows, columns, e)[i][j] = e[Spot(columns, i, j)]
<1> DEFINE r == Rectangle(rows, columns, e)
<1>1. ASSUME NEW i \in 1..rows
      PROVE  /\ r[i] \in Seq(Elements) /\ Len(r[i]) = columns
             /\ \A j \in 1..columns : r[i][j] = e[Spot(columns, i, j)]
  <2>1. r[i] = [j \in 1..columns |-> e[Spot(columns, i, j)]]
    BY DEF Rectangle
  <2>2. \A j \in 1..columns : Spot(columns, i, j) \in 1..Len(e)
    BY CellWithin
  <2>3. \A j \in 1..columns : e[Spot(columns, i, j)] \in Elements
    BY <2>2
  <2>4. \A j \in 1..columns : r[i][j] = e[Spot(columns, i, j)]
    BY <2>1
  <2>5. r[i] = [j \in 1..columns |-> r[i][j]]
    BY <2>1
  <2>6. \A j \in 1..columns : r[i][j] \in Elements
    BY <2>3, <2>4
  <2> HIDE DEF r
  <2>7. r[i] \in Seq(Elements) /\ Len(r[i]) = columns
    BY <2>5, <2>6, FunctionIsSeq
  <2> QED
    BY <2>4, <2>7
<1>2. r = [i \in 1..rows |-> r[i]]
  BY DEF Rectangle
<1> HIDE DEF r
<1>3. r \in Seq(Seq(Elements)) /\ Len(r) = rows
  BY <1>1, <1>2
<1> QED
  BY <1>1, <1>3 DEF r

(* A matrix is made, or no reference was left.                             *)
LEMMA GaveMatrix ==
  ASSUME CollectionsAssumption, NEW m \in Memories, NEW elements \in Seq(Elements),
         NEW h \in [kind : {"matrix"}, storage : Refs \cup {Nil}, rows : Nat, columns : Nat],
         h.rows * h.columns = Len(elements)
  PROVE  Gave(m, Allocate(m, h, elements), "matrix",
              [kind |-> "matrix", rows |-> h.rows, columns |-> h.columns,
               at |-> Rectangle(h.rows, h.columns, elements)], <<>>)
<1>1. elements \in Stored
  BY DEF Stored
<1> DEFINE v == [kind |-> "matrix", rows |-> h.rows, columns |-> h.columns,
                 at |-> Rectangle(h.rows, h.columns, elements)]
<1>2. SUFFICES ASSUME Allocate(m, h, elements) # Error("HEAP_LIMIT_EXCEEDED")
             PROVE  Gave(m, Allocate(m, h, elements), "matrix", v, <<>>)
  BY DEF Gave
<1>3. PICK r \in Refs, m2 \in Memories :
        /\ Allocate(m, h, elements) = Gives(m2, At(h, r), <<>>)
        /\ Grown(m, m2) /\ m2.blocks[r] = elements
  BY <1>1, <1>2, Allocated
<1> DEFINE after == At(h, r)
<1>4. after \in MatrixHeaders /\ after.storage = r /\ after.rows = h.rows /\ after.columns = h.columns
  BY DEF MatrixHeaders, At
<1> HIDE DEF after
<1>5. Sound(m2, "matrix", after)
  BY <1>3, <1>4 DEF Sound, HeaderOf, Payload, MatrixAgrees
<1>6. after \in HeaderValues /\ after # Nil /\ after.kind = "matrix"
  BY <1>5, SoundIsHeader DEF Kinds
<1>7. Meaning(m2, after) = v
  BY <1>3, <1>4, <1>6 DEF Meaning, Rectangle, CellAt, Spot
<1>8. Allocate(m, h, elements) = Gives(m2, after, <<>>)
  BY <1>3 DEF after
<1> HIDE DEF v
<1> QED
  BY <1>3, <1>5, <1>6, <1>7, <1>8 DEF Gave

LEMMA GaveWithResult ==
  ASSUME NEW m, NEW r, NEW k, NEW v, NEW x, Gave(m, r, k, v, <<>>)
  PROVE  Gave(m, WithResult(r, x), k, v, <<x>>)
<1>1. CASE r = Error("HEAP_LIMIT_EXCEEDED")
  BY <1>1 DEF Gave, WithResult, Then, Failed, Error
<1>2. ASSUME NEW m2 \in Memories, NEW h \in HeaderValues, r = Gives(m2, h, <<>>),
             Grown(m, m2) /\ Sound(m2, k, h) /\ Meaning(m2, h) = v
      PROVE  Gave(m, WithResult(r, x), k, v, <<x>>)
  <2>1. WithResult(r, x) = Gives(m2, h, <<x>>)
    BY <1>2 DEF WithResult, Then, Failed, Gives
  <2> QED
    BY <1>2, <2>1 DEF Gave
<1> QED
  BY <1>1, <1>2 DEF Gave

(* What a header of each kind means.                                       *)
LEMMA SoundMeans ==
  ASSUME CollectionsAssumption, NEW m, NEW k \in Kinds, NEW h, Sound(m, k, h)
  PROVE  /\ k = "array" => Meaning(m, h) = [kind |-> "array", of |-> m.blocks[h.storage]]
         /\ k = "map" => Meaning(m, h) = [kind |-> "map", order |-> Keys(m.blocks[h.storage]),
                                         under |-> UnderKeys(m.blocks[h.storage])]
         /\ k = "matrix" => Meaning(m, h) = [kind |-> "matrix", rows |-> h.rows, columns |-> h.columns,
                                            at |-> Rectangle(h.rows, h.columns, m.blocks[h.storage])]
  BY SoundIsHeader DEF Meaning, Rectangle, CellAt, Spot

-----------------------------------------------------------------------------
(* What each operation does, against what the values promise of it.        *)
LEMMA CreateArrayDoes ==
  ASSUME CollectionsAssumption, NEW m \in Memories, NEW elements \in Seq(Elements)
  PROVE  Does(m, CreateArray(m, elements), "array", Promised!Fit(Len(elements)),
              [kind |-> "array", of |-> elements], <<>>)
<1> DEFINE h == ArrayHeader(Len(elements), Len(elements))
<1>1. /\ h \in [kind : {"array"}, storage : Refs \cup {Nil}, size : Nat, capacity : Nat]
      /\ h.size = Len(elements) /\ h.size <= h.capacity
  BY DEF ArrayHeader
<1> HIDE DEF h
<1>2. Gave(m, Allocate(m, h, elements), "array", [kind |-> "array", of |-> elements], <<>>)
  BY <1>1, GaveArray
<1>3. CreateArray(m, elements) = Guarded(LimitError(Len(elements)), Allocate(m, h, elements))
  BY DEF CreateArray, h
<1> QED
  BY <1>2, <1>3 DEF Does, Guarded, LimitError, NoError, Promised!Fit

LEMMA FreshIsSomething == CollectionsAssumption => Promised!Fresh # Nil
  BY DEF CollectionsAssumption, Contents, Promised!Fresh

(* A constructor refuses what it is promised to, and else makes the content*)
(* promised.                                                               *)
LEMMA ConstructDoes ==
  ASSUME CollectionsAssumption, NEW m \in Memories, NEW k, NEW op, NEW a, <<k, op>> \in Makes, Suits(op, a)
  PROVE  Does(m, Construct(m, op, a), k, Promised!Refused(op, Promised!Fresh, a),
              Promised!Made(op, Promised!Fresh, a), <<>>)
<1> DEFINE refused == Promised!Refused(op, Promised!Fresh, a)
           made == Promised!Made(op, Promised!Fresh, a)
<1>0. Promised!Fresh # Nil
  BY FreshIsSomething
<1>1. CASE k = "array" /\ op = "array.new"
  <2>1. a \in Seq(Elements) /\ Len(a) = 2 /\ WholeOrNil(a[1])
    BY <1>1 DEF Suits
  <2>2. refused = IF a[1] = Nil \/ a[1] < 0 THEN "INVALID_SHAPE" ELSE Promised!Fit(a[1])
    BY <1>1, <1>0 DEF Promised!Refused
  <2>3. made = [kind |-> "array", of |-> [i \in 1..a[1] |-> a[2]]]
    BY <1>1 DEF Promised!Made, Promised!Array
  <2>4. Construct(m, op, a) =
          Guarded(ShapeError(a[1]), Guarded(LimitError(a[1]), CreateArray(m, [i \in 1..a[1] |-> a[2]])))
    BY <1>1 DEF Construct
  <2>5. CASE a[1] = Nil \/ a[1] < 0
    <3>1. Construct(m, op, a) = Error("INVALID_SHAPE")
      BY <2>4, <2>5 DEF Guarded, ShapeError, NoError
    <3>2. refused = "INVALID_SHAPE"
      BY <2>2, <2>5
    <3> QED
      BY <3>1, <3>2 DEF Does
  <2>6. CASE a[1] # Nil /\ ~(a[1] < 0)
    <3> DEFINE elements == [i \in 1..a[1] |-> a[2]]
    <3>1. a[1] \in Nat /\ a[2] \in Elements
      <4>1. a[1] \in Int
        BY <2>1, <2>6 DEF WholeOrNil
      <4>2. a[2] \in Elements
        BY <2>1
      <4> QED
        BY <4>1, <4>2, <2>6
    <3>2. elements \in Seq(Elements) /\ Len(elements) = a[1]
      BY <3>1
    <3> HIDE DEF elements
    <3>3. Does(m, CreateArray(m, elements), "array", Promised!Fit(a[1]), [kind |-> "array", of |-> elements], <<>>)
      BY <3>2, CreateArrayDoes
    <3>4. Construct(m, op, a) = Guarded(LimitError(a[1]), CreateArray(m, elements))
      BY <2>4, <2>6 DEF Guarded, ShapeError, NoError, elements
    <3>5. refused = Promised!Fit(a[1]) /\ made = [kind |-> "array", of |-> elements]
      BY <2>2, <2>3, <2>6 DEF elements
    <3> HIDE DEF refused, made
    <3>6. Does(m, Construct(m, op, a), "array", refused, made, <<>>)
      BY <3>3, <3>4, <3>5 DEF Does, Guarded, LimitError, NoError, Promised!Fit
    <3> QED
      BY <3>6, <1>1 DEF refused, made
  <2> QED
    BY <2>5, <2>6
<1>2. CASE k = "array" /\ op = "array.from"
  <2>1. a \in Seq(Elements)
    BY DEF Suits
  <2>2. Construct(m, op, a) = CreateArray(m, a)
    BY <1>2 DEF Construct
  <2>3. refused = Promised!Fit(Len(a))
    BY <1>2, <1>0 DEF Promised!Refused
  <2>4. made = [kind |-> "array", of |-> a]
    BY <1>2 DEF Promised!Made, Promised!Array
  <2> QED
    BY <1>2, <2>1, <2>2, <2>3, <2>4, CreateArrayDoes
<1>3. CASE k = "map" /\ op = "map.new"
  <2>1. <<>> \in Directory /\ Len(<<>>) = 0 /\ Len(<<>>) <= MaxElements
    BY DEF Directory, CollectionsAssumption
  <2>2. MapHeader(0) \in [kind : {"map"}, storage : Refs \cup {Nil}, size : Nat] /\ MapHeader(0).size = 0
    BY DEF MapHeader
  <2>3. Keys(<<>>) = <<>> /\ UnderKeys(<<>>) = [x \in {} |-> Nil]
    BY DEF Keys, UnderKeys
  <2>4. Construct(m, op, a) = Allocate(m, MapHeader(0), <<>>)
    BY <1>3 DEF Construct
  <2>5. refused = "ok"
    BY <1>3, <1>0 DEF Promised!Refused
  <2>6. made = [kind |-> "map", order |-> <<>>, under |-> [x \in {} |-> Nil]]
    BY <1>3 DEF Promised!Made
  <2>7. Gave(m, Allocate(m, MapHeader(0), <<>>), "map",
             [kind |-> "map", order |-> Keys(<<>>), under |-> UnderKeys(<<>>)], <<>>)
    BY <2>1, <2>2, GaveMap
  <2> QED
    BY <1>3, <2>3, <2>4, <2>5, <2>6, <2>7 DEF Does
<1>4. CASE k = "matrix" /\ op = "matrix.new"
  <2>1. a \in Seq(Elements) /\ Len(a) = 3 /\ WholeOrNil(a[1]) /\ WholeOrNil(a[2])
    BY <1>4 DEF Suits
  <2>2. refused = IF \E i \in 1..2 : a[i] = Nil \/ a[i] < 0 THEN "INVALID_SHAPE" ELSE Promised!Fit(a[1] * a[2])
    BY <1>4, <1>0 DEF Promised!Refused
  <2>3. made = [kind |-> "matrix", rows |-> a[1], columns |-> a[2],
                at |-> [i \in 1..a[1] |-> [j \in 1..a[2] |-> a[3]]]]
    BY <1>4 DEF Promised!Made
  <2>4. Construct(m, op, a) = Guarded(ShapeError(a[1]), Guarded(ShapeError(a[2]), CreateMatrix(m, a[1], a[2], a[3])))
    BY <1>4 DEF Construct
  <2>5. CASE \E i \in 1..2 : a[i] = Nil \/ a[i] < 0
    <3>1. Construct(m, op, a) = Error("INVALID_SHAPE")
      BY <2>4, <2>5 DEF Guarded, ShapeError, NoError
    <3>2. refused = "INVALID_SHAPE"
      BY <2>2, <2>5
    <3> QED
      BY <3>1, <3>2 DEF Does
  <2>6. CASE ~(\E i \in 1..2 : a[i] = Nil \/ a[i] < 0)
    <3>1. a[1] \in Nat /\ a[2] \in Nat /\ a[3] \in Elements
      <4>1. a[1] # Nil /\ a[2] # Nil /\ ~(a[1] < 0) /\ ~(a[2] < 0)
        BY <2>6
      <4>2. a[1] \in Int /\ a[2] \in Int
        BY <2>1, <4>1 DEF WholeOrNil
      <4>3. a[3] \in Elements
        BY <2>1
      <4> QED
        BY <4>1, <4>2, <4>3
    <3>2. a[1] * a[2] \in Nat
      BY <3>1
    <3> DEFINE n == a[1] * a[2]
               elements == [i \in 1..n |-> a[3]]
               h == MatrixHeader(a[1], a[2])
    <3>3. /\ h \in [kind : {"matrix"}, storage : Refs \cup {Nil}, rows : Nat, columns : Nat]
          /\ h.rows = a[1] /\ h.columns = a[2]
      BY <3>1 DEF MatrixHeader
    <3>4. elements \in Seq(Elements) /\ Len(elements) = n /\ \A i \in 1..n : elements[i] = a[3]
      <4> HIDE DEF n
      <4>1. n \in Nat
        BY <3>2 DEF n
      <4> QED
        BY <4>1, <3>1
    <3>5. Construct(m, op, a) = Guarded(LimitError(n), Allocate(m, h, elements))
      BY <2>4, <2>6 DEF Guarded, ShapeError, NoError, CreateMatrix
    <3> HIDE DEF elements, h
    <3>6. Gave(m, Allocate(m, h, elements), "matrix",
               [kind |-> "matrix", rows |-> a[1], columns |-> a[2], at |-> Rectangle(a[1], a[2], elements)], <<>>)
      BY <3>3, <3>4, GaveMatrix
    <3>7. Rectangle(a[1], a[2], elements) = [i \in 1..a[1] |-> [j \in 1..a[2] |-> a[3]]]
      <4>1. \A i \in 1..a[1], j \in 1..a[2] : Spot(a[2], i, j) \in 1..n
        BY <3>1, CellWithin
      <4> QED
        BY <4>1, <3>4 DEF Rectangle
    <3>8. refused = Promised!Fit(n) /\ made = [kind |-> "matrix", rows |-> a[1], columns |-> a[2], at |-> Rectangle(a[1], a[2], elements)]
      BY <2>2, <2>3, <2>6, <3>7
    <3> HIDE DEF refused, made, n
    <3>9. Does(m, Construct(m, op, a), "matrix", refused, made, <<>>)
      BY <3>5, <3>6, <3>8 DEF Does, Guarded, LimitError, NoError, Promised!Fit
    <3> QED
      BY <3>9, <1>4 DEF refused, made
  <2> QED
    BY <2>5, <2>6
<1> QED
  BY <1>1, <1>2, <1>3, <1>4 DEF Makes

-----------------------------------------------------------------------------
(* What a directory keeps under its keys.                                  *)
LEMMA DirectoryUnder ==
  ASSUME NEW e \in Directory
  PROVE  /\ e \in Seq(Entries) /\ Len(e) \in Nat /\ DOMAIN e = 1..Len(e)
         /\ \A i \in 1..Len(e) : e[i] \in Entries /\ e[i].key \in Elements /\ e[i].value \in Elements
         /\ DOMAIN UnderKeys(e) = {e[i].key : i \in 1..Len(e)}
         /\ \A i \in 1..Len(e) : UnderKeys(e)[e[i].key] = e[i].value
         /\ DOMAIN UnderKeys(e) \subseteq Elements
         /\ UnderKeys(e) \in [DOMAIN UnderKeys(e) -> Elements]
<1>1. e \in Seq(Entries) /\ Len(e) \in Nat /\ DOMAIN e = 1..Len(e)
  BY DEF Directory
<1>2. \A i \in 1..Len(e) : e[i] \in Entries /\ e[i].key \in Elements /\ e[i].value \in Elements
  <2>1. \A i \in 1..Len(e) : e[i] \in Entries
    BY <1>1
  <2> QED
    BY <2>1 DEF Entries
<1>3. DOMAIN UnderKeys(e) = {e[i].key : i \in 1..Len(e)}
  BY <1>1 DEF UnderKeys
<1>4. ASSUME NEW i \in 1..Len(e) PROVE UnderKeys(e)[e[i].key] = e[i].value
  <2> DEFINE x == CHOOSE y \in {e[j] : j \in DOMAIN e} : y.key = e[i].key
  <2>1. e[i] \in {e[j] : j \in DOMAIN e} /\ e[i].key = e[i].key
    BY <1>1
  <2>2. x \in {e[j] : j \in DOMAIN e} /\ x.key = e[i].key
    BY <2>1
  <2>3. PICK j \in 1..Len(e) : x = e[j]
    BY <1>1, <2>2
  <2>4. e[j].key = e[i].key
    BY <2>2, <2>3
  <2>5. j = i
    BY <2>4 DEF Directory
  <2>6. e[i].key \in {e[j2].key : j2 \in DOMAIN e}
    BY <1>1
  <2>7. UnderKeys(e)[e[i].key] = x.value
    BY <2>6 DEF UnderKeys
  <2> QED
    BY <2>3, <2>5, <2>7
<1>5. UnderKeys(e) = [y \in DOMAIN UnderKeys(e) |-> UnderKeys(e)[y]]
  BY DEF UnderKeys
<1>6. \A y \in DOMAIN UnderKeys(e) : UnderKeys(e)[y] \in Elements
  BY <1>2, <1>3, <1>4
<1>7. DOMAIN UnderKeys(e) \subseteq Elements
  BY <1>2, <1>3
<1>8. UnderKeys(e) \in [DOMAIN UnderKeys(e) -> Elements]
  <2> DEFINE u == UnderKeys(e)
             D == DOMAIN u
  <2>1. u = [y \in D |-> u[y]] /\ \A y \in D : u[y] \in Elements
    BY <1>5, <1>6
  <2> HIDE DEF u, D
  <2>2. u \in [D -> Elements]
    BY <2>1
  <2> QED
    BY <2>2 DEF u, D
<1> QED
  BY <1>1, <1>2, <1>3, <1>4, <1>7, <1>8

(* A search of a directory finds the one entry of a key.                   *)
LEMMA DirectoryFind ==
  ASSUME NEW e \in Directory, NEW x
  PROVE  /\ (Find(e, x) = {}) <=> CanonicalKey(x) \notin DOMAIN UnderKeys(e)
         /\ \A i \in Find(e, x) : /\ i \in 1..Len(e) /\ e[i].key = CanonicalKey(x)
                                  /\ UnderKeys(e)[CanonicalKey(x)] = e[i].value
                                  /\ Find(e, x) = {i}
<1>1. Find(e, x) = {i \in 1..Len(e) : e[i].key = CanonicalKey(x)}
  BY DirectoryUnder DEF Find
<1>2. (Find(e, x) = {}) <=> CanonicalKey(x) \notin DOMAIN UnderKeys(e)
  <2>1. DOMAIN UnderKeys(e) = {e[i].key : i \in 1..Len(e)}
    BY DirectoryUnder
  <2> QED
    BY <1>1, <2>1
<1>3. ASSUME NEW i \in Find(e, x)
      PROVE  /\ i \in 1..Len(e) /\ e[i].key = CanonicalKey(x)
             /\ UnderKeys(e)[CanonicalKey(x)] = e[i].value
             /\ Find(e, x) = {i}
  <2>1. i \in 1..Len(e) /\ e[i].key = CanonicalKey(x)
    BY <1>1
  <2>2. UnderKeys(e)[e[i].key] = e[i].value
    BY <2>1, DirectoryUnder
  <2>3. \A j \in Find(e, x) : j = i
    BY <1>1, <2>1 DEF Directory
  <2> QED
    BY <2>1, <2>2, <2>3
<1> QED
  BY <1>2, <1>3

LEMMA SameCardinality == ASSUME NEW S PROVE Promised!Cardinality(S) = Cardinality(S)
  BY DEF Promised!Cardinality, Cardinality

(* A directory has as many entries as keys.                                *)
LEMMA DirectorySize ==
  ASSUME NEW e \in Directory
  PROVE  Cardinality(DOMAIN UnderKeys(e)) = Len(e)
<1> DEFINE f == [i \in 1..Len(e) |-> e[i].key]
           D == DOMAIN UnderKeys(e)
<1>1. D = {e[i].key : i \in 1..Len(e)} /\ Len(e) \in Nat
  BY DirectoryUnder
<1>2. f \in [1..Len(e) -> D]
  BY <1>1
<1>3. \A i, j \in 1..Len(e) : f[i] = f[j] => i = j
  BY DEF Directory
<1>4. \A y \in D : \E i \in 1..Len(e) : f[i] = y
  BY <1>1
<1> HIDE DEF f, D
<1>5. f \in Bijection(1..Len(e), D)
  BY <1>2, <1>3, <1>4 DEF Bijection, Injection, Surjection, IsInjective
<1>6. ExistsBijection(1..Len(e), D)
  BY <1>5 DEF ExistsBijection
<1>7. IsFiniteSet(1..Len(e)) /\ Cardinality(1..Len(e)) = Len(e)
  BY <1>1, FS_Interval, SMTT(30)
<1>8. Cardinality(D) = Cardinality(1..Len(e))
  BY <1>6, <1>7, FS_Bijection
<1> QED
  BY <1>7, <1>8 DEF D

-----------------------------------------------------------------------------
(* What a receiver is asked.                                               *)
Answers(m, op, h, a) ==
  LET v == Meaning(m, h)
      refused == Promised!Refused(op, v, a) IN
  \/ refused # "ok" /\ Call(m, op, h, a) = Error(refused)
  \/ /\ refused = "ok"
     /\ \E x : Call(m, op, h, a) = Gives(m, Nil, <<x>>) /\ Promised!Worth(op, v, a) = <<"value", x>>

(* An index is refused as the values refuse it.                            *)
LEMMA IndexErrorIs ==
  ASSUME CollectionsAssumption, NEW i, WholeOrNil(i), NEW n \in Nat
  PROVE  /\ Promised!Index(i, n) = "ok" => IndexError(i, n) = NoError /\ i \in 0..n - 1
         /\ Promised!Index(i, n) # "ok" => IndexError(i, n) = Promised!Index(i, n) /\ IndexError(i, n) # NoError
  BY DEF WholeOrNil, Promised!Index, IndexError, NoError, CollectionsAssumption

LEMMA SoundArray ==
  ASSUME CollectionsAssumption, NEW m, NEW h, Sound(m, "array", h)
  PROVE  /\ m.blocks[h.storage] \in Seq(Elements) /\ h.size = Len(m.blocks[h.storage])
         /\ h \in [kind : {"array"}, storage : Refs \cup {Nil}, size : Nat, capacity : Nat]
         /\ h.size \in Nat /\ h.capacity \in Nat /\ h.size <= h.capacity
         /\ Meaning(m, h) = [kind |-> "array", of |-> m.blocks[h.storage]] /\ Meaning(m, h) # Nil
         /\ h # Nil /\ h.kind = "array" /\ h.storage \in Refs /\ ReceiverError(m, h) = NoError
<1>1. /\ m.blocks[h.storage] \in Seq(Elements) /\ h.size = Len(m.blocks[h.storage])
      /\ h \in ArrayHeaders /\ h.size <= h.capacity
  BY DEF Sound, HeaderOf, Payload, ArrayAgrees
<1>2. h \in [kind : {"array"}, storage : Refs \cup {Nil}, size : Nat, capacity : Nat]
  BY <1>1 DEF ArrayHeaders
<1>3. Meaning(m, h) = [kind |-> "array", of |-> m.blocks[h.storage]]
  BY SoundMeans DEF Kinds
<1>4. Meaning(m, h) \in Contents
  BY <1>1, <1>3 DEF Contents
<1>5. Meaning(m, h) # Nil
  BY <1>4 DEF CollectionsAssumption
<1> QED
  BY <1>1, <1>2, <1>3, <1>5, SoundIsHeader DEF Kinds

LEMMA SoundMap ==
  ASSUME CollectionsAssumption, NEW m, NEW h, Sound(m, "map", h)
  PROVE  /\ m.blocks[h.storage] \in Directory /\ h.size = Len(m.blocks[h.storage]) /\ h.size <= MaxElements
         /\ h \in [kind : {"map"}, storage : Refs \cup {Nil}, size : Nat] /\ h.size \in Nat
         /\ Meaning(m, h) = [kind |-> "map", order |-> Keys(m.blocks[h.storage]),
                             under |-> UnderKeys(m.blocks[h.storage])] /\ Meaning(m, h) # Nil
         /\ h # Nil /\ h.kind = "map" /\ h.storage \in Refs /\ ReceiverError(m, h) = NoError
<1> DEFINE e == m.blocks[h.storage]
<1>1. e \in Directory /\ h.size = Len(e) /\ h \in MapHeaders /\ h.size <= MaxElements
  BY DEF Sound, HeaderOf, Payload, MapAgrees
<1>2. h \in [kind : {"map"}, storage : Refs \cup {Nil}, size : Nat]
  BY <1>1 DEF MapHeaders
<1>3. Meaning(m, h) = [kind |-> "map", order |-> Keys(e), under |-> UnderKeys(e)]
  BY SoundMeans DEF Kinds
<1> HIDE DEF e
<1>4. Keys(e) \in Seq(Elements)
  <2>1. Keys(e) = [i \in 1..Len(e) |-> e[i].key] /\ Len(e) \in Nat
    BY <1>1, DirectoryUnder DEF Keys
  <2>2. \A i \in 1..Len(e) : e[i].key \in Elements
    BY <1>1, DirectoryUnder
  <2> QED
    BY <2>1, <2>2
<1>5. UnderKeys(e) \in UNION {[D -> Elements] : D \in SUBSET Elements}
  BY <1>1, DirectoryUnder
<1>6. Meaning(m, h) \in Contents
  BY <1>3, <1>4, <1>5 DEF Contents
<1>7. Meaning(m, h) # Nil
  BY <1>6 DEF CollectionsAssumption
<1>8. h.size \in Nat
  BY <1>2
<1> QED
  BY <1>1, <1>2, <1>3, <1>7, <1>8, SoundIsHeader DEF Kinds, e

LEMMA SoundMatrix ==
  ASSUME CollectionsAssumption, NEW m, NEW h, Sound(m, "matrix", h)
  PROVE  /\ m.blocks[h.storage] \in Seq(Elements) /\ h.rows * h.columns = Len(m.blocks[h.storage])
         /\ h \in [kind : {"matrix"}, storage : Refs \cup {Nil}, rows : Nat, columns : Nat]
         /\ h.rows \in Nat /\ h.columns \in Nat
         /\ Meaning(m, h) = [kind |-> "matrix", rows |-> h.rows, columns |-> h.columns,
                             at |-> Rectangle(h.rows, h.columns, m.blocks[h.storage])]
         /\ Meaning(m, h) # Nil
         /\ h # Nil /\ h.kind = "matrix" /\ h.storage \in Refs /\ ReceiverError(m, h) = NoError
<1> DEFINE e == m.blocks[h.storage]
<1>1. e \in Seq(Elements) /\ h.rows * h.columns = Len(e) /\ h \in MatrixHeaders
  BY DEF Sound, HeaderOf, Payload, MatrixAgrees
<1>2. h \in [kind : {"matrix"}, storage : Refs \cup {Nil}, rows : Nat, columns : Nat]
  BY <1>1 DEF MatrixHeaders
<1>3. Meaning(m, h) = [kind |-> "matrix", rows |-> h.rows, columns |-> h.columns,
                       at |-> Rectangle(h.rows, h.columns, e)]
  BY SoundMeans DEF Kinds
<1> HIDE DEF e
<1>4. h.rows \in Nat /\ h.columns \in Nat
  BY <1>2
<1>5. Rectangle(h.rows, h.columns, e) \in Seq(Seq(Elements))
  BY <1>1, <1>4, RectangleIs
<1>6. Meaning(m, h) \in Contents
  BY <1>3, <1>4, <1>5 DEF Contents
<1>7. Meaning(m, h) # Nil
  BY <1>6 DEF CollectionsAssumption
<1> QED
  BY <1>1, <1>2, <1>3, <1>4, <1>7, SoundIsHeader DEF Kinds, e

(* What is asked of an array is answered as of the sequence it means.      *)
LEMMA ArrayAnswers ==
  ASSUME CollectionsAssumption, NEW m \in Memories, NEW h, Sound(m, "array", h), NEW op, NEW a,
         <<"array", op>> \in Asks, Suits(op, a)
  PROVE  Answers(m, op, h, a)
<1> DEFINE e == m.blocks[h.storage]
           v == Meaning(m, h)
           refused == Promised!Refused(op, v, a)
<1>1. /\ e \in Seq(Elements) /\ h.size = Len(e) /\ h.size \in Nat /\ v = [kind |-> "array", of |-> e] /\ v # Nil
      /\ h # Nil /\ h.kind = "array" /\ ReceiverError(m, h) = NoError
  BY SoundArray
<1>2. v.of = e
  BY <1>1
<1> HIDE DEF e, v
<1>3. Call(m, op, h, a) = ArrayRead(m, op, h, a)
  BY <1>1 DEF Call
<1>4. CASE op = "array.size"
  <2>1. Call(m, op, h, a) = Gives(m, Nil, <<h.size>>)
    BY <1>3, <1>4 DEF ArrayRead
  <2>2. refused = "ok"
    BY <1>1, <1>4 DEF Promised!Refused
  <2>3. Promised!Worth(op, v, a) = <<"value", Len(e)>>
    BY <1>2, <1>4 DEF Promised!Worth, Promised!Gives
  <2> QED
    BY <2>1, <2>2, <2>3, <1>1 DEF Answers, v
<1>5. CASE op = "array.get"
  <2>1. WholeOrNil(a[1])
    BY <1>5 DEF Suits
  <2>2. refused = Promised!Index(a[1], h.size)
    BY <1>1, <1>2, <1>5 DEF Promised!Refused
  <2>3. Call(m, op, h, a) = Guarded(IndexError(a[1], h.size), Gives(m, Nil, <<e[a[1] + 1]>>))
    BY <1>1, <1>3, <1>5 DEF ArrayRead, Receiving, Guarded, e
  <2>4. Promised!Worth(op, v, a) = <<"value", e[a[1] + 1]>>
    BY <1>2, <1>5 DEF Promised!Worth, Promised!Gives
  <2>5. /\ refused = "ok" => IndexError(a[1], h.size) = NoError
        /\ refused # "ok" => IndexError(a[1], h.size) = refused /\ refused # NoError
    BY <2>1, <2>2, <1>1, IndexErrorIs
  <2> HIDE DEF refused
  <2> QED
    BY <2>3, <2>4, <2>5 DEF Answers, v, refused, Guarded
<1>6. CASE op = "array.first"
  <2>1. refused = IF e = <<>> THEN "EMPTY_COLLECTION" ELSE "ok"
    BY <1>1, <1>2, <1>6 DEF Promised!Refused
  <2>2. Call(m, op, h, a) = Guarded(EmptyError(h), Gives(m, Nil, <<e[1]>>))
    BY <1>1, <1>3, <1>6 DEF ArrayRead, Receiving, Guarded, e
  <2>3. Promised!Worth(op, v, a) = <<"value", e[1]>>
    BY <1>2, <1>6 DEF Promised!Worth, Promised!Gives
  <2>4. h.size = 0 <=> e = <<>>
    BY <1>1
  <2> HIDE DEF refused
  <2> QED
    BY <2>1, <2>2, <2>3, <2>4 DEF Answers, v, refused, Guarded, EmptyError, NoError
<1>7. CASE op = "array.last"
  <2>1. refused = IF e = <<>> THEN "EMPTY_COLLECTION" ELSE "ok"
    BY <1>1, <1>2, <1>7 DEF Promised!Refused
  <2>2. Call(m, op, h, a) = Guarded(EmptyError(h), Gives(m, Nil, <<e[h.size]>>))
    BY <1>1, <1>3, <1>7 DEF ArrayRead, Receiving, Guarded, e
  <2>3. Promised!Worth(op, v, a) = <<"value", e[h.size]>>
    BY <1>1, <1>2, <1>7 DEF Promised!Worth, Promised!Gives, Promised!Last
  <2>4. h.size = 0 <=> e = <<>>
    BY <1>1
  <2> HIDE DEF refused
  <2> QED
    BY <2>1, <2>2, <2>3, <2>4 DEF Answers, v, refused, Guarded, EmptyError, NoError
<1> QED
  BY <1>4, <1>5, <1>6, <1>7 DEF Asks

(* What is asked of a map is answered as of the order and the function it  *)
(* means.                                                                  *)
LEMMA MapAnswers ==
  ASSUME CollectionsAssumption, NEW m \in Memories, NEW h, Sound(m, "map", h), NEW op, NEW a,
         <<"map", op>> \in Asks, Suits(op, a)
  PROVE  Answers(m, op, h, a)
<1> DEFINE e == m.blocks[h.storage]
           v == Meaning(m, h)
           refused == Promised!Refused(op, v, a)
<1>1. /\ e \in Directory /\ h.size = Len(e) /\ h.size \in Nat
      /\ v = [kind |-> "map", order |-> Keys(e), under |-> UnderKeys(e)] /\ v # Nil
      /\ h # Nil /\ h.kind = "map" /\ ReceiverError(m, h) = NoError
  BY SoundMap
<1>2. v.under = UnderKeys(e)
  BY <1>1
<1> HIDE DEF e, v
<1>3. Call(m, op, h, a) = MapRead(m, op, h, a)
  BY <1>1 DEF Call
<1>4. CASE op = "map.size"
  <2>1. Call(m, op, h, a) = Gives(m, Nil, <<h.size>>)
    BY <1>1, <1>3, <1>4 DEF MapRead, Receiving, Guarded
  <2>2. refused = "ok"
    BY <1>1, <1>4 DEF Promised!Refused
  <2>3. Promised!Worth(op, v, a) = <<"value", h.size>>
    BY <1>1, <1>2, <1>4, DirectorySize, SameCardinality DEF Promised!Worth, Promised!Gives
  <2> QED
    BY <2>1, <2>2, <2>3 DEF Answers, v
<1>5. CASE op = "map.contains"
  <2>1. refused = IF a[1] = Nil THEN "INVALID_MAP_KEY" ELSE "ok"
    BY <1>1, <1>5 DEF Promised!Refused
  <2>2. Call(m, op, h, a) = Guarded(KeyError(a[1]), Gives(m, Nil, <<Find(e, a[1]) # {}>>))
    BY <1>1, <1>3, <1>5 DEF MapRead, Receiving, Guarded, e
  <2>3. Promised!Worth(op, v, a) = <<"value", Promised!Key(a[1]) \in DOMAIN v.under>>
    BY <1>5 DEF Promised!Worth, Promised!Gives
  <2>4. (Promised!Key(a[1]) \in DOMAIN v.under) = (Find(e, a[1]) # {})
    BY <1>1, <1>2, DirectoryFind DEF Promised!Key, CanonicalKey
  <2> HIDE DEF refused
  <2> QED
    BY <2>1, <2>2, <2>3, <2>4 DEF Answers, v, refused, Guarded, KeyError, NoError
<1>6. CASE op = "map.get"
  <2> DEFINE f == Find(e, a[1])
             x == IF f = {} THEN Nil ELSE e[CHOOSE i \in f : TRUE].value
  <2>1. refused = IF a[1] = Nil THEN "INVALID_MAP_KEY" ELSE "ok"
    BY <1>1, <1>6 DEF Promised!Refused
  <2>2. Call(m, op, h, a) = Guarded(KeyError(a[1]), Gives(m, Nil, <<x>>))
    BY <1>1, <1>3, <1>6 DEF MapRead, Receiving, Guarded, e
  <2>3. Promised!Worth(op, v, a) =
          <<"value", IF Promised!Key(a[1]) \in DOMAIN v.under THEN v.under[Promised!Key(a[1])] ELSE Nil>>
    BY <1>6 DEF Promised!Worth, Promised!Gives
  <2>4. (IF Promised!Key(a[1]) \in DOMAIN v.under THEN v.under[Promised!Key(a[1])] ELSE Nil) = x
    <3>1. Promised!Key(a[1]) = CanonicalKey(a[1])
      BY DEF Promised!Key, CanonicalKey
    <3>2. CASE f = {}
      BY <1>1, <1>2, <3>1, <3>2, DirectoryFind
    <3>3. CASE f # {}
      <4>1. (CHOOSE i \in f : TRUE) \in f
        BY <3>3
      <4> HIDE DEF f
      <4>2. PICK i \in f : x = e[i].value
        BY <3>3, <4>1
      <4>3. CanonicalKey(a[1]) \in DOMAIN UnderKeys(e) /\ UnderKeys(e)[CanonicalKey(a[1])] = e[i].value
        BY <1>1, <3>3, DirectoryFind DEF f
      <4> QED
        BY <1>2, <3>1, <4>2, <4>3
    <3> QED
      BY <3>2, <3>3
  <2> HIDE DEF refused, x
  <2> QED
    BY <2>1, <2>2, <2>3, <2>4 DEF Answers, v, refused, Guarded, KeyError, NoError
<1> QED
  BY <1>4, <1>5, <1>6 DEF Asks

(* What is asked of a matrix is answered as of the rectangle it means.     *)
LEMMA MatrixAnswers ==
  ASSUME CollectionsAssumption, NEW m \in Memories, NEW h, Sound(m, "matrix", h), NEW op, NEW a,
         <<"matrix", op>> \in Asks, Suits(op, a)
  PROVE  Answers(m, op, h, a)
<1> DEFINE e == m.blocks[h.storage]
           v == Meaning(m, h)
           refused == Promised!Refused(op, v, a)
<1>1. /\ e \in Seq(Elements) /\ h.rows * h.columns = Len(e) /\ h.rows \in Nat /\ h.columns \in Nat
      /\ v = [kind |-> "matrix", rows |-> h.rows, columns |-> h.columns, at |-> Rectangle(h.rows, h.columns, e)]
      /\ v # Nil /\ h # Nil /\ h.kind = "matrix" /\ ReceiverError(m, h) = NoError
  BY SoundMatrix
<1>2. v.rows = h.rows /\ v.columns = h.columns /\ v.at = Rectangle(h.rows, h.columns, e)
  BY <1>1
<1> HIDE DEF e, v
<1>3. Call(m, op, h, a) = MatrixRead(m, op, h, a)
  BY <1>1 DEF Call
<1>4. CASE op = "matrix.elements_count"
  <2>1. Call(m, op, h, a) = Gives(m, Nil, <<h.rows * h.columns>>)
    BY <1>3, <1>4 DEF MatrixRead
  <2>2. refused = "ok"
    BY <1>1, <1>4 DEF Promised!Refused
  <2>3. Promised!Worth(op, v, a) = <<"value", h.rows * h.columns>>
    BY <1>2, <1>4 DEF Promised!Worth, Promised!Gives
  <2> QED
    BY <2>1, <2>2, <2>3 DEF Answers, v
<1>5. CASE op = "matrix.get"
  <2> DEFINE c == CellAt(h, a[1], a[2])
  <2>1. WholeOrNil(a[1]) /\ WholeOrNil(a[2])
    BY <1>5 DEF Suits
  <2>2. refused = Promised!First(Promised!Index(a[1], h.rows), Promised!Index(a[2], h.columns))
    BY <1>1, <1>2, <1>5 DEF Promised!Refused
  <2>3. Call(m, op, h, a) =
          Guarded(IndexError(a[1], h.rows), Guarded(IndexError(a[2], h.columns), Gives(m, Nil, <<e[c]>>)))
    BY <1>1, <1>3, <1>5 DEF MatrixRead, Receiving, Guarded, e
  <2>4. Promised!Worth(op, v, a) = <<"value", v.at[a[1] + 1][a[2] + 1]>>
    BY <1>5 DEF Promised!Worth, Promised!Gives
  <2>5. refused # "ok" => Call(m, op, h, a) = Error(refused)
    BY <2>1, <2>2, <2>3, <1>1, IndexErrorIs DEF Promised!First, Guarded
  <2>6. ASSUME refused = "ok"
        PROVE  Call(m, op, h, a) = Gives(m, Nil, <<e[c]>>) /\ v.at[a[1] + 1][a[2] + 1] = e[c]
    <3>1. Promised!Index(a[1], h.rows) = "ok" /\ Promised!Index(a[2], h.columns) = "ok"
      BY <2>2, <2>6 DEF Promised!First
    <3>2. /\ IndexError(a[1], h.rows) = NoError /\ a[1] \in 0..h.rows - 1
          /\ IndexError(a[2], h.columns) = NoError /\ a[2] \in 0..h.columns - 1
      BY <2>1, <3>1, <1>1, IndexErrorIs
    <3>3. a[1] + 1 \in 1..h.rows /\ a[2] + 1 \in 1..h.columns
      BY <3>2, <1>1
    <3>4. v.at[a[1] + 1][a[2] + 1] = e[Spot(h.columns, a[1] + 1, a[2] + 1)]
      BY <1>1, <1>2, <3>3, RectangleIs
    <3>5. Spot(h.columns, a[1] + 1, a[2] + 1) = c
      <4>1. (a[1] + 1) - 1 = a[1] /\ (a[2] + 1) - 1 = a[2]
        BY <3>2
      <4> QED
        BY <4>1 DEF CellAt, Spot
    <3> QED
      BY <2>3, <3>2, <3>4, <3>5 DEF Guarded
  <2> HIDE DEF refused, c
  <2> QED
    BY <2>4, <2>5, <2>6 DEF Answers, v, refused
<1> QED
  BY <1>4, <1>5 DEF Asks

(* An operation is answered as the value that is asked would answer it.    *)
LEMMA AskDoes ==
  ASSUME CollectionsAssumption, NEW m \in Memories, NEW k \in Kinds, NEW h, Good(m, k, h), NEW op, NEW a,
         <<k, op>> \in Asks, Suits(op, a)
  PROVE  Answers(m, op, h, a)
<1>1. CASE h = Nil
  BY <1>1 DEF Answers, Call, Meaning, Promised!Refused
<1>2. CASE Sound(m, k, h)
  BY <1>2, ArrayAnswers, MapAnswers, MatrixAnswers DEF Kinds
<1> QED
  BY <1>1, <1>2 DEF Good

-----------------------------------------------------------------------------
(* What is made of a receiver.                                             *)
Projected(m, op, h, a, k) ==
  LET v == Meaning(m, h) IN
  /\ Does(m, Call(m, op, h, a), k, Promised!Refused(op, v, a), Promised!Made(op, v, a), <<>>)
  /\ Promised!Worth(op, v, a) = Promised!Silent

(* A copy is the same header: nothing will write to its storage.           *)
LEMMA Copied ==
  ASSUME CollectionsAssumption, NEW m \in Memories, NEW k \in Kinds, NEW h, Sound(m, k, h)
  PROVE  Gave(m, Gives(m, h, <<>>), k, Meaning(m, h), <<>>)
<1>1. Grown(m, m)
  BY DEF Grown
<1> QED
  BY <1>1, SoundIsHeader DEF Gave

LEMMA ArrayProjects ==
  ASSUME CollectionsAssumption, NEW m \in Memories, NEW h, Sound(m, "array", h), NEW op, NEW a, NEW k,
         <<"array", op, k>> \in Projects, Suits(op, a)
  PROVE  Projected(m, op, h, a, k)
<1>1. op = "array.copy" /\ k = "array"
  BY DEF Projects
<1>2. Meaning(m, h) # Nil /\ h # Nil /\ h.kind = "array"
  BY SoundArray
<1>3. Call(m, op, h, a) = Gives(m, h, <<>>)
  BY <1>1, <1>2 DEF Call, ArrayRead
<1>4. Promised!Refused(op, Meaning(m, h), a) = "ok"
  BY <1>1, <1>2 DEF Promised!Refused
<1>5. Promised!Made(op, Meaning(m, h), a) = Meaning(m, h)
  BY <1>1 DEF Promised!Made
<1>6. Promised!Worth(op, Meaning(m, h), a) = Promised!Silent
  BY <1>1 DEF Promised!Worth
<1> QED
  BY <1>1, <1>3, <1>4, <1>5, <1>6, Copied DEF Projected, Does, Kinds

LEMMA MapProjects ==
  ASSUME CollectionsAssumption, NEW m \in Memories, NEW h, Sound(m, "map", h), NEW op, NEW a, NEW k,
         <<"map", op, k>> \in Projects, Suits(op, a)
  PROVE  Projected(m, op, h, a, k)
<1> DEFINE e == m.blocks[h.storage]
           v == Meaning(m, h)
           refused == Promised!Refused(op, v, a)
           made == Promised!Made(op, v, a)
<1>1. /\ e \in Directory /\ h.size = Len(e) /\ h.size \in Nat
      /\ v = [kind |-> "map", order |-> Keys(e), under |-> UnderKeys(e)] /\ v # Nil
      /\ h # Nil /\ h.kind = "map" /\ ReceiverError(m, h) = NoError
  BY SoundMap
<1>2. v.under = UnderKeys(e) /\ v.order = Keys(e)
  BY <1>1
<1>3. Keys(e) = [i \in 1..Len(e) |-> e[i].key] /\ Items(e) = [i \in 1..Len(e) |-> e[i].value]
  BY <1>1, DirectoryUnder DEF Keys, Items
<1>4. Keys(e) \in Seq(Elements) /\ Len(Keys(e)) = Len(e) /\ Items(e) \in Seq(Elements) /\ Len(Items(e)) = Len(e)
  <2>1. \A i \in 1..Len(e) : e[i].key \in Elements /\ e[i].value \in Elements
    BY <1>1, DirectoryUnder
  <2> QED
    BY <1>1, <1>3, <2>1
<1> HIDE DEF e, v
<1>5. Call(m, op, h, a) = MapRead(m, op, h, a)
  BY <1>1 DEF Call
<1>6. CASE op = "map.copy" /\ k = "map"
  <2>1. Call(m, op, h, a) = Gives(m, h, <<>>)
    BY <1>1, <1>5, <1>6 DEF MapRead, Receiving, Guarded
  <2>2. refused = "ok" /\ made = v
    BY <1>1, <1>6 DEF Promised!Refused, Promised!Made
  <2>3. Promised!Worth(op, v, a) = Promised!Silent
    BY <1>6 DEF Promised!Worth
  <2>4. Gave(m, Gives(m, h, <<>>), k, v, <<>>)
    BY <1>6, Copied DEF Kinds, v
  <2> QED
    BY <2>1, <2>2, <2>3, <2>4 DEF Projected, Does, v
<1>7. CASE op = "map.keys" /\ k = "array"
  <2>1. Call(m, op, h, a) = CreateArray(m, Keys(e))
    BY <1>1, <1>5, <1>7 DEF MapRead, Receiving, Guarded, e
  <2>2. refused = Promised!Fit(Len(Keys(e))) /\ made = [kind |-> "array", of |-> Keys(e)]
    BY <1>1, <1>2, <1>7 DEF Promised!Refused, Promised!Made, Promised!Array
  <2>3. Promised!Worth(op, v, a) = Promised!Silent
    BY <1>7 DEF Promised!Worth
  <2> QED
    BY <2>1, <2>2, <2>3, <1>4, <1>7, CreateArrayDoes DEF Projected, v
<1>8. CASE op = "map.values" /\ k = "array"
  <2>1. Call(m, op, h, a) = CreateArray(m, Items(e))
    BY <1>1, <1>5, <1>8 DEF MapRead, Receiving, Guarded, e
  <2>2. refused = Promised!Fit(Len(Keys(e)))
    BY <1>1, <1>2, <1>8 DEF Promised!Refused
  <2>3. made = [kind |-> "array", of |-> [i \in DOMAIN v.order |-> v.under[v.order[i]]]]
    BY <1>8 DEF Promised!Made, Promised!Array
  <2>4. [i \in DOMAIN v.order |-> v.under[v.order[i]]] = Items(e)
    <3>1. DOMAIN v.order = 1..Len(e)
      BY <1>2, <1>3
    <3>2. ASSUME NEW i \in 1..Len(e) PROVE v.under[v.order[i]] = e[i].value
      <4>1. v.order[i] = e[i].key
        BY <1>2, <1>3
      <4> QED
        BY <4>1, <1>1, <1>2, DirectoryUnder
    <3> QED
      BY <3>1, <3>2, <1>3
  <2>5. Promised!Worth(op, v, a) = Promised!Silent
    BY <1>8 DEF Promised!Worth
  <2> QED
    BY <2>1, <2>2, <2>3, <2>4, <2>5, <1>4, <1>8, CreateArrayDoes DEF Projected, v
<1> QED
  BY <1>6, <1>7, <1>8 DEF Projects

LEMMA MatrixProjects ==
  ASSUME CollectionsAssumption, NEW m \in Memories, NEW h, Sound(m, "matrix", h), NEW op, NEW a, NEW k,
         <<"matrix", op, k>> \in Projects, Suits(op, a)
  PROVE  Projected(m, op, h, a, k)
<1> DEFINE e == m.blocks[h.storage]
           v == Meaning(m, h)
           rect == Rectangle(h.rows, h.columns, e)
           refused == Promised!Refused(op, v, a)
           made == Promised!Made(op, v, a)
<1>1. /\ e \in Seq(Elements) /\ h.rows * h.columns = Len(e) /\ h.rows \in Nat /\ h.columns \in Nat
      /\ v = [kind |-> "matrix", rows |-> h.rows, columns |-> h.columns, at |-> rect]
      /\ v # Nil /\ h # Nil /\ h.kind = "matrix" /\ ReceiverError(m, h) = NoError
  BY SoundMatrix
<1>2. v.rows = h.rows /\ v.columns = h.columns /\ v.at = rect
  BY <1>1
<1>3. \A i \in 1..h.rows : /\ rect[i] \in Seq(Elements) /\ Len(rect[i]) = h.columns
                           /\ \A j \in 1..h.columns : rect[i][j] = e[Spot(h.columns, i, j)]
  <2> HIDE DEF e
  <2>1. rect = Rectangle(h.rows, h.columns, e)
    OBVIOUS
  <2> HIDE DEF rect
  <2>2. ASSUME NEW i \in 1..h.rows
        PROVE  /\ rect[i] \in Seq(Elements) /\ Len(rect[i]) = h.columns
               /\ \A j \in 1..h.columns : rect[i][j] = e[Spot(h.columns, i, j)]
    BY <1>1, <2>1, RectangleIs
  <2> QED
    BY <2>2
<1> HIDE DEF e, v, rect
<1>4. Call(m, op, h, a) = MatrixRead(m, op, h, a)
  BY <1>1 DEF Call
<1>5. CASE op = "matrix.copy" /\ k = "matrix"
  <2>1. Call(m, op, h, a) = Gives(m, h, <<>>)
    BY <1>4, <1>5 DEF MatrixRead
  <2>2. refused = "ok" /\ made = v
    BY <1>1, <1>5 DEF Promised!Refused, Promised!Made
  <2>3. Promised!Worth(op, v, a) = Promised!Silent
    BY <1>5 DEF Promised!Worth
  <2>4. Gave(m, Gives(m, h, <<>>), k, v, <<>>)
    BY <1>5, Copied DEF Kinds, v
  <2> QED
    BY <2>1, <2>2, <2>3, <2>4 DEF Projected, Does, v
<1>6. CASE op = "matrix.row" /\ k = "array"
  <2> DEFINE row == SubSeq(e, CellAt(h, a[1], 0), CellAt(h, a[1], h.columns - 1))
  <2>1. WholeOrNil(a[1])
    BY <1>6 DEF Suits
  <2>2. refused = Promised!First(Promised!Index(a[1], h.rows), Promised!Fit(h.columns))
    BY <1>1, <1>2, <1>6 DEF Promised!Refused
  <2>3. made = [kind |-> "array", of |-> rect[a[1] + 1]]
    BY <1>2, <1>6 DEF Promised!Made, Promised!Array
  <2>4. Call(m, op, h, a) = Guarded(IndexError(a[1], h.rows), CreateArray(m, row))
    BY <1>1, <1>4, <1>6 DEF MatrixRead, Receiving, Guarded, e
  <2>5. Promised!Worth(op, v, a) = Promised!Silent
    BY <1>6 DEF Promised!Worth
  <2>6. CASE Promised!Index(a[1], h.rows) # "ok"
    <3>1. refused = Promised!Index(a[1], h.rows)
      BY <2>2, <2>6 DEF Promised!First
    <3>2. Call(m, op, h, a) = Error(refused)
      BY <2>1, <2>4, <2>6, <3>1, <1>1, IndexErrorIs DEF Guarded
    <3> QED
      BY <2>5, <2>6, <3>1, <3>2 DEF Projected, Does, v
  <2>7. CASE Promised!Index(a[1], h.rows) = "ok"
    <3>1. IndexError(a[1], h.rows) = NoError /\ a[1] \in 0..h.rows - 1
      BY <2>1, <2>7, <1>1, IndexErrorIs
    <3>2. a[1] \in Nat /\ a[1] + 1 \in 1..h.rows /\ (a[1] + 1) - 1 = a[1]
      BY <3>1, <1>1
    <3>3. row = rect[a[1] + 1]
      <4> DEFINE q == rect[a[1] + 1]
                 first == a[1] * h.columns
      <4>1. first \in Nat
        BY <3>2, <1>1
      <4>2. q \in Seq(Elements) /\ Len(q) = h.columns /\ \A j \in 1..h.columns : q[j] = e[first + (j - 1) + 1]
        BY <3>2, <1>3 DEF Spot
      <4>3. row = SubSeq(e, first + 1, first + h.columns)
        <5>1. CellAt(h, a[1], 0) = first + 0 + 1 /\ CellAt(h, a[1], h.columns - 1) = first + (h.columns - 1) + 1
          BY DEF CellAt
        <5> HIDE DEF first
        <5>2. first + 0 + 1 = first + 1 /\ first + (h.columns - 1) + 1 = first + h.columns
          BY <4>1, <1>1
        <5> QED
          BY <5>1, <5>2
      <4>4. \A j \in 1..h.columns : first + j \in 1..Len(e)
        <5> TAKE j \in 1..h.columns
        <5>1. Spot(h.columns, a[1] + 1, j) \in 1..h.rows * h.columns
          BY <3>2, <1>1, CellWithin
        <5> QED
          BY <5>1, <4>1, <3>2, <1>1, SMTT(30) DEF Spot
      <4> HIDE DEF first, q
      <4>5. \A j \in 1..h.columns : q[j] = e[first + j]
        BY <4>1, <4>2, <1>1
      <4>6. CASE h.columns = 0
        <5>1. Len(q) = 0 /\ q = <<>>
          BY <4>2, <4>6
        <5>2. SubSeq(e, first + 1, first + h.columns) = <<>>
          BY <4>1, <4>6, <1>1
        <5> QED
          BY <5>1, <5>2, <4>3 DEF q
      <4>7. CASE h.columns # 0
        <5>1. first + 1 \in 1..Len(e) /\ first + h.columns \in 1..Len(e)
          BY <4>4, <4>7, <1>1, SMTT(30)
        <5>2. /\ SubSeq(e, first + 1, first + h.columns) \in Seq(Elements)
              /\ Len(SubSeq(e, first + 1, first + h.columns)) = h.columns
              /\ \A j \in 1..h.columns : SubSeq(e, first + 1, first + h.columns)[j] = e[first + j]
          <6> DEFINE from == first + 1
                     to == first + h.columns
          <6>1. from <= to /\ to - from + 1 = h.columns /\ \A j \in 1..h.columns : from + j - 1 = first + j
            BY <4>1, <4>7, <1>1
          <6>2. from \in 1..Len(e) /\ to \in 1..Len(e)
            BY <5>1
          <6> HIDE DEF from, to
          <6>3. /\ SubSeq(e, from, to) \in Seq(Elements) /\ Len(SubSeq(e, from, to)) = to - from + 1
                /\ \A n \in 1..to - from + 1 : SubSeq(e, from, to)[n] = e[from + n - 1]
            BY <6>1, <6>2, <1>1, SubSeqIs
          <6>4. \A j \in 1..h.columns : SubSeq(e, from, to)[j] = e[first + j]
            BY <6>1, <6>3
          <6>5. SubSeq(e, from, to) \in Seq(Elements) /\ Len(SubSeq(e, from, to)) = h.columns
            BY <6>1, <6>3
          <6> QED
            BY <6>4, <6>5 DEF from, to
        <5> DEFINE part == SubSeq(e, first + 1, first + h.columns)
        <5> HIDE DEF part
        <5>3. part = q
          <6>1. part \in Seq(Elements) /\ Len(part) = Len(q) /\ \A j \in 1..Len(part) : part[j] = q[j]
            BY <5>2, <4>2, <4>5 DEF part
          <6> QED
            BY <6>1, <4>2, SameSeq
        <5> QED
          BY <5>3, <4>3 DEF part, q
      <4> QED
        BY <4>6, <4>7
    <3>4. row \in Seq(Elements) /\ Len(row) = h.columns
      BY <3>2, <3>3, <1>3
    <3>5. refused = Promised!Fit(Len(row)) /\ made = [kind |-> "array", of |-> row]
      BY <2>2, <2>3, <2>7, <3>3, <3>4 DEF Promised!First
    <3>6. Call(m, op, h, a) = CreateArray(m, row)
      BY <2>4, <3>1 DEF Guarded
    <3> HIDE DEF row
    <3> QED
      BY <2>5, <3>4, <3>5, <3>6, <1>6, CreateArrayDoes DEF Projected, v
  <2> QED
    BY <2>6, <2>7
<1>7. CASE op = "matrix.column" /\ k = "array"
  <2> DEFINE column == [i \in 1..h.rows |-> e[CellAt(h, i - 1, a[1])]]
  <2>1. WholeOrNil(a[1])
    BY <1>7 DEF Suits
  <2>2. refused = Promised!First(Promised!Index(a[1], h.columns), Promised!Fit(h.rows))
    BY <1>1, <1>2, <1>7 DEF Promised!Refused
  <2>3. made = [kind |-> "array", of |-> [i \in 1..h.rows |-> rect[i][a[1] + 1]]]
    BY <1>2, <1>7 DEF Promised!Made, Promised!Array
  <2>4. Call(m, op, h, a) = Guarded(IndexError(a[1], h.columns), CreateArray(m, column))
    BY <1>1, <1>4, <1>7 DEF MatrixRead, Receiving, Guarded, e
  <2>5. Promised!Worth(op, v, a) = Promised!Silent
    BY <1>7 DEF Promised!Worth
  <2>6. CASE Promised!Index(a[1], h.columns) # "ok"
    <3>1. refused = Promised!Index(a[1], h.columns)
      BY <2>2, <2>6 DEF Promised!First
    <3>2. Call(m, op, h, a) = Error(refused)
      BY <2>1, <2>4, <2>6, <3>1, <1>1, IndexErrorIs DEF Guarded
    <3> QED
      BY <2>5, <2>6, <3>1, <3>2 DEF Projected, Does, v
  <2>7. CASE Promised!Index(a[1], h.columns) = "ok"
    <3>1. IndexError(a[1], h.columns) = NoError /\ a[1] \in 0..h.columns - 1
      BY <2>1, <2>7, <1>1, IndexErrorIs
    <3>2. a[1] \in Nat /\ a[1] + 1 \in 1..h.columns /\ (a[1] + 1) - 1 = a[1]
      BY <3>1, <1>1
    <3>3. \A i \in 1..h.rows : e[CellAt(h, i - 1, a[1])] = rect[i][a[1] + 1] /\ rect[i][a[1] + 1] \in Elements
      <4>1. \A i \in 1..h.rows : Spot(h.columns, i, a[1] + 1) = CellAt(h, i - 1, a[1])
        BY <3>2 DEF Spot, CellAt
      <4>2. \A i \in 1..h.rows : rect[i][a[1] + 1] = e[Spot(h.columns, i, a[1] + 1)]
        BY <3>2, <1>3
      <4>3. \A i \in 1..h.rows : rect[i][a[1] + 1] \in Elements
        BY <3>2, <1>3
      <4> QED
        BY <4>1, <4>2, <4>3
    <3>4. column = [i \in 1..h.rows |-> rect[i][a[1] + 1]]
      BY <3>3
    <3>5. column \in Seq(Elements) /\ Len(column) = h.rows
      <4>1. column = [i \in 1..h.rows |-> column[i]] /\ \A i \in 1..h.rows : column[i] \in Elements
        BY <3>3
      <4>2. h.rows \in Nat
        BY <1>1
      <4> HIDE DEF column
      <4> QED
        BY ONLY <4>1, <4>2, FunctionIsSeq
    <3>6. refused = Promised!Fit(Len(column)) /\ made = [kind |-> "array", of |-> column]
      BY <2>2, <2>3, <2>7, <3>4, <3>5 DEF Promised!First
    <3>7. Call(m, op, h, a) = CreateArray(m, column)
      BY <2>4, <3>1 DEF Guarded
    <3> HIDE DEF column
    <3> QED
      BY <2>5, <3>5, <3>6, <3>7, <1>7, CreateArrayDoes DEF Projected, v
  <2> QED
    BY <2>6, <2>7
<1> QED
  BY <1>5, <1>6, <1>7 DEF Projects

(* What is made from a receiver is what its content says.                  *)
LEMMA ProjectDoes ==
  ASSUME CollectionsAssumption, NEW m \in Memories, NEW k \in Kinds, NEW h, Sound(m, k, h), NEW op, NEW a, NEW k2,
         <<k, op, k2>> \in Projects, Suits(op, a)
  PROVE  Projected(m, op, h, a, k2)
  BY ArrayProjects, MapProjects, MatrixProjects DEF Kinds

-----------------------------------------------------------------------------
(* An order without keys that are gone.  Without is a recursive function:  *)
(* its partial results exist and are the only ones of their kind, so what  *)
(* it computes is found by giving a function that has the recurrence.      *)
LEMMA Induction ==
  ASSUME NEW T, 0 \in T, \A n \in Nat : n \in T => n + 1 \in T
  PROVE  Nat \subseteq T
<1> DEFINE B == {n \in Nat : n \notin T}
<1>1. SUFFICES ASSUME B # {} PROVE FALSE
  OBVIOUS
<1>2. B \subseteq Nat
  OBVIOUS
<1>3. PICK x \in B : \A y \in B : x <= y
  <2> HIDE DEF B
  <2> QED
    BY <1>1, <1>2, Least
<1>4. x \in Nat /\ x # 0 /\ x - 1 \in Nat /\ x = (x - 1) + 1 /\ ~(x <= x - 1)
  OBVIOUS
<1>5. x - 1 \in B
  BY <1>4
<1> HIDE DEF B
<1> QED
  BY <1>3, <1>4, <1>5

Recurs(f, order, gone, n) ==
  /\ f[0] = <<>>
  /\ \A i \in 1..n : f[i] = IF order[i] \in gone THEN f[i - 1] ELSE Append(f[i - 1], order[i])
Keeps(f, S, order, gone, n) == f \in [0..n -> Seq(S)] /\ Recurs(f, order, gone, n)

(* There is a function with the recurrence of Without.                     *)
LEMMA KeepsExist ==
  ASSUME NEW S, NEW order \in Seq(S), NEW gone
  PROVE  \E f : Keeps(f, S, order, gone, Len(order))
<1> DEFINE T == {n \in Nat : n <= Len(order) => \E f : Keeps(f, S, order, gone, n)}
<1>1. 0 \in T
  <2>1. Keeps([i \in 0..0 |-> <<>>], S, order, gone, 0)
    BY DEF Keeps, Recurs
  <2> QED
    BY <2>1
<1>2. ASSUME NEW n \in Nat, n \in T PROVE n + 1 \in T
  <2> SUFFICES ASSUME n + 1 <= Len(order) PROVE \E f : Keeps(f, S, order, gone, n + 1)
    OBVIOUS
  <2>1. PICK f : Keeps(f, S, order, gone, n)
    BY <1>2
  <2>2. order[n + 1] \in S
    OBVIOUS
  <2> DEFINE next == IF order[n + 1] \in gone THEN f[n] ELSE Append(f[n], order[n + 1])
             g == [i \in 0..(n + 1) |-> IF i = n + 1 THEN next ELSE f[i]]
  <2>3. f[n] \in Seq(S) /\ next \in Seq(S)
    BY <2>1, <2>2 DEF Keeps, Recurs
  <2> HIDE DEF next
  <2>4. g \in [0..(n + 1) -> Seq(S)] /\ g[0] = <<>>
    BY <2>1, <2>3 DEF Keeps, Recurs
  <2>5. ASSUME NEW i \in 1..(n + 1)
        PROVE  g[i] = IF order[i] \in gone THEN g[i - 1] ELSE Append(g[i - 1], order[i])
    <3>1. CASE i = n + 1
      BY <3>1 DEF next
    <3>2. CASE i # n + 1
      <4>1. i \in 1..n /\ i - 1 \in 0..n /\ i - 1 # n + 1
        BY <3>2
      <4> QED
        BY <4>1, <3>2, <2>1 DEF Keeps, Recurs
    <3> QED
      BY <3>1, <3>2
  <2>6. Keeps(g, S, order, gone, n + 1)
    <3> HIDE DEF g
    <3> QED
      BY <2>4, <2>5 DEF Keeps, Recurs
  <2> QED
    BY <2>6
<1>3. Nat \subseteq T
  <2> HIDE DEF T
  <2> QED
    BY <1>1, <1>2, Induction
<1> QED
  BY <1>3

(* ... and what has the recurrence is that function.                       *)
LEMMA KeepsOne ==
  ASSUME NEW S, NEW order, NEW gone, NEW n \in Nat, NEW f, Keeps(f, S, order, gone, n), NEW g,
         Recurs(g, order, gone, n)
  PROVE  \A i \in 0..n : f[i] = g[i]
<1> DEFINE T == {i \in Nat : i <= n => f[i] = g[i]}
<1>1. 0 \in T
  BY DEF Keeps, Recurs
<1>2. ASSUME NEW i \in Nat, i \in T PROVE i + 1 \in T
  <2> SUFFICES ASSUME i + 1 <= n PROVE f[i + 1] = g[i + 1]
    OBVIOUS
  <2>1. i + 1 \in 1..n /\ (i + 1) - 1 = i /\ i <= n
    OBVIOUS
  <2> QED
    BY <1>2, <2>1 DEF Keeps, Recurs
<1>3. Nat \subseteq T
  <2> HIDE DEF T
  <2> QED
    BY <1>1, <1>2, Induction
<1> QED
  BY <1>3

(* Without is where the recurrence ends.                                   *)
LEMMA WithoutIs ==
  ASSUME NEW S, NEW order \in Seq(S), NEW gone, NEW f, Keeps(f, S, order, gone, Len(order))
  PROVE  Promised!Without(order, gone) = f[Len(order)]
<1> DEFINE Unfold(g) == [n \in 0..Len(order) |->
             IF n = 0 THEN <<>> ELSE IF order[n] \in gone THEN g[n - 1] ELSE Append(g[n - 1], order[n])]
           kept == CHOOSE g : g = Unfold(g)
<1>1. Len(order) \in Nat
  OBVIOUS
<1>2. f = Unfold(f)
  <2>1. ASSUME NEW n \in 0..Len(order) PROVE f[n] = Unfold(f)[n]
    <3>1. CASE n = 0
      BY <3>1 DEF Keeps, Recurs
    <3>2. CASE n # 0
      <4>1. n \in 1..Len(order)
        BY <1>1, <3>2
      <4>2. f[n] = IF order[n] \in gone THEN f[n - 1] ELSE Append(f[n - 1], order[n])
        BY <4>1 DEF Keeps, Recurs
      <4> QED
        BY <3>2, <4>2
    <3> QED
      BY <3>1, <3>2
  <2>2. f = [n \in 0..Len(order) |-> f[n]]
    BY DEF Keeps, Recurs
  <2> QED
    BY <2>1, <2>2
<1>3. kept = Unfold(kept)
  <2> HIDE DEF Unfold
  <2> QED
    BY <1>2
<1>4. Promised!Without(order, gone) = kept[Len(order)]
  BY DEF Promised!Without
<1> HIDE DEF kept
<1>5. Recurs(kept, order, gone, Len(order))
  <2>1. kept[0] = <<>>
    <3>1. Unfold(kept)[0] = <<>>
      BY <1>1
    <3> QED
      BY <1>3, <3>1
  <2>2. ASSUME NEW i \in 1..Len(order)
        PROVE  kept[i] = IF order[i] \in gone THEN kept[i - 1] ELSE Append(kept[i - 1], order[i])
    <3>1. i \in 0..Len(order) /\ i # 0
      BY <1>1
    <3>2. Unfold(kept)[i] = IF order[i] \in gone THEN kept[i - 1] ELSE Append(kept[i - 1], order[i])
      BY <3>1
    <3> QED
      BY <1>3, <3>2
  <2> QED
    BY <2>1, <2>2 DEF Recurs
<1>6. \A i \in 0..Len(order) : f[i] = kept[i]
  BY <1>1, <1>5, KeepsOne
<1> QED
  BY <1>1, <1>4, <1>6

(* What has the recurrence is what is kept.                                *)
LEMMA WithoutOf ==
  ASSUME NEW S, NEW order \in Seq(S), NEW gone, NEW g, Recurs(g, order, gone, Len(order))
  PROVE  Promised!Without(order, gone) = g[Len(order)]
<1>1. PICK f : Keeps(f, S, order, gone, Len(order))
  BY KeepsExist
<1>2. Len(order) \in Nat
  OBVIOUS
<1> DEFINE n == Len(order)
<1>3. \A i \in 0..n : f[i] = g[i]
  <2>1. n \in Nat /\ Keeps(f, S, order, gone, n) /\ Recurs(g, order, gone, n)
    BY <1>1, <1>2
  <2> HIDE DEF n
  <2> QED
    BY <2>1, KeepsOne
<1> QED
  BY <1>1, <1>2, <1>3, WithoutIs

LEMMA WithoutNone ==
  ASSUME NEW S, NEW order \in Seq(S), NEW gone, \A i \in 1..Len(order) : order[i] \notin gone
  PROVE  Promised!Without(order, gone) = order
<1> DEFINE g == [n \in 0..Len(order) |-> [j \in 1..n |-> order[j]]]
<1>1. Len(order) \in Nat /\ g[0] = <<>>
  OBVIOUS
<1>2. ASSUME NEW i \in 1..Len(order)
      PROVE  g[i] = IF order[i] \in gone THEN g[i - 1] ELSE Append(g[i - 1], order[i])
  <2>1. /\ g[i] = [j \in 1..i |-> order[j]] /\ g[i] \in Seq(S) /\ Len(g[i]) = i
    BY <1>1
  <2>2. g[i - 1] = [j \in 1..i - 1 |-> order[j]] /\ g[i - 1] \in Seq(S) /\ Len(g[i - 1]) = i - 1
    BY <1>1
  <2>3. order[i] \in S
    OBVIOUS
  <2> DEFINE p == g[i]
             q == g[i - 1]
  <2>4. p \in Seq(S) /\ Len(p) = i /\ \A j \in 1..i : p[j] = order[j]
    BY <2>1
  <2>5. q \in Seq(S) /\ Len(q) = i - 1 /\ \A j \in 1..i - 1 : q[j] = order[j]
    BY <2>2
  <2> HIDE DEF p, q
  <2>6. /\ Append(q, order[i]) \in Seq(S) /\ Len(Append(q, order[i])) = i
        /\ \A j \in 1..i : Append(q, order[i])[j] = order[j]
    BY <2>3, <2>5
  <2>7. p = Append(q, order[i])
    BY <2>4, <2>6, SameSeq
  <2>8. order[i] \notin gone
    OBVIOUS
  <2> QED
    BY <2>7, <2>8 DEF p, q
<1>3. Promised!Without(order, gone) = g[Len(order)]
  <2> HIDE DEF g
  <2> QED
    BY <1>1, <1>2, WithoutOf DEF Recurs
<1>4. g[Len(order)] = [j \in 1..Len(order) |-> order[j]]
  BY <1>1
<1> QED
  BY <1>3, <1>4

(* Without a key that an order has once, what is behind it moves up.       *)
LEMMA WithoutOne ==
  ASSUME NEW S, NEW order \in Seq(S), NEW at \in 1..Len(order),
         \A i \in 1..Len(order) : order[i] = order[at] => i = at
  PROVE  Promised!Without(order, {order[at]}) =
           [j \in 1..Len(order) - 1 |-> IF j < at THEN order[j] ELSE order[j + 1]]
<1> DEFINE size(n) == IF n < at THEN n ELSE n - 1
           item(j) == IF j < at THEN order[j] ELSE order[j + 1]
           g == [n \in 0..Len(order) |-> [j \in 1..size(n) |-> item(j)]]
<1>1. Len(order) \in Nat /\ at \in Nat
  OBVIOUS
<1>2. g[0] = <<>>
  BY <1>1
<1>3. ASSUME NEW n \in 0..Len(order)
      PROVE  /\ size(n) \in Nat /\ g[n] \in Seq(S) /\ Len(g[n]) = size(n)
             /\ \A j \in 1..size(n) : g[n][j] = item(j)
  <2>1. size(n) \in Nat /\ size(n) <= n
    BY <1>1
  <2>2. \A j \in 1..size(n) : item(j) \in S
    BY <1>1
  <2>3. g[n] = [j \in 1..size(n) |-> item(j)]
    OBVIOUS
  <2> HIDE DEF size, item, g
  <2> QED
    BY <2>1, <2>2, <2>3
<1>4. ASSUME NEW i \in 1..Len(order)
      PROVE  g[i] = IF order[i] \in {order[at]} THEN g[i - 1] ELSE Append(g[i - 1], order[i])
  <2>1. i \in 0..Len(order) /\ i - 1 \in 0..Len(order) /\ order[i] \in S
    BY <1>1
  <2> DEFINE p == g[i]
             q == g[i - 1]
  <2>2. p \in Seq(S) /\ Len(p) = size(i) /\ \A j \in 1..size(i) : p[j] = item(j)
    BY <1>3, <2>1
  <2>3. q \in Seq(S) /\ Len(q) = size(i - 1) /\ \A j \in 1..size(i - 1) : q[j] = item(j)
    BY <1>3, <2>1
  <2> HIDE DEF p, q
  <2>4. CASE i = at
    <3>1. size(i) = size(i - 1)
      BY <1>1, <2>4
    <3>2. p = q
      <4> HIDE DEF item, size
      <4> QED
        BY <2>2, <2>3, <3>1, SameSeq
    <3> QED
      BY <2>4, <3>2 DEF p, q
  <2>5. CASE i # at
    <3>1. order[i] \notin {order[at]}
      BY <2>5
    <3>2. size(i) = size(i - 1) + 1 /\ item(size(i)) = order[i] /\ size(i - 1) \in Nat
      BY <1>1, <2>5
    <3>3. p = Append(q, order[i])
      <4> HIDE DEF item, size
      <4>1. /\ Append(q, order[i]) \in Seq(S) /\ Len(Append(q, order[i])) = size(i)
            /\ \A j \in 1..size(i) : Append(q, order[i])[j] = item(j)
        BY <2>1, <2>3, <3>2
      <4> QED
        BY <2>2, <4>1, SameSeq
    <3> QED
      BY <3>1, <3>3 DEF p, q
  <2> QED
    BY <2>4, <2>5
<1>5. Promised!Without(order, {order[at]}) = g[Len(order)]
  <2> HIDE DEF g
  <2> QED
    BY <1>1, <1>2, <1>4, WithoutOf DEF Recurs
<1>6. size(Len(order)) = Len(order) - 1
  BY <1>1
<1> QED
  BY <1>1, <1>5, <1>6

-----------------------------------------------------------------------------
(* What a mutator makes of a receiver.                                     *)
Gained(op, v, a) ==
  IF op = "array.pop" THEN <<v.of[Len(v.of)]>>
  ELSE IF op = "map.remove"
       THEN <<IF Promised!Key(a[1]) \in DOMAIN v.under THEN v.under[Promised!Key(a[1])] ELSE Nil>>
       ELSE <<>>
Mutated(m, op, h, a, k) ==
  LET v == Meaning(m, h) IN
  Does(m, Mutate(m, op, h, a), k, Promised!Refused(op, v, a), Promised!Made(op, v, a), Gained(op, v, a))

LEMMA OutcomeOf == ASSUME NEW x PROVE <<"value">> \o <<x>> = <<"value", x>>
<1> DEFINE S == {"value", x}
           p == <<"value">> \o <<x>>
           q == <<"value", x>>
<1>1. <<"value">> \in Seq(S) /\ <<x>> \in Seq(S) /\ q \in Seq(S)
  OBVIOUS
<1>2. p \in Seq(S) /\ Len(p) = 2 /\ p[1] = "value" /\ p[2] = x
  BY <1>1
<1>3. Len(q) = 2 /\ q[1] = "value" /\ q[2] = x
  OBVIOUS
<1> HIDE DEF p, q, S
<1>4. p = q
  BY <1>1, <1>2, <1>3, SameSeq
<1> QED
  BY <1>4 DEF p, q

LEMMA WorthIs ==
  ASSUME NEW k, NEW op, <<k, op>> \in Changes, NEW v, NEW a
  PROVE  Promised!Worth(op, v, a) = <<"value">> \o Gained(op, v, a)
<1>1. CASE op = "array.pop"
  BY <1>1, OutcomeOf DEF Promised!Worth, Gained, Promised!Gives, Promised!Last
<1>2. CASE op = "map.remove"
  BY <1>2, OutcomeOf DEF Promised!Worth, Gained, Promised!Gives
<1>3. CASE op \notin {"array.pop", "map.remove"}
  <2>1. Promised!Worth(op, v, a) = <<"value">>
    BY <1>3 DEF Promised!Worth, Promised!Silent, Changes
  <2>2. Gained(op, v, a) = <<>>
    BY <1>3 DEF Gained
  <2> QED
    BY <2>1, <2>2
<1> QED
  BY <1>1, <1>2, <1>3

LEMMA ReplaceArrayGave ==
  ASSUME CollectionsAssumption, NEW m \in Memories, NEW h, Sound(m, "array", h),
         NEW elements \in Seq(Elements), NEW capacity \in Nat, Len(elements) <= capacity
  PROVE  Gave(m, ReplaceArray(m, h, elements, capacity), "array", [kind |-> "array", of |-> elements], <<>>)
<1> DEFINE h2 == [h EXCEPT !.size = Len(elements), !.capacity = capacity]
<1>1. h \in [kind : {"array"}, storage : Refs \cup {Nil}, size : Nat, capacity : Nat]
  BY SoundArray
<1>2. Len(elements) \in Nat
  OBVIOUS
<1>3. /\ h2 \in [kind : {"array"}, storage : Refs \cup {Nil}, size : Nat, capacity : Nat]
      /\ h2.size = Len(elements) /\ h2.capacity = capacity
  BY <1>1, <1>2
<1> HIDE DEF h2
<1>4. Gave(m, Allocate(m, h2, elements), "array", [kind |-> "array", of |-> elements], <<>>)
  BY <1>3, GaveArray
<1> QED
  BY <1>4 DEF ReplaceArray, h2

LEMMA FrontIs ==
  ASSUME NEW S, NEW s \in Seq(S), Len(s) # 0
  PROVE  /\ SubSeq(s, 1, Len(s) - 1) \in Seq(S) /\ Len(SubSeq(s, 1, Len(s) - 1)) = Len(s) - 1
         /\ \A i \in 1..Len(s) - 1 : SubSeq(s, 1, Len(s) - 1)[i] = s[i]
<1> DEFINE n == Len(s) - 1
<1>1. n \in Nat /\ n < Len(s)
  OBVIOUS
<1>2. \A i \in 1..n : s[i] \in S
  BY <1>1
<1> HIDE DEF n
<1>3. SubSeq(s, 1, n) \in Seq(S) /\ Len(SubSeq(s, 1, n)) = n /\ \A i \in 1..n : SubSeq(s, 1, n)[i] = s[i]
  BY <1>1, <1>2
<1> QED
  BY <1>3 DEF n

LEMMA ExceptIs ==
  ASSUME NEW S, NEW s \in Seq(S), NEW i, NEW x \in S
  PROVE  [s EXCEPT ![i] = x] \in Seq(S) /\ Len([s EXCEPT ![i] = x]) = Len(s)
<1> DEFINE t == [s EXCEPT ![i] = x]
<1>1. DOMAIN t = 1..Len(s) /\ Len(s) \in Nat /\ t = [j \in 1..Len(s) |-> t[j]]
  OBVIOUS
<1>2. \A j \in 1..Len(s) : t[j] \in S
  OBVIOUS
<1> HIDE DEF t
<1>3. t \in Seq(S) /\ Len(t) = Len(s)
  BY <1>1, <1>2, FunctionIsSeq
<1> QED
  BY <1>3 DEF t

(* A mutator of an array gives a header that means what is promised of its *)
(* operation, over storage of its own.                                     *)
LEMMA ArrayMutates ==
  ASSUME CollectionsAssumption, NEW m \in Memories, NEW h, Sound(m, "array", h), NEW op, NEW a,
         <<"array", op>> \in Changes, Suits(op, a)
  PROVE  Mutated(m, op, h, a, "array")
<1> DEFINE e == m.blocks[h.storage]
           v == Meaning(m, h)
           refused == Promised!Refused(op, v, a)
           made == Promised!Made(op, v, a)
<1>1. /\ e \in Seq(Elements) /\ h.size = Len(e) /\ h.size \in Nat /\ v = [kind |-> "array", of |-> e] /\ v # Nil
      /\ h # Nil /\ h.kind = "array" /\ ReceiverError(m, h) = NoError
      /\ h.capacity \in Nat /\ h.size <= h.capacity
  BY SoundArray
<1>2. v.of = e
  BY <1>1
<1> HIDE DEF e, v
<1>3. Mutate(m, op, h, a) = ArrayMutate(m, op, h, a)
  BY <1>1 DEF Mutate
<1>4. CASE op = "array.set"
  <2> DEFINE after == [e EXCEPT ![a[1] + 1] = a[2]]
  <2>1. WholeOrNil(a[1]) /\ a[2] \in Elements
    <3>1. a \in Seq(Elements) /\ Len(a) = 2
      BY <1>4 DEF Suits
    <3>2. WholeOrNil(a[1])
      BY <1>4 DEF Suits
    <3>3. a[2] \in Elements
      BY <3>1
    <3> QED
      BY <3>2, <3>3
  <2>2. refused = Promised!Index(a[1], h.size) /\ made = [kind |-> "array", of |-> after] /\ Gained(op, v, a) = <<>>
    BY <1>1, <1>2, <1>4 DEF Promised!Refused, Promised!Made, Promised!Array, Gained
  <2>3. Mutate(m, op, h, a) = Guarded(IndexError(a[1], h.size), ReplaceArray(m, h, after, h.capacity))
    BY <1>1, <1>3, <1>4 DEF ArrayMutate, Receiving, Guarded, e
  <2>4. /\ refused = "ok" => IndexError(a[1], h.size) = NoError
        /\ refused # "ok" => IndexError(a[1], h.size) = refused /\ refused # NoError
    BY <2>1, <2>2, <1>1, IndexErrorIs
  <2>5. after \in Seq(Elements) /\ Len(after) = Len(e)
    <3> DEFINE i == a[1] + 1
               x == a[2]
    <3>1. x \in Elements
      BY <2>1
    <3> HIDE DEF i, x
    <3>2. [e EXCEPT ![i] = x] \in Seq(Elements) /\ Len([e EXCEPT ![i] = x]) = Len(e)
      BY <3>1, <1>1, ExceptIs
    <3> QED
      BY <3>2 DEF i, x
  <2> HIDE DEF refused, made, after
  <2>6. Gave(m, ReplaceArray(m, h, after, h.capacity), "array", [kind |-> "array", of |-> after], <<>>)
    BY <2>5, <1>1, ReplaceArrayGave
  <2> QED
    BY <2>2, <2>3, <2>4, <2>6 DEF Mutated, Does, v, refused, made, Guarded
<1>5. CASE op = "array.push"
  <2> DEFINE after == Append(e, a[1])
             capacity == IF h.size < h.capacity THEN h.capacity ELSE IF h.capacity = 0 THEN 1 ELSE 2 * h.capacity
  <2>1. a[1] \in Elements
    <3>1. a \in Seq(Elements) /\ Len(a) = 1
      BY <1>5 DEF Suits
    <3> QED
      BY ONLY <3>1
  <2>2. refused = Promised!Fit(h.size + 1) /\ made = [kind |-> "array", of |-> after] /\ Gained(op, v, a) = <<>>
    BY <1>1, <1>2, <1>5 DEF Promised!Refused, Promised!Made, Promised!Array, Gained
  <2>3. Mutate(m, op, h, a) = Guarded(LimitError(h.size + 1), ReplaceArray(m, h, after, capacity))
    BY <1>1, <1>3, <1>5 DEF ArrayMutate, Receiving, Guarded, e
  <2>4. after \in Seq(Elements) /\ Len(after) = h.size + 1
    BY <2>1, <1>1
  <2>5. capacity \in Nat /\ h.size + 1 <= capacity
    BY <1>1
  <2> HIDE DEF refused, made, after, capacity
  <2>6. Gave(m, ReplaceArray(m, h, after, capacity), "array", [kind |-> "array", of |-> after], <<>>)
    BY <2>4, <2>5, ReplaceArrayGave
  <2> QED
    BY <2>2, <2>3, <2>6 DEF Mutated, Does, v, refused, made, Guarded, LimitError, NoError, Promised!Fit
<1>6. CASE op = "array.pop"
  <2> DEFINE after == SubSeq(e, 1, h.size - 1)
  <2>1. refused = (IF e = <<>> THEN "EMPTY_COLLECTION" ELSE "ok") /\ Gained(op, v, a) = <<e[h.size]>>
    BY <1>1, <1>2, <1>6 DEF Promised!Refused, Gained
  <2>2. made = [kind |-> "array", of |-> after]
    BY <1>1, <1>2, <1>6 DEF Promised!Made, Promised!Array, Promised!Front
  <2>3. Mutate(m, op, h, a) =
          Guarded(EmptyError(h), WithResult(ReplaceArray(m, h, after, h.capacity), e[h.size]))
    BY <1>1, <1>3, <1>6 DEF ArrayMutate, Receiving, Guarded, e
  <2>4. h.size = 0 <=> e = <<>>
    BY <1>1
  <2>5. h.size # 0 => after \in Seq(Elements) /\ Len(after) = h.size - 1
    BY <1>1, FrontIs
  <2> HIDE DEF refused, made, after
  <2>6. h.size # 0 => Gave(m, ReplaceArray(m, h, after, h.capacity), "array", [kind |-> "array", of |-> after], <<>>)
    BY <2>5, <1>1, ReplaceArrayGave
  <2>7. h.size # 0 => Gave(m, WithResult(ReplaceArray(m, h, after, h.capacity), e[h.size]), "array",
                           [kind |-> "array", of |-> after], <<e[h.size]>>)
    BY <2>6, GaveWithResult
  <2> QED
    BY <2>1, <2>2, <2>3, <2>4, <2>7 DEF Mutated, Does, v, refused, made, Guarded, EmptyError, NoError
<1>7. CASE op = "array.clear"
  <2>1. refused = "ok" /\ made = [kind |-> "array", of |-> <<>>] /\ Gained(op, v, a) = <<>>
    BY <1>1, <1>7 DEF Promised!Refused, Promised!Made, Promised!Array, Gained
  <2>2. Mutate(m, op, h, a) = ReplaceArray(m, h, <<>>, h.capacity)
    BY <1>1, <1>3, <1>7 DEF ArrayMutate, Receiving, Guarded
  <2>3. Gave(m, ReplaceArray(m, h, <<>>, h.capacity), "array", [kind |-> "array", of |-> <<>>], <<>>)
    <3> DEFINE empty == <<>>
    <3>1. empty \in Seq(Elements) /\ Len(empty) = 0
      OBVIOUS
    <3>2. 0 <= h.capacity
      BY <1>1
    <3> HIDE DEF empty
    <3>3. Gave(m, ReplaceArray(m, h, empty, h.capacity), "array", [kind |-> "array", of |-> empty], <<>>)
      BY <1>1, <3>1, <3>2, ReplaceArrayGave
    <3> QED
      BY <3>3 DEF empty
  <2> QED
    BY <2>1, <2>2, <2>3 DEF Mutated, Does, v
<1> QED
  BY <1>4, <1>5, <1>6, <1>7 DEF Changes

LEMMA ReplaceMapGave ==
  ASSUME CollectionsAssumption, NEW m \in Memories, NEW h, Sound(m, "map", h),
         NEW entries \in Directory, Len(entries) <= MaxElements
  PROVE  Gave(m, ReplaceMap(m, h, entries), "map",
              [kind |-> "map", order |-> Keys(entries), under |-> UnderKeys(entries)], <<>>)
<1> DEFINE h2 == [h EXCEPT !.size = Len(entries)]
<1>1. h \in [kind : {"map"}, storage : Refs \cup {Nil}, size : Nat]
  BY SoundMap
<1>2. Len(entries) \in Nat
  BY DirectoryUnder
<1>3. h2 \in [kind : {"map"}, storage : Refs \cup {Nil}, size : Nat] /\ h2.size = Len(entries)
  BY <1>1, <1>2
<1> HIDE DEF h2
<1>4. Gave(m, Allocate(m, h2, entries), "map",
           [kind |-> "map", order |-> Keys(entries), under |-> UnderKeys(entries)], <<>>)
  BY <1>3, GaveMap
<1> QED
  BY <1>4 DEF ReplaceMap, h2

(* What is under the keys of a directory is settled by its entries.        *)
LEMMA UnderIs ==
  ASSUME NEW e \in Directory, NEW D, NEW u, u = [x \in D |-> u[x]], D = {e[i].key : i \in 1..Len(e)},
         \A i \in 1..Len(e) : u[e[i].key] = e[i].value
  PROVE  UnderKeys(e) = u
<1>1. DOMAIN UnderKeys(e) = D /\ \A i \in 1..Len(e) : UnderKeys(e)[e[i].key] = e[i].value
  BY DirectoryUnder
<1>2. \A x \in D : UnderKeys(e)[x] = u[x]
  BY <1>1
<1>3. UnderKeys(e) = [x \in DOMAIN UnderKeys(e) |-> UnderKeys(e)[x]]
  BY DEF UnderKeys
<1> QED
  BY <1>1, <1>2, <1>3

LEMMA RemoveAtIs ==
  ASSUME NEW S, NEW s \in Seq(S), NEW at \in 1..Len(s)
  PROVE  /\ RemoveAt(s, at) \in Seq(S) /\ Len(RemoveAt(s, at)) = Len(s) - 1
         /\ \A j \in 1..Len(s) - 1 : RemoveAt(s, at)[j] = IF j < at THEN s[j] ELSE s[j + 1]
<1> DEFINE p == SubSeq(s, 1, at - 1)
           q == SubSeq(s, at + 1, Len(s))
<1>1. Len(s) \in Nat /\ at \in Nat /\ at - 1 \in Nat /\ Len(s) - at \in Nat /\ at >= 1
  OBVIOUS
<1>2. p \in Seq(S) /\ Len(p) = at - 1 /\ \A j \in 1..at - 1 : p[j] = s[j]
  <2>1. \A j \in 1..at - 1 : s[j] \in S
    BY <1>1
  <2> QED
    BY <1>1, <2>1
<1>3. q \in Seq(S) /\ Len(q) = Len(s) - at /\ \A j \in 1..Len(s) - at : q[j] = s[at + j]
  <2>1. \A j \in at + 1..Len(s) : s[j] \in S
    BY <1>1
  <2> QED
    BY <1>1, <2>1
<1> HIDE DEF p, q
<1>4. p \o q \in Seq(S) /\ Len(p \o q) = Len(p) + Len(q)
  <2>1. p \in Seq(S) /\ q \in Seq(S)
    BY <1>2, <1>3
  <2> QED
    BY ONLY <2>1
<1>5. Len(p \o q) = Len(s) - 1
  BY <1>1, <1>2, <1>3, <1>4
<1>6. ASSUME NEW j \in 1..Len(s) - 1 PROVE (p \o q)[j] = IF j < at THEN s[j] ELSE s[j + 1]
  <2>1. CASE j < at
    BY <1>1, <1>2, <1>3, <2>1
  <2>2. CASE ~(j < at)
    <3>1. j - (at - 1) \in 1..Len(s) - at /\ at + (j - (at - 1)) = j + 1 /\ j \in Nat
      BY <1>1, <2>2
    <3>2. (p \o q)[j] = q[j - (at - 1)]
      BY <1>1, <1>2, <1>3, <2>2
    <3> QED
      BY <1>3, <2>2, <3>1, <3>2
  <2> QED
    BY <2>1, <2>2
<1> QED
  BY <1>4, <1>5, <1>6 DEF RemoveAt, p, q

(* Putting under a key there is: the order stays.                          *)
LEMMA DirectoryPut ==
  ASSUME CollectionsAssumption, NEW e \in Directory, NEW at \in 1..Len(e), NEW x \in Elements
  PROVE  LET after == [i \in DOMAIN e |-> IF i \in {at} THEN [e[i] EXCEPT !.value = x] ELSE e[i]]
             under == [y \in DOMAIN UnderKeys(e) \cup {e[at].key} |-> IF y = e[at].key THEN x ELSE UnderKeys(e)[y]]
         IN after \in Directory /\ Len(after) = Len(e) /\ Keys(after) = Keys(e) /\ UnderKeys(after) = under
<1> DEFINE after == [i \in DOMAIN e |-> IF i \in {at} THEN [e[i] EXCEPT !.value = x] ELSE e[i]]
           u == [y \in DOMAIN UnderKeys(e) \cup {e[at].key} |-> IF y = e[at].key THEN x ELSE UnderKeys(e)[y]]
<1>1. /\ Len(e) \in Nat /\ DOMAIN e = 1..Len(e) /\ DOMAIN UnderKeys(e) = {e[i].key : i \in 1..Len(e)}
      /\ \A i \in 1..Len(e) : e[i] \in Entries /\ UnderKeys(e)[e[i].key] = e[i].value
  BY DirectoryUnder
<1>2. after = [i \in 1..Len(e) |-> after[i]]
  BY <1>1
<1>3. \A i \in 1..Len(e) : /\ after[i] \in Entries /\ after[i].key = e[i].key
                           /\ after[i].value = IF i = at THEN x ELSE e[i].value
  BY <1>1 DEF Entries
<1> HIDE DEF after
<1>4. after \in Seq(Entries) /\ Len(after) = Len(e)
  BY <1>1, <1>2, <1>3, FunctionIsSeq
<1>5. after \in Directory
  BY <1>3, <1>4 DEF Directory
<1>6. Keys(after) = Keys(e)
  BY <1>1, <1>3, <1>4 DEF Keys
<1>7. UnderKeys(after) = u
  <2>1. DOMAIN UnderKeys(e) \cup {e[at].key} = {after[i].key : i \in 1..Len(after)}
    BY <1>1, <1>3, <1>4
  <2>2. \A i \in 1..Len(after) : u[after[i].key] = after[i].value
    <3> SUFFICES ASSUME NEW i \in 1..Len(e) PROVE u[after[i].key] = after[i].value
      BY <1>4
    <3>1. after[i].key = e[i].key /\ e[i].key \in DOMAIN UnderKeys(e)
      BY <1>1, <1>3
    <3>2. e[i].key = e[at].key => i = at
      BY DEF Directory
    <3> QED
      BY <1>1, <1>3, <3>1, <3>2
  <2> DEFINE D == DOMAIN UnderKeys(e) \cup {e[at].key}
  <2>3. u = [y \in D |-> u[y]]
    OBVIOUS
  <2>4. D = {after[i].key : i \in 1..Len(after)}
    BY <2>1
  <2> HIDE DEF u, D
  <2> QED
    BY <1>5, <2>2, <2>3, <2>4, UnderIs
<1> QED
  BY <1>4, <1>5, <1>6, <1>7 DEF after

(* Putting under a new key: it comes last.                                 *)
LEMMA DirectoryAdd ==
  ASSUME CollectionsAssumption, NEW e \in Directory, NEW key \in Elements, key \notin {Nil, NegativeZero},
         key \notin DOMAIN UnderKeys(e), NEW x \in Elements
  PROVE  LET after == Append(e, [key |-> key, value |-> x])
             under == [y \in DOMAIN UnderKeys(e) \cup {key} |-> IF y = key THEN x ELSE UnderKeys(e)[y]]
         IN after \in Directory /\ Len(after) = Len(e) + 1 /\ Keys(after) = Append(Keys(e), key) /\ UnderKeys(after) = under
<1> DEFINE entry == [key |-> key, value |-> x]
           after == Append(e, entry)
           u == [y \in DOMAIN UnderKeys(e) \cup {key} |-> IF y = key THEN x ELSE UnderKeys(e)[y]]
<1>1. /\ e \in Seq(Entries) /\ Len(e) \in Nat /\ DOMAIN e = 1..Len(e) /\ DOMAIN UnderKeys(e) = {e[i].key : i \in 1..Len(e)}
      /\ \A i \in 1..Len(e) : e[i] \in Entries /\ e[i].key \in Elements /\ UnderKeys(e)[e[i].key] = e[i].value
  BY DirectoryUnder
<1>2. entry \in Entries /\ entry.key = key /\ entry.value = x
  BY DEF Entries
<1> HIDE DEF entry
<1>3. /\ after \in Seq(Entries) /\ Len(after) = Len(e) + 1 /\ DOMAIN after = 1..Len(e) + 1
      /\ \A i \in 1..Len(e) : after[i] = e[i]
      /\ after[Len(e) + 1] = entry
  BY <1>1, <1>2
<1> HIDE DEF after
<1>4. \A i \in 1..Len(e) + 1 : i \in 1..Len(e) \/ i = Len(e) + 1
  BY <1>1
<1>5. \A i \in 1..Len(e) : e[i].key # key
  BY <1>1
<1>6. after \in Directory
  <2>1. \A i \in 1..Len(after) : after[i].key \notin {Nil, NegativeZero}
    BY <1>2, <1>3, <1>4 DEF Directory
  <2>2. \A i, j \in 1..Len(after) : after[i].key = after[j].key => i = j
    BY <1>2, <1>3, <1>4, <1>5 DEF Directory
  <2> QED
    BY <1>3, <2>1, <2>2 DEF Directory
<1>7. Keys(after) = Append(Keys(e), key)
  <2> DEFINE p == Keys(after)
             q == Keys(e)
  <2>1. p = [i \in 1..Len(e) + 1 |-> p[i]] /\ \A i \in 1..Len(e) + 1 : p[i] = after[i].key
    BY <1>3 DEF Keys
  <2>2. q = [i \in 1..Len(e) |-> q[i]] /\ \A i \in 1..Len(e) : q[i] = e[i].key
    BY <1>1 DEF Keys
  <2> HIDE DEF p, q
  <2>3. p \in Seq(Elements) /\ Len(p) = Len(e) + 1
    <3>1. \A i \in 1..Len(e) + 1 : p[i] \in Elements
      BY <1>1, <1>2, <1>3, <1>4, <2>1
    <3> QED
      BY <1>1, <2>1, <3>1, FunctionIsSeq
  <2>4. q \in Seq(Elements) /\ Len(q) = Len(e)
    BY <1>1, <2>2, FunctionIsSeq
  <2>5. Append(q, key) \in Seq(Elements) /\ Len(Append(q, key)) = Len(e) + 1
    BY <2>4
  <2>6. \A i \in 1..Len(e) + 1 : p[i] = Append(q, key)[i]
    BY <1>1, <1>2, <1>3, <1>4, <2>1, <2>2, <2>4
  <2>7. p = Append(q, key)
    BY <2>3, <2>5, <2>6, SameSeq
  <2> QED
    BY <2>7 DEF p, q
<1>8. UnderKeys(after) = u
  <2>1. DOMAIN UnderKeys(e) \cup {key} = {after[i].key : i \in 1..Len(after)}
    BY <1>1, <1>2, <1>3, <1>4
  <2>2. \A i \in 1..Len(after) : u[after[i].key] = after[i].value
    <3> SUFFICES ASSUME NEW i \in 1..Len(after) PROVE u[after[i].key] = after[i].value
      OBVIOUS
    <3>1. CASE i \in 1..Len(e)
      <4>1. after[i] = e[i] /\ e[i].key \in DOMAIN UnderKeys(e) /\ e[i].key # key /\ UnderKeys(e)[e[i].key] = e[i].value
        BY <1>1, <1>3, <1>5, <3>1
      <4> QED
        BY <4>1
    <3>2. CASE i = Len(e) + 1
      BY <1>2, <1>3, <3>2
    <3> QED
      BY <1>3, <1>4, <3>1, <3>2
  <2> DEFINE D == DOMAIN UnderKeys(e) \cup {key}
  <2>3. u = [y \in D |-> u[y]]
    OBVIOUS
  <2>4. D = {after[i].key : i \in 1..Len(after)}
    BY <2>1
  <2> HIDE DEF u, D
  <2> QED
    BY <1>6, <2>2, <2>3, <2>4, UnderIs
<1> QED
  BY <1>3, <1>6, <1>7, <1>8 DEF after, entry

(* Taking a key out: the others keep their order.                          *)
LEMMA DirectoryRemove ==
  ASSUME NEW e \in Directory, NEW at \in 1..Len(e)
  PROVE  LET after == RemoveAt(e, at)
             under == [y \in DOMAIN UnderKeys(e) \ {e[at].key} |-> UnderKeys(e)[y]]
         IN /\ after \in Directory /\ Len(after) = Len(e) - 1
            /\ Keys(after) = Promised!Without(Keys(e), {e[at].key}) /\ UnderKeys(after) = under
<1> DEFINE after == RemoveAt(e, at)
           u == [y \in DOMAIN UnderKeys(e) \ {e[at].key} |-> UnderKeys(e)[y]]
           from(j) == IF j < at THEN j ELSE j + 1
           keys == Keys(e)
<1>1. /\ e \in Seq(Entries) /\ Len(e) \in Nat /\ DOMAIN e = 1..Len(e) /\ DOMAIN UnderKeys(e) = {e[i].key : i \in 1..Len(e)}
      /\ \A i \in 1..Len(e) : e[i] \in Entries /\ e[i].key \in Elements /\ UnderKeys(e)[e[i].key] = e[i].value
      /\ \A i, j \in 1..Len(e) : e[i].key = e[j].key => i = j
      /\ \A i \in 1..Len(e) : e[i].key \notin {Nil, NegativeZero}
  BY DirectoryUnder DEF Directory
<1>2. /\ after \in Seq(Entries) /\ Len(after) = Len(e) - 1
      /\ \A j \in 1..Len(e) - 1 : after[j] = e[from(j)]
  <2>1. /\ after \in Seq(Entries) /\ Len(after) = Len(e) - 1
        /\ \A j \in 1..Len(e) - 1 : after[j] = IF j < at THEN e[j] ELSE e[j + 1]
    <3>1. e \in Seq(Entries)
      BY <1>1
    <3> HIDE DEF from, u, keys
    <3> QED
      BY ONLY <3>1, at \in 1..Len(e), RemoveAtIs
  <2> HIDE DEF after
  <2> QED
    BY <2>1
<1>3. /\ \A j \in 1..Len(e) - 1 : from(j) \in 1..Len(e) /\ from(j) # at
      /\ \A i, j \in 1..Len(e) - 1 : from(i) = from(j) => i = j
      /\ \A i \in 1..Len(e) : i # at => \E j \in 1..Len(e) - 1 : from(j) = i
  <2>1. Len(e) \in Nat /\ at \in Nat /\ at <= Len(e) /\ at >= 1
    BY <1>1
  <2>2. ASSUME NEW i \in 1..Len(e), i # at PROVE \E j \in 1..Len(e) - 1 : from(j) = i
    <3>1. CASE i < at
      BY <2>1, <3>1
    <3>2. CASE ~(i < at)
      <4>1. i - 1 \in 1..Len(e) - 1 /\ from(i - 1) = i
        BY <2>1, <2>2, <3>2
      <4> QED
        BY <4>1
    <3> QED
      BY <3>1, <3>2
  <2> QED
    BY <2>1, <2>2
<1> HIDE DEF after
<1>4. after \in Directory
  <2> HIDE DEF from
  <2>1. \A i \in 1..Len(after) : after[i].key \notin {Nil, NegativeZero}
    BY <1>1, <1>2, <1>3
  <2>2. ASSUME NEW i \in 1..Len(after), NEW j \in 1..Len(after), after[i].key = after[j].key PROVE i = j
    <3>1. from(i) \in 1..Len(e) /\ from(j) \in 1..Len(e) /\ e[from(i)].key = e[from(j)].key
      BY <1>2, <1>3, <2>2
    <3>2. from(i) = from(j)
      BY <1>1, <3>1
    <3> QED
      BY <1>2, <1>3, <3>2
  <2> QED
    BY <1>2, <2>1, <2>2 DEF Directory
<1>5. Keys(after) = Promised!Without(keys, {e[at].key})
  <2>1. keys = [i \in 1..Len(e) |-> e[i].key]
    BY <1>1 DEF Keys
  <2>2. keys = [i \in 1..Len(e) |-> keys[i]] /\ \A i \in 1..Len(e) : keys[i] = e[i].key
    BY <2>1
  <2> HIDE DEF keys
  <2>3. keys \in Seq(Elements) /\ Len(keys) = Len(e)
    BY <1>1, <2>2, FunctionIsSeq
  <2>4. Promised!Without(keys, {keys[at]}) =
          [j \in 1..Len(keys) - 1 |-> IF j < at THEN keys[j] ELSE keys[j + 1]]
    <3>1. \A i \in 1..Len(keys) : keys[i] = keys[at] => i = at
      BY <1>1, <2>2, <2>3
    <3>2. at \in 1..Len(keys)
      BY <2>3
    <3> QED
      BY <2>3, <3>1, <3>2, WithoutOne
  <2>5. Keys(after) = [j \in 1..Len(e) - 1 |-> after[j].key]
    <3>1. DOMAIN after = 1..Len(e) - 1
      BY <1>2
    <3> QED
      BY <3>1 DEF Keys
  <2>6. \A j \in 1..Len(e) - 1 : after[j].key = IF j < at THEN keys[j] ELSE keys[j + 1]
    BY <1>1, <1>2, <1>3, <2>2
  <2> QED
    BY <2>2, <2>3, <2>4, <2>5, <2>6
<1>6. UnderKeys(after) = u
  <2> HIDE DEF from
  <2>1. DOMAIN UnderKeys(e) \ {e[at].key} = {after[i].key : i \in 1..Len(after)}
    <3>1. ASSUME NEW y \in DOMAIN UnderKeys(e) \ {e[at].key} PROVE y \in {after[i].key : i \in 1..Len(after)}
      <4>1. PICK i \in 1..Len(e) : y = e[i].key
        BY <1>1
      <4>2. i # at
        BY <4>1
      <4>3. PICK j \in 1..Len(e) - 1 : from(j) = i
        BY <1>3, <4>2
      <4> QED
        BY <1>2, <4>1, <4>3
    <3>2. ASSUME NEW i \in 1..Len(after) PROVE after[i].key \in DOMAIN UnderKeys(e) \ {e[at].key}
      BY <1>1, <1>2, <1>3
    <3> QED
      BY <3>1, <3>2
  <2>2. ASSUME NEW i \in 1..Len(after) PROVE u[after[i].key] = after[i].value
    <3>1. after[i].key \in DOMAIN UnderKeys(e) \ {e[at].key}
      BY <2>1
    <3>2. after[i] = e[from(i)] /\ from(i) \in 1..Len(e)
      BY <1>2, <1>3
    <3> QED
      BY <1>1, <3>1, <3>2
  <2> DEFINE D == DOMAIN UnderKeys(e) \ {e[at].key}
  <2>3. u = [y \in D |-> u[y]]
    OBVIOUS
  <2>4. D = {after[i].key : i \in 1..Len(after)}
    BY <2>1
  <2> HIDE DEF u, D
  <2> QED
    BY <1>4, <2>2, <2>3, <2>4, UnderIs
<1> QED
  BY <1>2, <1>4, <1>5, <1>6 DEF after, keys

LEMMA KeysIs ==
  ASSUME NEW e \in Directory
  PROVE  /\ Keys(e) \in Seq(Elements) /\ Len(Keys(e)) = Len(e)
         /\ \A i \in 1..Len(e) : Keys(e)[i] = e[i].key
<1> DEFINE q == Keys(e)
<1>1. Len(e) \in Nat /\ DOMAIN e = 1..Len(e) /\ \A i \in 1..Len(e) : e[i].key \in Elements
  BY DirectoryUnder
<1>2. q = [i \in 1..Len(e) |-> q[i]] /\ \A i \in 1..Len(e) : q[i] = e[i].key
  BY <1>1 DEF Keys
<1> HIDE DEF q
<1>3. q \in Seq(Elements) /\ Len(q) = Len(e)
  BY <1>1, <1>2, FunctionIsSeq
<1> QED
  BY <1>2, <1>3 DEF q

LEMMA KeyIs ==
  ASSUME CollectionsAssumption, NEW x \in Elements, x # Nil
  PROVE  /\ Promised!Key(x) = CanonicalKey(x)
         /\ CanonicalKey(x) \in Elements /\ CanonicalKey(x) \notin {Nil, NegativeZero}
  BY DEF Promised!Key, CanonicalKey, CollectionsAssumption

(* A key that is there keeps its place; one that is not is put at the end. *)
LEMMA MapPuts ==
  ASSUME CollectionsAssumption, NEW m \in Memories, NEW h, Sound(m, "map", h), NEW a, Suits("map.put", a)
  PROVE  Mutated(m, "map.put", h, a, "map")
<1> DEFINE op == "map.put"
           e == m.blocks[h.storage]
           v == Meaning(m, h)
           refused == Promised!Refused(op, v, a)
           made == Promised!Made(op, v, a)
           key == CanonicalKey(a[1])
           x == a[2]
           found == Find(e, a[1])
           under == [y \in DOMAIN UnderKeys(e) \cup {key} |-> IF y = key THEN x ELSE UnderKeys(e)[y]]
<1>1. /\ e \in Directory /\ h.size = Len(e) /\ h.size \in Nat /\ h.size <= MaxElements
      /\ v = [kind |-> "map", order |-> Keys(e), under |-> UnderKeys(e)] /\ v # Nil
      /\ h # Nil /\ h.kind = "map" /\ ReceiverError(m, h) = NoError
  BY SoundMap
<1>2. v.under = UnderKeys(e) /\ v.order = Keys(e)
  BY <1>1
<1>3. a[1] \in Elements /\ a[2] \in Elements
  BY DEF Suits
<1> HIDE DEF e, v
<1>4. Mutate(m, op, h, a) =
        Guarded(KeyError(a[1]),
          IF found = {} THEN Guarded(LimitError(h.size + 1), ReplaceMap(m, h, Append(e, [key |-> key, value |-> x])))
          ELSE ReplaceMap(m, h, [i \in DOMAIN e |-> IF i \in found THEN [e[i] EXCEPT !.value = x] ELSE e[i]]))
  BY <1>1 DEF Mutate, MapMutate, Receiving, Guarded, e
<1>5. refused = IF a[1] = Nil THEN "INVALID_MAP_KEY"
                ELSE Promised!Fit(Cardinality(DOMAIN UnderKeys(e) \cup {Promised!Key(a[1])}))
  BY <1>1, <1>2, SameCardinality DEF Promised!Refused
<1>6. Gained(op, v, a) = <<>>
  BY DEF Gained
<1>7. CASE a[1] = Nil
  <2>1. Mutate(m, op, h, a) = Error("INVALID_MAP_KEY")
    BY <1>4, <1>7 DEF Guarded, KeyError, NoError
  <2> QED
    BY <1>5, <1>7, <2>1 DEF Mutated, Does, v
<1>8. CASE a[1] # Nil
  <2>1. Promised!Key(a[1]) = key /\ key \in Elements /\ key \notin {Nil, NegativeZero}
    BY <1>3, <1>8, KeyIs
  <2>2. refused = Promised!Fit(Cardinality(DOMAIN UnderKeys(e) \cup {key}))
    BY <1>5, <1>8, <2>1
  <2>3. made = [kind |-> "map",
                order |-> IF key \in DOMAIN UnderKeys(e) THEN Keys(e) ELSE Append(Keys(e), key), under |-> under]
    BY <1>1, <1>2, <2>1 DEF Promised!Made
  <2>4. (found = {}) <=> key \notin DOMAIN UnderKeys(e)
    BY <1>1, DirectoryFind
  <2>5. Mutate(m, op, h, a) =
          IF found = {} THEN Guarded(LimitError(h.size + 1), ReplaceMap(m, h, Append(e, [key |-> key, value |-> x])))
          ELSE ReplaceMap(m, h, [i \in DOMAIN e |-> IF i \in found THEN [e[i] EXCEPT !.value = x] ELSE e[i]])
    BY <1>4, <1>8 DEF Guarded, KeyError, NoError
  <2>6. Cardinality(DOMAIN UnderKeys(e)) = h.size /\ IsFiniteSet(DOMAIN UnderKeys(e))
    <3>1. Cardinality(DOMAIN UnderKeys(e)) = h.size
      BY <1>1, DirectorySize
    <3>2. IsFiniteSet(DOMAIN UnderKeys(e))
      <4>1. DOMAIN UnderKeys(e) = {e[i].key : i \in 1..Len(e)} /\ Len(e) \in Nat
        BY <1>1, DirectoryUnder
      <4>2. IsFiniteSet(1..Len(e))
        BY <4>1, FS_Interval
      <4> DEFINE f == [i \in 1..Len(e) |-> e[i].key]
      <4>3. f \in Surjection(1..Len(e), DOMAIN UnderKeys(e))
        BY <4>1 DEF Surjection
      <4> QED
        BY <4>2, <4>3, FS_Surjection
    <3> QED
      BY <3>1, <3>2
  <2> HIDE DEF refused, made, key, x, found
  <2>7. CASE found = {}
    <3> DEFINE after == Append(e, [key |-> key, value |-> x])
    <3>1. key \notin DOMAIN UnderKeys(e) /\ x \in Elements
      BY <1>3, <2>4, <2>7 DEF x
    <3>2. after \in Directory /\ Len(after) = Len(e) + 1 /\ Keys(after) = Append(Keys(e), key) /\ UnderKeys(after) = under
      BY <1>1, <2>1, <3>1, DirectoryAdd
    <3>3. Cardinality(DOMAIN UnderKeys(e) \cup {key}) = h.size + 1
      BY <2>6, <3>1, FS_AddElement
    <3> HIDE DEF after, under
    <3>4. h.size + 1 <= MaxElements =>
            Gave(m, ReplaceMap(m, h, after), "map", [kind |-> "map", order |-> Keys(after), under |-> UnderKeys(after)], <<>>)
      BY <1>1, <3>2, ReplaceMapGave
    <3>5. made = [kind |-> "map", order |-> Keys(after), under |-> UnderKeys(after)]
      BY <2>3, <3>1, <3>2
    <3>6. Mutate(m, op, h, a) = Guarded(LimitError(h.size + 1), ReplaceMap(m, h, after))
      BY <2>5, <2>7 DEF after
    <3>7. refused = Promised!Fit(h.size + 1)
      BY <2>2, <3>3
    <3>8. h.size + 1 \in Int /\ MaxElements \in Int
      BY <1>1 DEF CollectionsAssumption
    <3>9. Does(m, Mutate(m, op, h, a), "map", refused, made, <<>>)
      BY <3>4, <3>5, <3>6, <3>7, <3>8 DEF Does, Guarded, LimitError, NoError, Promised!Fit
    <3> QED
      BY <1>6, <3>9 DEF Mutated, v, refused, made
  <2>8. CASE found # {}
    <3>1. PICK at \in found : TRUE
      BY <2>8
    <3>2. at \in 1..Len(e) /\ e[at].key = key /\ found = {at}
      BY <1>1, <3>1, DirectoryFind DEF found, key
    <3> DEFINE after == [i \in DOMAIN e |-> IF i \in found THEN [e[i] EXCEPT !.value = x] ELSE e[i]]
    <3>3. x \in Elements
      BY <1>3 DEF x
    <3>4. after \in Directory /\ Len(after) = Len(e) /\ Keys(after) = Keys(e) /\ UnderKeys(after) = under
      <4>1. after = [i \in DOMAIN e |-> IF i \in {at} THEN [e[i] EXCEPT !.value = x] ELSE e[i]]
        BY <3>2
      <4>2. under = [y \in DOMAIN UnderKeys(e) \cup {e[at].key} |-> IF y = e[at].key THEN x ELSE UnderKeys(e)[y]]
        BY <3>2
      <4> HIDE DEF after, under
      <4> QED
        BY <1>1, <3>2, <3>3, <4>1, <4>2, DirectoryPut, ZenonT(40)
    <3>5. key \in DOMAIN UnderKeys(e)
      BY <2>4, <2>8
    <3>6. Cardinality(DOMAIN UnderKeys(e) \cup {key}) = h.size
      BY <2>6, <3>5, FS_AddElement
    <3> HIDE DEF after, under
    <3>7. Gave(m, ReplaceMap(m, h, after), "map", [kind |-> "map", order |-> Keys(after), under |-> UnderKeys(after)], <<>>)
      BY <1>1, <3>4, ReplaceMapGave
    <3>8. made = [kind |-> "map", order |-> Keys(after), under |-> UnderKeys(after)]
      BY <2>3, <3>4, <3>5
    <3>9. Mutate(m, op, h, a) = ReplaceMap(m, h, after)
      BY <2>5, <2>8 DEF after
    <3>10. refused = "ok"
      BY <1>1, <2>2, <3>6 DEF Promised!Fit, CollectionsAssumption
    <3> QED
      BY <1>6, <3>7, <3>8, <3>9, <3>10 DEF Mutated, Does, v, refused, made
  <2> QED
    BY <2>7, <2>8
<1> QED
  BY <1>7, <1>8

(* A key that is removed leaves the others in their order.                 *)
LEMMA MapRemoves ==
  ASSUME CollectionsAssumption, NEW m \in Memories, NEW h, Sound(m, "map", h), NEW a, Suits("map.remove", a)
  PROVE  Mutated(m, "map.remove", h, a, "map")
<1> DEFINE op == "map.remove"
           e == m.blocks[h.storage]
           v == Meaning(m, h)
           refused == Promised!Refused(op, v, a)
           made == Promised!Made(op, v, a)
           key == CanonicalKey(a[1])
           found == Find(e, a[1])
           at == CHOOSE i \in found : TRUE
           under == [y \in DOMAIN UnderKeys(e) \ {key} |-> UnderKeys(e)[y]]
<1>1. /\ e \in Directory /\ h.size = Len(e) /\ h.size \in Nat /\ h.size <= MaxElements
      /\ v = [kind |-> "map", order |-> Keys(e), under |-> UnderKeys(e)] /\ v # Nil
      /\ h # Nil /\ h.kind = "map" /\ ReceiverError(m, h) = NoError
  BY SoundMap
<1>2. v.under = UnderKeys(e) /\ v.order = Keys(e)
  BY <1>1
<1>3. a[1] \in Elements
  BY DEF Suits
<1> HIDE DEF e, v
<1>4. Mutate(m, op, h, a) =
        Guarded(KeyError(a[1]),
          IF found = {} THEN Gives(m, h, <<Nil>>)
          ELSE WithResult(ReplaceMap(m, h, RemoveAt(e, at)), e[at].value))
  BY <1>1 DEF Mutate, MapMutate, Receiving, Guarded, e
<1>5. refused = IF a[1] = Nil THEN "INVALID_MAP_KEY" ELSE "ok"
  BY <1>1, <1>2 DEF Promised!Refused
<1>6. Gained(op, v, a) = <<IF Promised!Key(a[1]) \in DOMAIN UnderKeys(e) THEN UnderKeys(e)[Promised!Key(a[1])] ELSE Nil>>
  BY <1>2 DEF Gained
<1>7. CASE a[1] = Nil
  <2>1. Mutate(m, op, h, a) = Error("INVALID_MAP_KEY")
    BY <1>4, <1>7 DEF Guarded, KeyError, NoError
  <2> QED
    BY <1>5, <1>7, <2>1 DEF Mutated, Does, v
<1>8. CASE a[1] # Nil
  <2>1. Promised!Key(a[1]) = key /\ key \in Elements /\ key \notin {Nil, NegativeZero}
    BY <1>3, <1>8, KeyIs
  <2>2. refused = "ok"
    BY <1>5, <1>8
  <2>3. made = [kind |-> "map", order |-> Promised!Without(Keys(e), {key}), under |-> under]
    BY <1>1, <1>2, <2>1 DEF Promised!Made
  <2>4. (found = {}) <=> key \notin DOMAIN UnderKeys(e)
    BY <1>1, DirectoryFind
  <2>5. Mutate(m, op, h, a) = IF found = {} THEN Gives(m, h, <<Nil>>)
                              ELSE WithResult(ReplaceMap(m, h, RemoveAt(e, at)), e[at].value)
    BY <1>4, <1>8 DEF Guarded, KeyError, NoError
  <2> HIDE DEF refused, made, key, found
  <2>6. CASE found = {}
    <3>1. key \notin DOMAIN UnderKeys(e)
      BY <2>4, <2>6
    <3>2. Promised!Without(Keys(e), {key}) = Keys(e)
      <4>1. \A i \in 1..Len(Keys(e)) : Keys(e)[i] \notin {key}
        <5> SUFFICES ASSUME NEW i \in 1..Len(e) PROVE Keys(e)[i] \notin {key}
          BY <1>1, KeysIs
        <5>1. Keys(e)[i] = e[i].key
          BY <1>1, KeysIs
        <5>2. e[i].key \in DOMAIN UnderKeys(e)
          BY <1>1, DirectoryUnder
        <5> QED
          BY <3>1, <5>1, <5>2
      <4>2. Keys(e) \in Seq(Elements)
        BY <1>1, KeysIs
      <4> DEFINE gone == {key}
                 keys == Keys(e)
      <4> HIDE DEF gone, keys
      <4>3. Promised!Without(keys, gone) = keys
        BY <4>1, <4>2, WithoutNone DEF gone, keys
      <4> QED
        BY <4>3 DEF gone, keys
    <3>3. under = UnderKeys(e)
      <4>1. DOMAIN UnderKeys(e) \ {key} = DOMAIN UnderKeys(e)
        BY <3>1
      <4> QED
        BY <4>1 DEF UnderKeys
    <3> HIDE DEF under
    <3>4. made = v
      BY <1>1, <2>3, <3>2, <3>3
    <3>5. Gave(m, Gives(m, h, <<Nil>>), "map", v, <<Nil>>)
      <4>1. Grown(m, m)
        BY DEF Grown
      <4>2. h \in HeaderValues
        BY SoundIsHeader DEF Kinds
      <4> QED
        BY <4>1, <4>2 DEF Gave, v
    <3>6. Gained(op, v, a) = <<Nil>>
      BY <1>6, <2>1, <3>1
    <3>7. Mutate(m, op, h, a) = Gives(m, h, <<Nil>>)
      BY <2>5, <2>6
    <3> QED
      BY <2>2, <3>4, <3>5, <3>6, <3>7 DEF Mutated, Does, v, refused, made
  <2>7. CASE found # {}
    <3>1. at \in found
      BY <2>7
    <3> HIDE DEF at
    <3>2. at \in 1..Len(e) /\ e[at].key = key /\ UnderKeys(e)[key] = e[at].value
      BY <1>1, <3>1, DirectoryFind DEF found, key
    <3> DEFINE after == RemoveAt(e, at)
    <3>3. /\ after \in Directory /\ Len(after) = Len(e) - 1
          /\ Keys(after) = Promised!Without(Keys(e), {key}) /\ UnderKeys(after) = under
      BY <1>1, <3>2, DirectoryRemove
    <3> HIDE DEF after, under
    <3>4. Len(after) <= MaxElements
      BY <1>1, <3>3 DEF CollectionsAssumption
    <3>5. Gave(m, ReplaceMap(m, h, after), "map", [kind |-> "map", order |-> Keys(after), under |-> UnderKeys(after)], <<>>)
      BY <3>3, <3>4, ReplaceMapGave
    <3>6. made = [kind |-> "map", order |-> Keys(after), under |-> UnderKeys(after)]
      BY <2>3, <3>3
    <3>7. Gave(m, WithResult(ReplaceMap(m, h, after), e[at].value), "map", made, <<e[at].value>>)
      BY <3>5, <3>6, GaveWithResult
    <3>8. Mutate(m, op, h, a) = WithResult(ReplaceMap(m, h, after), e[at].value)
      BY <2>5, <2>7 DEF after
    <3>9. Gained(op, v, a) = <<e[at].value>>
      BY <1>6, <2>1, <2>4, <2>7, <3>2
    <3> QED
      BY <2>2, <3>7, <3>8, <3>9 DEF Mutated, Does, v, refused, made
  <2> QED
    BY <2>6, <2>7
<1> QED
  BY <1>7, <1>8

LEMMA MapMutates ==
  ASSUME CollectionsAssumption, NEW m \in Memories, NEW h, Sound(m, "map", h), NEW op, NEW a,
         <<"map", op>> \in Changes, Suits(op, a)
  PROVE  Mutated(m, op, h, a, "map")
<1>1. CASE op = "map.put"
  BY <1>1, MapPuts
<1>2. CASE op = "map.remove"
  BY <1>2, MapRemoves
<1>3. CASE op = "map.clear"
  <2> DEFINE v == Meaning(m, h)
             empty == <<>>
  <2>1. v # Nil /\ h # Nil /\ h.kind = "map" /\ ReceiverError(m, h) = NoError
    BY SoundMap
  <2>2. /\ Promised!Refused(op, v, a) = "ok" /\ Gained(op, v, a) = <<>>
        /\ Promised!Made(op, v, a) = [kind |-> "map", order |-> <<>>, under |-> [x \in {} |-> Nil]]
    BY <1>3, <2>1 DEF Promised!Refused, Promised!Made, Gained
  <2>3. Mutate(m, op, h, a) = ReplaceMap(m, h, <<>>)
    BY <1>3, <2>1 DEF Mutate, MapMutate, Receiving, Guarded
  <2>4. empty \in Directory /\ Len(empty) <= MaxElements
    BY DEF Directory, CollectionsAssumption
  <2>5. Keys(empty) = <<>> /\ UnderKeys(empty) = [x \in {} |-> Nil]
    BY DEF Keys, UnderKeys
  <2> HIDE DEF empty
  <2>6. Gave(m, ReplaceMap(m, h, empty), "map", [kind |-> "map", order |-> Keys(empty), under |-> UnderKeys(empty)], <<>>)
    BY <2>4, ReplaceMapGave
  <2>7. Gave(m, ReplaceMap(m, h, <<>>), "map", [kind |-> "map", order |-> <<>>, under |-> [x \in {} |-> Nil]], <<>>)
    BY <2>5, <2>6 DEF empty
  <2> QED
    BY <2>2, <2>3, <2>7 DEF Mutated, Does
<1> QED
  BY <1>1, <1>2, <1>3 DEF Changes

(* Setting one element, in the storage and in its rectangle.               *)
IsSet(rows, columns, e, after, i, j, x) ==
  /\ rows \in Nat /\ columns \in Nat /\ e \in Seq(Elements) /\ Len(e) = rows * columns
  /\ i \in 1..rows /\ j \in 1..columns /\ x \in Elements
  /\ after = [e EXCEPT ![Spot(columns, i, j)] = x]

LEMMA RectangleSet ==
  ASSUME NEW rows, NEW columns, NEW e, NEW i, NEW j, NEW x, NEW after, IsSet(rows, columns, e, after, i, j, x)
  PROVE  Rectangle(rows, columns, after) = [Rectangle(rows, columns, e) EXCEPT ![i][j] = x]
<1> DEFINE at == Spot(columns, i, j)
           e2 == after
           changed == [Rectangle(rows, columns, e) EXCEPT ![i][j] = x]
           r == Rectangle(rows, columns, e)
           r2 == Rectangle(rows, columns, e2)
<1>0. changed = [r EXCEPT ![i][j] = x]
  OBVIOUS
<1>a. /\ rows \in Nat /\ columns \in Nat /\ e \in Seq(Elements) /\ Len(e) = rows * columns
      /\ i \in 1..rows /\ j \in 1..columns /\ x \in Elements /\ e2 = [e EXCEPT ![at] = x]
  BY DEF IsSet
<1> HIDE DEF e2
<1>1. at \in 1..Len(e)
  BY <1>a, CellWithin
<1>2. ASSUME NEW i2 \in 1..rows, NEW j2 \in 1..columns
      PROVE  e2[Spot(columns, i2, j2)] = IF i2 = i /\ j2 = j THEN x ELSE e[Spot(columns, i2, j2)]
  <2> DEFINE there == Spot(columns, i2, j2)
  <2>1. there \in 1..Len(e)
    BY <1>a, CellWithin
  <2>2. there = at => i2 = i /\ j2 = j
    BY <1>a, CellApart
  <2>3. i2 = i /\ j2 = j => there = at
    OBVIOUS
  <2>4. DOMAIN e = 1..Len(e)
    BY <1>a
  <2> HIDE DEF there, at
  <2>5. e2[there] = IF there = at THEN x ELSE e[there]
    BY <1>a, <2>1, <2>4
  <2> QED
    BY <2>2, <2>3, <2>5 DEF there
<1>3. /\ r = [i2 \in 1..rows |-> [j2 \in 1..columns |-> e[Spot(columns, i2, j2)]]]
      /\ r2 = [i2 \in 1..rows |-> [j2 \in 1..columns |-> e2[Spot(columns, i2, j2)]]]
  BY DEF Rectangle
<1> HIDE DEF r, r2, at
<1>4. changed = [i2 \in 1..rows |-> [j2 \in 1..columns |->
                   IF i2 = i /\ j2 = j THEN x ELSE e[Spot(columns, i2, j2)]]]
  <2>1. changed = [i2 \in 1..rows |-> IF i2 = i THEN [r[i] EXCEPT ![j] = x] ELSE r[i2]]
    BY <1>a, <1>0, <1>3
  <2>2. [r[i] EXCEPT ![j] = x] = [j2 \in 1..columns |-> IF j2 = j THEN x ELSE e[Spot(columns, i, j2)]]
    BY <1>a, <1>3
  <2>3. \A i2 \in 1..rows : (IF i2 = i THEN [r[i] EXCEPT ![j] = x] ELSE r[i2]) =
          [j2 \in 1..columns |-> IF i2 = i /\ j2 = j THEN x ELSE e[Spot(columns, i2, j2)]]
    BY <1>3, <2>2
  <2> QED
    BY <2>1, <2>3
<1>5. r2 = [i2 \in 1..rows |-> [j2 \in 1..columns |->
              IF i2 = i /\ j2 = j THEN x ELSE e[Spot(columns, i2, j2)]]]
  BY <1>2, <1>3
<1>6. r2 = changed
  BY <1>4, <1>5
<1> QED
  BY <1>6 DEF r, r2, e2, at

LEMMA ReplaceMatrixGave ==
  ASSUME CollectionsAssumption, NEW m \in Memories, NEW h, Sound(m, "matrix", h),
         NEW elements \in Seq(Elements), Len(elements) = h.rows * h.columns
  PROVE  Gave(m, ReplaceMatrix(m, h, elements), "matrix",
              [kind |-> "matrix", rows |-> h.rows, columns |-> h.columns,
               at |-> Rectangle(h.rows, h.columns, elements)], <<>>)
<1>1. h \in [kind : {"matrix"}, storage : Refs \cup {Nil}, rows : Nat, columns : Nat]
  BY SoundMatrix
<1> QED
  BY <1>1, GaveMatrix DEF ReplaceMatrix

LEMMA MatrixMutates ==
  ASSUME CollectionsAssumption, NEW m \in Memories, NEW h, Sound(m, "matrix", h), NEW op, NEW a,
         <<"matrix", op>> \in Changes, Suits(op, a)
  PROVE  Mutated(m, op, h, a, "matrix")
<1> DEFINE e == m.blocks[h.storage]
           v == Meaning(m, h)
           rect == Rectangle(h.rows, h.columns, e)
           refused == Promised!Refused(op, v, a)
           made == Promised!Made(op, v, a)
<1>1. /\ e \in Seq(Elements) /\ h.rows * h.columns = Len(e) /\ h.rows \in Nat /\ h.columns \in Nat
      /\ v = [kind |-> "matrix", rows |-> h.rows, columns |-> h.columns, at |-> rect]
      /\ v # Nil /\ h # Nil /\ h.kind = "matrix" /\ ReceiverError(m, h) = NoError
  BY SoundMatrix
<1>2. v.rows = h.rows /\ v.columns = h.columns /\ v.at = rect
  BY <1>1
<1> HIDE DEF e, v
<1>3. Mutate(m, op, h, a) = MatrixMutate(m, op, h, a)
  BY <1>1 DEF Mutate
<1>4. CASE op = "matrix.set"
  <2> DEFINE c == CellAt(h, a[1], a[2])
             x == a[3]
             after == [e EXCEPT ![c] = x]
  <2>1. WholeOrNil(a[1]) /\ WholeOrNil(a[2]) /\ x \in Elements
    <3>1. a \in Seq(Elements) /\ Len(a) = 3
      BY <1>4 DEF Suits
    <3>2. WholeOrNil(a[1]) /\ WholeOrNil(a[2])
      BY <1>4 DEF Suits
    <3>3. a[3] \in Elements
      BY <3>1
    <3> QED
      BY <3>2, <3>3
  <2>2. refused = Promised!First(Promised!Index(a[1], h.rows), Promised!Index(a[2], h.columns))
    BY <1>1, <1>2, <1>4 DEF Promised!Refused
  <2>3. Mutate(m, op, h, a) =
          Guarded(IndexError(a[1], h.rows), Guarded(IndexError(a[2], h.columns), ReplaceMatrix(m, h, after)))
    BY <1>1, <1>3, <1>4 DEF MatrixMutate, Receiving, Guarded, e
  <2>4. made = [v EXCEPT !.at[a[1] + 1][a[2] + 1] = x] /\ Gained(op, v, a) = <<>>
    BY <1>4 DEF Promised!Made, Gained
  <2>5. refused # "ok" => Mutate(m, op, h, a) = Error(refused)
    BY <2>1, <2>2, <2>3, <1>1, IndexErrorIs DEF Promised!First, Guarded
  <2>6. ASSUME refused = "ok"
        PROVE  Gave(m, Mutate(m, op, h, a), "matrix", made, <<>>)
    <3>1. Promised!Index(a[1], h.rows) = "ok" /\ Promised!Index(a[2], h.columns) = "ok"
      BY <2>2, <2>6 DEF Promised!First
    <3>2. /\ IndexError(a[1], h.rows) = NoError /\ a[1] \in 0..h.rows - 1
          /\ IndexError(a[2], h.columns) = NoError /\ a[2] \in 0..h.columns - 1
      BY <2>1, <3>1, <1>1, IndexErrorIs
    <3> DEFINE i == a[1] + 1
               j == a[2] + 1
    <3>3. i \in 1..h.rows /\ j \in 1..h.columns
      BY <3>2, <1>1
    <3>4. Spot(h.columns, i, j) = c
      <4>1. (a[1] + 1) - 1 = a[1] /\ (a[2] + 1) - 1 = a[2]
        BY <3>2
      <4> QED
        BY <4>1 DEF CellAt, Spot
    <3>5. made = [kind |-> "matrix", rows |-> h.rows, columns |-> h.columns, at |-> [rect EXCEPT ![i][j] = x]]
      <4> HIDE DEF rect
      <4> QED
        BY <1>1, <2>4
    <3>6. Mutate(m, op, h, a) = ReplaceMatrix(m, h, after)
      BY <2>3, <3>2 DEF Guarded
    <3> HIDE DEF i, j, c, x
    <3>7. after \in Seq(Elements) /\ Len(after) = Len(e)
      BY <1>1, <2>1, ExceptIs
    <3>8. Rectangle(h.rows, h.columns, after) = [rect EXCEPT ![i][j] = x]
      <4>1. Rectangle(h.rows, h.columns, after) = [rect EXCEPT ![i][j] = x]
        <5> DEFINE rows == h.rows
                   columns == h.columns
        <5>1. IsSet(rows, columns, e, after, i, j, x)
          BY <1>1, <2>1, <3>3, <3>4 DEF IsSet
        <5> HIDE DEF rows, columns, after
        <5>2. Rectangle(rows, columns, after) = [Rectangle(rows, columns, e) EXCEPT ![i][j] = x]
          BY <5>1, RectangleSet
        <5> QED
          BY <5>2 DEF rows, columns
      <4> QED
        BY <3>4, <4>1
    <3> HIDE DEF after, made, rect
    <3>9. Gave(m, ReplaceMatrix(m, h, after), "matrix",
               [kind |-> "matrix", rows |-> h.rows, columns |-> h.columns,
                at |-> Rectangle(h.rows, h.columns, after)], <<>>)
      BY <1>1, <3>7, ReplaceMatrixGave
    <3> QED
      BY <3>5, <3>6, <3>8, <3>9
  <2> HIDE DEF refused, made
  <2> QED
    BY <2>4, <2>5, <2>6 DEF Mutated, Does, v, refused, made
<1>5. CASE op = "matrix.fill"
  <2> DEFINE x == a[1]
             after == [i \in DOMAIN e |-> x]
             all == [i \in 1..h.rows |-> [j \in 1..h.columns |-> x]]
  <2>1. x \in Elements
    BY <1>5 DEF Suits
  <2>2. refused = "ok" /\ Gained(op, v, a) = <<>>
    BY <1>1, <1>5 DEF Promised!Refused, Gained
  <2>3. made = [v EXCEPT !.at = all]
    BY <1>2, <1>5 DEF Promised!Made
  <2>4. Mutate(m, op, h, a) = ReplaceMatrix(m, h, after)
    BY <1>1, <1>3, <1>5 DEF MatrixMutate, Receiving, Guarded, e
  <2> HIDE DEF x
  <2>5. after = [i \in 1..Len(e) |-> x] /\ Len(e) \in Nat
    BY <1>1
  <2>6. after \in Seq(Elements) /\ Len(after) = Len(e) /\ \A i \in 1..Len(e) : after[i] = x
    BY <2>1, <2>5
  <2> HIDE DEF after, rect
  <2>7. Rectangle(h.rows, h.columns, after) = all
    <3>1. \A i \in 1..h.rows, j \in 1..h.columns : Spot(h.columns, i, j) \in 1..h.rows * h.columns
      BY <1>1, CellWithin
    <3> QED
      BY <1>1, <2>6, <3>1 DEF Rectangle
  <2>8. made = [kind |-> "matrix", rows |-> h.rows, columns |-> h.columns, at |-> all]
    BY <1>1, <2>3
  <2> HIDE DEF all, made, refused
  <2>9. Gave(m, ReplaceMatrix(m, h, after), "matrix",
             [kind |-> "matrix", rows |-> h.rows, columns |-> h.columns,
              at |-> Rectangle(h.rows, h.columns, after)], <<>>)
    BY <1>1, <2>6, ReplaceMatrixGave
  <2> QED
    BY <2>2, <2>4, <2>7, <2>8, <2>9 DEF Mutated, Does, v, made, refused
<1> QED
  BY <1>4, <1>5 DEF Changes

(* A mutator of any kind does to what its receiver means what is promised. *)
LEMMA MutateDoes ==
  ASSUME CollectionsAssumption, NEW m \in Memories, NEW k \in Kinds, NEW h, Good(m, k, h), NEW op, NEW a,
         <<k, op>> \in Changes, Suits(op, a)
  PROVE  Mutated(m, op, h, a, k)
<1>1. CASE h = Nil
  BY <1>1 DEF Mutated, Does, Mutate, Meaning, Promised!Refused
<1>2. CASE Sound(m, k, h)
  BY <1>2, ArrayMutates, MapMutates, MatrixMutates DEF Kinds
<1> QED
  BY <1>1, <1>2 DEF Good

-----------------------------------------------------------------------------
(* What the names and the fields hold is sound, of the kind they have, and *)
(* a field that holds something is of a struct some owner holds.           *)
Typed(types, m) ==
  /\ m \in Memories
  /\ \A n \in Names : Good(m, types.names[n], m.names[n])
  /\ \A b \in Structs : m.fields[b] # Free => Good(m, types.field, m.fields[b])
  /\ \A s \in Owners : m.owners[s] # Nil => m.fields[m.owners[s]] # Free
Tidy(m) == \A b \in Structs : m.fields[b] # Free => \E s \in Owners : m.owners[s] = b

ContentOf(m) == [n \in Names |-> Meaning(m, m.names[n])]
FieldsOf(m) == [b \in Structs |-> IF m.fields[b] = Free THEN Free ELSE Meaning(m, m.fields[b])]

LEMMA TypesAre ==
  ASSUME NEW types \in Typings
  PROVE  types.field \in Kinds /\ \A n \in Names : types.names[n] \in Kinds
  BY DEF Typings

LEMMA SameBlocks ==
  ASSUME NEW m, NEW m2, m2.blocks = m.blocks, NEW k, NEW h
  PROVE  (Good(m, k, h) => Good(m2, k, h)) /\ Meaning(m2, h) = Meaning(m, h)
  BY DEF Good, Sound, Meaning

LEMMA GoodIs ==
  ASSUME CollectionsAssumption, NEW m, NEW k \in Kinds, NEW h, Good(m, k, h)
  PROVE  h \in HeaderValues \cup {Nil} /\ h # Free
  BY SoundIsHeader DEF Good, CollectionsAssumption

(* An allocation changes nothing of what is held.                          *)
LEMMA GrownTyped ==
  ASSUME CollectionsAssumption, NEW types \in Typings, NEW m, Typed(types, m), NEW m2, Grown(m, m2)
  PROVE  /\ Typed(types, m2) /\ (Tidy(m) => Tidy(m2))
         /\ ContentOf(m2) = ContentOf(m) /\ FieldsOf(m2) = FieldsOf(m) /\ m2.owners = m.owners
<1>1. m \in Memories /\ m2 \in Memories /\ m2.names = m.names /\ m2.owners = m.owners /\ m2.fields = m.fields
  BY DEF Typed, Grown
<1>2. \A n \in Names : Good(m2, types.names[n], m2.names[n]) /\ Meaning(m2, m2.names[n]) = Meaning(m, m.names[n])
  BY <1>1, TypesAre, GrownKeeps DEF Typed
<1>3. \A b \in Structs : m.fields[b] # Free =>
        Good(m2, types.field, m2.fields[b]) /\ Meaning(m2, m2.fields[b]) = Meaning(m, m.fields[b])
  BY <1>1, TypesAre, GrownKeeps DEF Typed
<1>4. Typed(types, m2)
  BY <1>1, <1>2, <1>3 DEF Typed
<1>5. ContentOf(m2) = ContentOf(m)
  BY <1>2 DEF ContentOf
<1>6. FieldsOf(m2) = FieldsOf(m)
  BY <1>1, <1>3 DEF FieldsOf
<1> QED
  BY <1>1, <1>4, <1>5, <1>6 DEF Tidy

(* A store changes what one name or one field means.                       *)
Targets(m) == ({"name"} \X Names) \cup {<<"body", b>> : b \in {x \in Structs : m.fields[x] # Free}}
KindAt(types, target) == IF target[1] = "name" THEN types.names[target[2]] ELSE types.field

(* To store a header of the kind of a place changes what that place means, *)
(* and nothing else.                                                       *)
LEMMA StoreTyped ==
  ASSUME CollectionsAssumption, NEW types \in Typings, NEW m, Typed(types, m), NEW target \in Targets(m),
         NEW h, Good(m, KindAt(types, target), h)
  PROVE  LET m2 == StoreTo(m, target, h) IN
         /\ Typed(types, m2) /\ (Tidy(m) => Tidy(m2)) /\ m2.owners = m.owners /\ m2.blocks = m.blocks
         /\ target[1] = "name" => /\ ContentOf(m2) = [ContentOf(m) EXCEPT ![target[2]] = Meaning(m, h)]
                                  /\ FieldsOf(m2) = FieldsOf(m)
         /\ target[1] # "name" => /\ ContentOf(m2) = ContentOf(m)
                                  /\ FieldsOf(m2) = [FieldsOf(m) EXCEPT ![target[2]] = Meaning(m, h)]
<1> DEFINE m2 == StoreTo(m, target, h)
<1>1. m \in Memories
  BY DEF Typed
<1>2. CASE target[1] = "name"
  <2>1. PICK n \in Names : target = <<"name", n>>
    BY <1>2 DEF Targets
  <2>2. m2 = [m EXCEPT !.names[n] = h]
    BY <2>1 DEF StoreTo
  <2>3. Good(m, types.names[n], h) /\ types.names[n] \in Kinds
    BY <2>1, TypesAre DEF KindAt
  <2>4. h \in HeaderValues \cup {Nil}
    BY <2>3, GoodIs
  <2>5. /\ m2 \in Memories /\ m2.blocks = m.blocks /\ m2.owners = m.owners /\ m2.fields = m.fields
        /\ m2.names = [m.names EXCEPT ![n] = h]
    BY <1>1, <2>2, <2>4 DEF Memories
  <2>6. \A y \in Names : m2.names[y] = IF y = n THEN h ELSE m.names[y]
    BY <1>1, <2>5 DEF Memories
  <2> HIDE DEF m2
  <2>7. \A y \in Names : Good(m2, types.names[y], m2.names[y])
    BY <2>3, <2>5, <2>6, SameBlocks DEF Typed
  <2>8. \A b \in Structs : m2.fields[b] # Free => Good(m2, types.field, m2.fields[b])
    BY <2>5, SameBlocks DEF Typed
  <2>9. Typed(types, m2)
    BY <2>5, <2>7, <2>8 DEF Typed
  <2>10. ContentOf(m2) = [ContentOf(m) EXCEPT ![n] = Meaning(m, h)]
    <3>1. \A y \in Names : Meaning(m2, m2.names[y]) = IF y = n THEN Meaning(m, h) ELSE Meaning(m, m.names[y])
      BY <2>5, <2>6, SameBlocks
    <3>2. ContentOf(m2) = [y \in Names |-> IF y = n THEN Meaning(m, h) ELSE Meaning(m, m.names[y])]
      BY <3>1 DEF ContentOf
    <3> QED
      BY <3>2 DEF ContentOf
  <2>11. FieldsOf(m2) = FieldsOf(m)
    BY <2>5, SameBlocks DEF FieldsOf
  <2>12. Tidy(m) => Tidy(m2)
    BY <2>5 DEF Tidy
  <2> QED
    BY <2>1, <2>5, <2>9, <2>10, <2>11, <2>12, <1>2 DEF m2
<1>3. CASE target[1] # "name"
  <2>1. PICK b \in Structs : target = <<"body", b>> /\ m.fields[b] # Free
    BY <1>3 DEF Targets
  <2>2. m2 = [m EXCEPT !.fields[b] = h]
    BY <2>1 DEF StoreTo
  <2>3. Good(m, types.field, h) /\ types.field \in Kinds
    BY <2>1, TypesAre DEF KindAt
  <2>4. h \in HeaderValues \cup {Nil} /\ h # Free
    BY <2>3, GoodIs
  <2>5. /\ m2 \in Memories /\ m2.blocks = m.blocks /\ m2.owners = m.owners /\ m2.names = m.names
        /\ m2.fields = [m.fields EXCEPT ![b] = h]
    BY <1>1, <2>2, <2>4 DEF Memories
  <2>6. \A y \in Structs : m2.fields[y] = IF y = b THEN h ELSE m.fields[y]
    BY <1>1, <2>5 DEF Memories
  <2> HIDE DEF m2
  <2>7. \A y \in Names : Good(m2, types.names[y], m2.names[y])
    BY <2>5, SameBlocks DEF Typed
  <2>8. \A y \in Structs : m2.fields[y] # Free => Good(m2, types.field, m2.fields[y])
    BY <2>3, <2>5, <2>6, SameBlocks DEF Typed
  <2>9. \A s \in Owners : m2.owners[s] # Nil => m2.fields[m2.owners[s]] # Free
    <3> SUFFICES ASSUME NEW s \in Owners, m.owners[s] # Nil PROVE m2.fields[m.owners[s]] # Free
      BY <2>5
    <3>1. m.owners[s] \in Structs /\ m.fields[m.owners[s]] # Free
      BY <1>1 DEF Memories, Typed
    <3> QED
      BY <2>4, <2>6, <3>1
  <2>10. Typed(types, m2)
    BY <2>5, <2>7, <2>8, <2>9 DEF Typed
  <2>11. ContentOf(m2) = ContentOf(m)
    BY <2>5, SameBlocks DEF ContentOf
  <2>12. FieldsOf(m2) = [FieldsOf(m) EXCEPT ![b] = Meaning(m, h)]
    <3>1. \A y \in Structs : (IF m2.fields[y] = Free THEN Free ELSE Meaning(m2, m2.fields[y])) =
            IF y = b THEN Meaning(m, h) ELSE IF m.fields[y] = Free THEN Free ELSE Meaning(m, m.fields[y])
      BY <2>1, <2>4, <2>5, <2>6, SameBlocks
    <3>2. FieldsOf(m2) = [y \in Structs |->
            IF y = b THEN Meaning(m, h) ELSE IF m.fields[y] = Free THEN Free ELSE Meaning(m, m.fields[y])]
      BY <3>1 DEF FieldsOf
    <3> QED
      BY <3>2 DEF FieldsOf
  <2>13. Tidy(m) => Tidy(m2)
    BY <2>1, <2>5, <2>6 DEF Tidy
  <2> QED
    BY <2>1, <2>5, <2>10, <2>11, <2>12, <2>13, <1>3 DEF m2
<1> QED
  BY <1>2, <1>3

(* At the end of a step nothing goes that a name can still reach.          *)
LEMMA CollectedTyped ==
  ASSUME CollectionsAssumption, NEW types \in Typings, NEW m, Typed(types, m)
  PROVE  LET m2 == Collected(m) IN
         /\ Typed(types, m2) /\ Tidy(m2) /\ m2.owners = m.owners
         /\ ContentOf(m2) = ContentOf(m) /\ FieldsOf(m2) = Promised!Kept(m.owners, FieldsOf(m))
<1> DEFINE m2 == Collected(m)
           keeps(r) == \E h \in Headers(m) : h.storage = r
<1>1. m \in Memories
  BY DEF Typed
<1>2. /\ m2.owners = m.owners /\ m2.names = m.names
      /\ m2.blocks = [r \in Refs |-> IF keeps(r) THEN m.blocks[r] ELSE Free]
      /\ m2.fields = [b \in Structs |-> IF b \in Reached(m) THEN m.fields[b] ELSE Free]
      /\ m2 \in Memories
  BY <1>1 DEF Collected, Memories
<1>3. ASSUME NEW k \in Kinds, NEW h, Good(m, k, h), h # Nil => h \in Headers(m)
      PROVE  Good(m2, k, h) /\ Meaning(m2, h) = Meaning(m, h)
  <2>1. CASE h = Nil
    BY <2>1 DEF Good, Meaning
  <2>2. CASE h # Nil
    <3>1. Sound(m, k, h) /\ h.storage \in Refs /\ keeps(h.storage)
      BY <1>3, <2>2, SoundIsHeader DEF Good
    <3>2. m2.blocks[h.storage] = m.blocks[h.storage]
      BY <1>2, <3>1
    <3> HIDE DEF m2
    <3> QED
      BY <3>1, <3>2 DEF Good, Sound, Meaning
  <2> QED
    BY <2>1, <2>2
<1> HIDE DEF m2, keeps
<1>4. \A n \in Names : Good(m2, types.names[n], m2.names[n]) /\ Meaning(m2, m2.names[n]) = Meaning(m, m.names[n])
  <2> SUFFICES ASSUME NEW n \in Names
               PROVE  Good(m2, types.names[n], m2.names[n]) /\ Meaning(m2, m2.names[n]) = Meaning(m, m.names[n])
    OBVIOUS
  <2>1. Good(m, types.names[n], m.names[n]) /\ types.names[n] \in Kinds
    BY TypesAre DEF Typed
  <2>2. m.names[n] # Nil => m.names[n] \in Headers(m)
    BY DEF Headers
  <2> QED
    BY <1>2, <1>3, <2>1, <2>2
<1>5. ASSUME NEW b \in Structs, b \in Reached(m), m.fields[b] # Free
      PROVE  Good(m2, types.field, m2.fields[b]) /\ Meaning(m2, m2.fields[b]) = Meaning(m, m.fields[b])
  <2>1. Good(m, types.field, m.fields[b]) /\ types.field \in Kinds
    BY TypesAre, <1>5 DEF Typed
  <2>2. m.fields[b] # Nil => m.fields[b] \in Headers(m)
    BY <1>5 DEF Headers
  <2>3. m2.fields[b] = m.fields[b]
    BY <1>2, <1>5
  <2> QED
    BY <1>3, <2>1, <2>2, <2>3
<1>6. \A b \in Structs : b \in Reached(m) <=> \E s \in Owners : m.owners[s] = b
  BY DEF Reached
<1>7. Typed(types, m2)
  <2>1. \A b \in Structs : m2.fields[b] # Free => Good(m2, types.field, m2.fields[b])
    BY <1>2, <1>5
  <2>2. \A s \in Owners : m2.owners[s] # Nil => m2.fields[m2.owners[s]] # Free
    <3> SUFFICES ASSUME NEW s \in Owners, m.owners[s] # Nil PROVE m2.fields[m.owners[s]] # Free
      BY <1>2
    <3>1. m.owners[s] \in Structs /\ m.fields[m.owners[s]] # Free
      BY <1>1 DEF Memories, Typed
    <3> QED
      BY <1>2, <1>6, <3>1
  <2> QED
    BY <1>2, <1>4, <2>1, <2>2 DEF Typed
<1>8. Tidy(m2)
  BY <1>2, <1>6 DEF Tidy
<1>9. ContentOf(m2) = ContentOf(m)
  BY <1>4 DEF ContentOf
<1>10. FieldsOf(m2) = Promised!Kept(m.owners, FieldsOf(m))
  <2>1. \A b \in Structs : (IF m2.fields[b] = Free THEN Free ELSE Meaning(m2, m2.fields[b])) =
          IF \E s \in Owners : m.owners[s] = b THEN FieldsOf(m)[b] ELSE Free
    <3> SUFFICES ASSUME NEW b \in Structs
                 PROVE  (IF m2.fields[b] = Free THEN Free ELSE Meaning(m2, m2.fields[b])) =
                          IF b \in Reached(m) THEN FieldsOf(m)[b] ELSE Free
      BY <1>6
    <3>1. FieldsOf(m)[b] = IF m.fields[b] = Free THEN Free ELSE Meaning(m, m.fields[b])
      BY DEF FieldsOf
    <3> QED
      BY <1>2, <1>5, <3>1
  <2> QED
    BY <2>1 DEF FieldsOf, Promised!Kept
<1> QED
  BY <1>2, <1>7, <1>8, <1>9, <1>10 DEF m2

(* A step has nothing to forget when each field has an owner.              *)
LEMMA TidyKept ==
  ASSUME NEW m, Tidy(m)
  PROVE  Promised!Kept(m.owners, FieldsOf(m)) = FieldsOf(m)
  BY DEF Tidy, Promised!Kept, FieldsOf

-----------------------------------------------------------------------------
(* A place, and what a statement does to it.                               *)
Target(m, place) == IF place[1] = "name" THEN place ELSE <<"body", m.owners[place[2]]>>
Reaches(m, place) == place[1] = "name" \/ m.owners[place[2]] # Nil
Written(m, place, r) ==
  IF ~Reaches(m, place) THEN Error("NA_STRUCT_WRITE")
  ELSE IF Failed(r) THEN r
  ELSE Gives(StoreTo(r.memory, Target(m, place), r.value), Nil, r.result)
Fares(m, r, k, refused, v, w) ==
  IF refused # "ok" THEN r = Error(refused)
  ELSE \/ r = Error("HEAP_LIMIT_EXCEEDED")
       \/ \E m2 \in Memories : \E h : r = Gives(m2, h, w) /\ Grown(m, m2) /\ Good(m2, k, h) /\ Meaning(m2, h) = v
Came(r) ==
  IF Failed(r) THEN outcome' = <<"error", r.error>> /\ memory' = memory
  ELSE outcome' = <<"value">> \o r.result /\ memory' = Collected(r.memory)

(* A place that can be written is where its struct was when it was         *)
(* captured.                                                               *)
LEMMA PlaceIs ==
  ASSUME CollectionsAssumption, NEW types \in Typings, NEW m, Typed(types, m), NEW place \in Places
  PROVE  /\ KindOf(types, place) \in Kinds
         /\ Good(m, KindOf(types, place), Read(m, place))
         /\ Reaches(m, place) => /\ Target(m, place) \in Targets(m)
                                 /\ KindAt(types, Target(m, place)) = KindOf(types, place)
                                 /\ Held(m, Target(m, place)) = Read(m, place)
                                 /\ Destination(m, place) = Gives(m, Target(m, place), <<>>)
         /\ ~Reaches(m, place) => Destination(m, place) = Error("NA_STRUCT_WRITE")
         /\ (Target(m, place)[1] = "name") <=> (place[1] = "name")
<1>1. CASE place[1] = "name"
  <2>1. PICK n \in Names : place = <<"name", n>>
    BY <1>1 DEF Places
  <2>2. Good(m, types.names[n], m.names[n]) /\ types.names[n] \in Kinds
    BY TypesAre DEF Typed
  <2> QED
    BY <2>1, <2>2 DEF KindOf, Read, Reaches, Target, Targets, KindAt, Held, Destination
<1>2. CASE place[1] # "name"
  <2>1. PICK s \in Owners : place = <<"field", s>>
    BY <1>2 DEF Places
  <2>2. types.field \in Kinds
    BY TypesAre
  <2>3. m.owners[s] # Nil => m.owners[s] \in Structs /\ m.fields[m.owners[s]] # Free
    BY DEF Typed, Memories
  <2>4. m.owners[s] # Nil => Good(m, types.field, m.fields[m.owners[s]])
    BY <2>3 DEF Typed
  <2>5. Good(m, types.field, Field(m, s))
    BY <2>4 DEF Field, Good
  <2>6. KindOf(types, place) = types.field /\ Read(m, place) = Field(m, s)
    BY <2>1 DEF KindOf, Read
  <2>7. /\ Target(m, place) = <<"body", m.owners[s]>>
        /\ Reaches(m, place) <=> m.owners[s] # Nil
    BY <2>1 DEF Target, Reaches
  <2>8. /\ m.owners[s] # Nil => Destination(m, place) = Gives(m, <<"body", m.owners[s]>>, <<>>)
        /\ m.owners[s] = Nil => Destination(m, place) = Error("NA_STRUCT_WRITE")
    BY <2>1 DEF Destination
  <2>9. Reaches(m, place) => /\ Target(m, place) \in Targets(m)
                             /\ KindAt(types, Target(m, place)) = types.field
                             /\ Held(m, Target(m, place)) = Field(m, s)
    BY <2>3, <2>7 DEF Targets, KindAt, Held, Field
  <2>10. Target(m, place)[1] = "body"
    BY <2>7
  <2> QED
    BY <2>2, <2>5, <2>6, <2>7, <2>8, <2>9, <2>10, <1>2
<1> QED
  BY <1>1, <1>2

(* What is read from a place means what the place holds.                   *)
LEMMA GotIs ==
  ASSUME CollectionsAssumption, NEW types \in Typings, Typed(types, memory), NEW place \in Places
  PROVE  /\ Promised!Got(place) = Meaning(memory, Read(memory, place))
         /\ Promised!Writable(place) <=> Reaches(memory, place)
<1>1. CASE place[1] = "name"
  <2>1. PICK n \in Names : place = <<"name", n>>
    BY <1>1 DEF Places
  <2> QED
    BY <2>1 DEF Promised!Got, Promised!Writable, Reaches, Read, NamesMean
<1>2. CASE place[1] # "name"
  <2>1. PICK s \in Owners : place = <<"field", s>>
    BY <1>2 DEF Places
  <2>2. memory.owners[s] # Nil => memory.owners[s] \in Structs /\ memory.fields[memory.owners[s]] # Free
    BY DEF Typed, Memories
  <2>3. memory.owners[s] # Nil => FieldsMean[memory.owners[s]] = Meaning(memory, memory.fields[memory.owners[s]])
    BY <2>2 DEF FieldsMean
  <2>4. Read(memory, place) = IF memory.owners[s] = Nil THEN Nil ELSE memory.fields[memory.owners[s]]
    BY <2>1 DEF Read, Field
  <2>5. Promised!Got(place) = IF memory.owners[s] = Nil THEN Nil ELSE FieldsMean[memory.owners[s]]
    BY <2>1 DEF Promised!Got, OwnersHold
  <2>6. Meaning(memory, Nil) = Nil
    BY DEF Meaning
  <2>7. Promised!Writable(place) <=> Reaches(memory, place)
    BY <2>1 DEF Promised!Writable, Reaches, OwnersHold
  <2> QED
    BY <2>3, <2>4, <2>5, <2>6, <2>7
<1> QED
  BY <1>1, <1>2

LEMMA FailedIs ==
  ASSUME NEW m, NEW v, NEW w, NEW code
  PROVE  Failed(Error(code)) /\ ~Failed(Gives(m, v, w)) /\ Error(code).error = code
         /\ Gives(m, v, w).memory = m /\ Gives(m, v, w).value = v /\ Gives(m, v, w).result = w
         /\ Error(code) # Gives(m, v, w)
<1>1. "error" \notin DOMAIN Gives(m, v, w)
  BY DEF Gives
<1>2. "error" \in DOMAIN Error(code)
  BY DEF Error
<1> QED
  BY <1>1, <1>2 DEF Failed, Error, Gives

(* What failed leaves all as it was.                                       *)
LEMMA Threw ==
  ASSUME NEW types \in Typings, Typed(types, memory), Tidy(memory), NEW code, Came(Error(code))
  PROVE  Typed(types, memory') /\ Tidy(memory') /\ Promised!Throw(code)
<1>1. outcome' = <<"error", code>> /\ memory' = memory
  BY FailedIs DEF Came
<1>2. NamesMean' = NamesMean /\ FieldsMean' = FieldsMean /\ OwnersHold' = OwnersHold
  BY <1>1 DEF NamesMean, FieldsMean, OwnersHold
<1> QED
  BY <1>1, <1>2 DEF Promised!Throw, Promised!Throws

LEMMA Means ==
  /\ NamesMean = ContentOf(memory) /\ FieldsMean = FieldsOf(memory) /\ OwnersHold = memory.owners
  /\ NamesMean' = ContentOf(memory') /\ FieldsMean' = FieldsOf(memory') /\ OwnersHold' = memory'.owners
  BY DEF NamesMean, ContentOf, FieldsMean, FieldsOf, OwnersHold

(* What a step collects changes no content.                                *)
LEMMA Lands ==
  ASSUME CollectionsAssumption, NEW types \in Typings, NEW m, Typed(types, m), memory' = Collected(m)
  PROVE  /\ Typed(types, memory') /\ Tidy(memory') /\ NamesMean' = ContentOf(m) /\ OwnersHold' = m.owners
         /\ FieldsMean' = Promised!Kept(m.owners, FieldsOf(m))
         /\ Tidy(m) => FieldsMean' = FieldsOf(m)
  BY CollectedTyped, TidyKept, Means

(* An operation whose result is stored to a place does what is promised, or*)
(* the heap is full.                                                       *)
LEMMA WriteDoes ==
  ASSUME CollectionsAssumption, NEW types \in Typings, Typed(types, memory), Tidy(memory), NEW place \in Places,
         NEW r, NEW refused, NEW v, NEW w, Fares(memory, r, KindOf(types, place), refused, v, w),
         Came(Written(memory, place, r))
  PROVE  /\ Typed(types, memory') /\ Tidy(memory')
         /\ \/ Promised!Throw("HEAP_LIMIT_EXCEEDED")
            \/ /\ Promised!Writable(place) /\ refused = "ok"
               /\ Promised!Becomes(place, v) /\ outcome' = <<"value">> \o w /\ OwnersHold' = OwnersHold
            \/ Promised!Writable(place) /\ refused # "ok" /\ Promised!Throw(refused)
            \/ ~Promised!Writable(place) /\ Promised!Throw("NA_STRUCT_WRITE")
<1>1. CASE ~Reaches(memory, place)
  <2>1. Written(memory, place, r) = Error("NA_STRUCT_WRITE")
    BY <1>1 DEF Written
  <2> QED
    BY <1>1, <2>1, Threw, GotIs
<1>2. ASSUME Reaches(memory, place), NEW code, r = Error(code)
      PROVE  Typed(types, memory') /\ Tidy(memory') /\ Promised!Throw(code)
  <2>1. Written(memory, place, r) = Error(code)
    BY <1>2, FailedIs DEF Written
  <2> QED
    BY <2>1, Threw
<1>3. ASSUME Reaches(memory, place), NEW m2 \in Memories, NEW h, r = Gives(m2, h, w), Grown(memory, m2),
             Good(m2, KindOf(types, place), h), Meaning(m2, h) = v
      PROVE  /\ Typed(types, memory') /\ Tidy(memory')
             /\ Promised!Becomes(place, v) /\ outcome' = <<"value">> \o w /\ OwnersHold' = OwnersHold
  <2> DEFINE target == Target(memory, place)
             m3 == StoreTo(m2, target, h)
  <2>1. Written(memory, place, r) = Gives(m3, Nil, w)
    BY <1>3, FailedIs DEF Written
  <2>2. outcome' = <<"value">> \o w /\ memory' = Collected(m3)
    BY <2>1, FailedIs DEF Came
  <2>3. /\ Typed(types, m2) /\ Tidy(m2)
        /\ ContentOf(m2) = ContentOf(memory) /\ FieldsOf(m2) = FieldsOf(memory) /\ m2.owners = memory.owners
    BY <1>3, GrownTyped
  <2>4. target \in Targets(m2) /\ KindAt(types, target) = KindOf(types, place)
    <3>1. target \in Targets(memory) /\ KindAt(types, target) = KindOf(types, place)
      BY <1>3, PlaceIs
    <3>2. m2.fields = memory.fields
      BY <1>3 DEF Grown
    <3> QED
      BY <3>1, <3>2 DEF Targets
  <2>5. target[1] = "name" <=> place[1] = "name"
    BY PlaceIs
  <2> HIDE DEF m3
  <2>6. target[1] = "name" => target = place
    BY <2>5 DEF Target
  <2>7. target[1] # "name" => target[2] = memory.owners[place[2]]
    BY <2>5 DEF Target
  <2> HIDE DEF target
  <2>8. /\ Typed(types, m3) /\ Tidy(m3) /\ m3.owners = m2.owners
        /\ target[1] = "name" => /\ ContentOf(m3) = [ContentOf(m2) EXCEPT ![target[2]] = Meaning(m2, h)]
                                 /\ FieldsOf(m3) = FieldsOf(m2)
        /\ target[1] # "name" => /\ ContentOf(m3) = ContentOf(m2)
                                 /\ FieldsOf(m3) = [FieldsOf(m2) EXCEPT ![target[2]] = Meaning(m2, h)]
    BY <1>3, <2>3, <2>4, StoreTyped DEF m3
  <2>9. /\ Typed(types, memory') /\ Tidy(memory') /\ NamesMean' = ContentOf(m3) /\ OwnersHold' = m3.owners
        /\ FieldsMean' = FieldsOf(m3)
    BY <2>2, <2>8, Lands
  <2>10. NamesMean = ContentOf(memory) /\ FieldsMean = FieldsOf(memory) /\ OwnersHold = memory.owners
    BY Means
  <2>11. CASE place[1] = "name"
    <3>1. NamesMean' = [NamesMean EXCEPT ![place[2]] = v] /\ FieldsMean' = FieldsMean
      BY <1>3, <2>3, <2>5, <2>6, <2>8, <2>9, <2>10, <2>11
    <3> QED
      BY <2>2, <2>3, <2>8, <2>9, <2>10, <2>11, <3>1 DEF Promised!Becomes
  <2>12. CASE place[1] # "name"
    <3>1. FieldsMean' = [FieldsMean EXCEPT ![OwnersHold[place[2]]] = v] /\ NamesMean' = NamesMean
      BY <1>3, <2>3, <2>5, <2>7, <2>8, <2>9, <2>10, <2>12
    <3> QED
      BY <2>2, <2>3, <2>8, <2>9, <2>10, <2>12, <3>1 DEF Promised!Becomes
  <2> QED
    BY <2>11, <2>12
<1>4. Promised!Writable(place) <=> Reaches(memory, place)
  BY GotIs
<1>5. CASE Reaches(memory, place) /\ refused # "ok"
  BY <1>2, <1>4, <1>5 DEF Fares
<1>6. CASE Reaches(memory, place) /\ refused = "ok"
  <2>1. CASE r = Error("HEAP_LIMIT_EXCEEDED")
    BY <1>2, <1>6, <2>1
  <2>2. CASE r # Error("HEAP_LIMIT_EXCEEDED")
    <3>1. PICK m2, h : m2 \in Memories /\ r = Gives(m2, h, w) /\ Grown(memory, m2) /\ Good(m2, KindOf(types, place), h) /\ Meaning(m2, h) = v
      BY <1>6, <2>2 DEF Fares
    <3> m2 \in Memories
      BY <3>1
    <3> QED
      BY <1>3, <1>4, <1>6, <3>1
  <2> QED
    BY <2>1, <2>2
<1> QED
  BY <1>1, <1>5, <1>6

LEMMA DoesFares ==
  ASSUME NEW m, NEW r, NEW k, NEW refused, NEW v, NEW w, Does(m, r, k, refused, v, w)
  PROVE  Fares(m, r, k, refused, v, w)
  BY DEF Does, Gave, Fares, Good

-----------------------------------------------------------------------------
(* What each statement does is what it means, unless the heap is full.     *)
Follows(types, s) ==
  /\ Typed(types, memory') /\ Tidy(memory')
  /\ Promised!Means(s) \/ Promised!Throw("HEAP_LIMIT_EXCEEDED")

LEMMA AssignFollows ==
  ASSUME CollectionsAssumption, NEW types \in Typings, Typed(types, memory), Tidy(memory), NEW s,
         WellTyped(types, s), s[1] = "assign", Came(Perform(memory, s))
  PROVE  Follows(types, s)
<1> DEFINE place == s[2]
           from == s[3]
           h == Read(memory, from)
           r == Gives(memory, h, <<>>)
           v == Meaning(memory, h)
<1>1. place \in Places /\ from \in Places /\ KindOf(types, place) = KindOf(types, from)
  BY DEF WellTyped
<1> HIDE DEF place, from
<1>2. Perform(memory, s) = Written(memory, place, r)
  <2>1. Perform(memory, s) = Assign(memory, place, from)
    BY DEF Perform, place, from
  <2>2. CASE Reaches(memory, place)
    <3>1. Destination(memory, place) = Gives(memory, Target(memory, place), <<>>)
      BY <1>1, <2>2, PlaceIs
    <3> QED
      BY <2>1, <2>2, <3>1, FailedIs DEF Assign, Then, Written
  <2>3. CASE ~Reaches(memory, place)
    <3>1. Destination(memory, place) = Error("NA_STRUCT_WRITE")
      BY <1>1, <2>3, PlaceIs
    <3> QED
      BY <2>1, <2>3, <3>1, FailedIs DEF Assign, Then, Written
  <2> QED
    BY <2>2, <2>3
<1>3. Fares(memory, r, KindOf(types, place), "ok", v, <<>>)
  <2>1. Good(memory, KindOf(types, place), h)
    BY <1>1, PlaceIs
  <2>2. memory \in Memories
    BY DEF Typed
  <2>3. Grown(memory, memory)
    BY <2>2 DEF Grown
  <2> QED
    BY <2>1, <2>2, <2>3 DEF Fares
<1>4. v = Promised!Got(from)
  BY <1>1, GotIs
<1> HIDE DEF r, v, h
<1>5. Came(Written(memory, place, r))
  BY <1>2
<1>6. /\ Typed(types, memory') /\ Tidy(memory')
      /\ \/ Promised!Throw("HEAP_LIMIT_EXCEEDED")
         \/ Promised!Writable(place) /\ Promised!Becomes(place, v) /\ outcome' = <<"value">> \o <<>> /\ OwnersHold' = OwnersHold
         \/ ~Promised!Writable(place) /\ Promised!Throw("NA_STRUCT_WRITE")
  BY <1>1, <1>3, <1>5, WriteDoes
<1>7. Promised!Means(s) <=> Promised!Set(place, v)
  BY <1>4 DEF Promised!Means, place, from
<1>8. <<"value">> \o <<>> = Promised!Silent
  BY DEF Promised!Silent
<1> QED
  BY <1>6, <1>7, <1>8 DEF Follows, Promised!Set

(* place := what an operation of the value v makes.                        *)
LEMMA PutFollows ==
  ASSUME CollectionsAssumption, NEW types \in Typings, Typed(types, memory), Tidy(memory),
         NEW place \in Places, NEW op, NEW v, NEW a, NEW r, NEW w,
         Fares(memory, r, KindOf(types, place), Promised!Refused(op, v, a), Promised!Made(op, v, a), w),
         Promised!Worth(op, v, a) = <<"value">> \o w,
         Came(Written(memory, place, r))
  PROVE  /\ Typed(types, memory') /\ Tidy(memory')
         /\ Promised!Put(place, op, v, a) \/ Promised!Throw("HEAP_LIMIT_EXCEEDED")
<1> DEFINE refused == Promised!Refused(op, v, a)
           made == Promised!Made(op, v, a)
<1> HIDE DEF refused, made
<1>1. Fares(memory, r, KindOf(types, place), refused, made, w)
  BY DEF refused, made
<1>2. /\ Typed(types, memory') /\ Tidy(memory')
      /\ \/ Promised!Throw("HEAP_LIMIT_EXCEEDED")
         \/ /\ Promised!Writable(place) /\ refused = "ok"
            /\ Promised!Becomes(place, made) /\ outcome' = <<"value">> \o w /\ OwnersHold' = OwnersHold
         \/ Promised!Writable(place) /\ refused # "ok" /\ Promised!Throw(refused)
         \/ ~Promised!Writable(place) /\ Promised!Throw("NA_STRUCT_WRITE")
  BY <1>1, WriteDoes
<1> QED
  BY <1>2 DEF Promised!Put, refused, made

LEMMA MakeFollows ==
  ASSUME CollectionsAssumption, NEW types \in Typings, Typed(types, memory), Tidy(memory), NEW s,
         WellTyped(types, s), s[1] = "make", Came(Perform(memory, s))
  PROVE  Follows(types, s)
<1> DEFINE place == s[2]
           op == s[3]
           a == s[4]
           r == Construct(memory, op, a)
           v == Promised!Fresh
           k == KindOf(types, place)
<1>1. place \in Places /\ <<k, op>> \in Makes /\ Suits(op, a)
  BY DEF WellTyped
<1>2. memory \in Memories
  BY DEF Typed
<1>3. Perform(memory, s) = Make(memory, place, op, a)
  BY DEF Perform
<1>4. Promised!Means(s) <=> Promised!Put(place, op, v, a)
  BY DEF Promised!Means
<1> HIDE DEF place, op, a, v, k
<1>5. Does(memory, r, k, Promised!Refused(op, v, a), Promised!Made(op, v, a), <<>>)
  BY <1>1, <1>2, ConstructDoes DEF v
<1> HIDE DEF r
<1>6. Fares(memory, r, k, Promised!Refused(op, v, a), Promised!Made(op, v, a), <<>>)
  BY <1>5, DoesFares
<1>7. r = Error(Promised!Refused(op, v, a)) \/ r = Error("HEAP_LIMIT_EXCEEDED") \/ \E m2, h : r = Gives(m2, h, <<>>)
  BY <1>6 DEF Fares
<1>8. Perform(memory, s) = Written(memory, place, r)
  <2>1. CASE Reaches(memory, place)
    <3>1. Destination(memory, place) = Gives(memory, Target(memory, place), <<>>)
      BY <1>1, <2>1, PlaceIs
    <3>2. Perform(memory, s) = Then(r, LAMBDA q : Gives(StoreTo(q.memory, Target(memory, place), q.value), Nil, <<>>))
      BY <1>3, <3>1, FailedIs DEF Make, Then, r
    <3> QED
      BY <1>7, <2>1, <3>2, FailedIs DEF Then, Written
  <2>2. CASE ~Reaches(memory, place)
    <3>1. Destination(memory, place) = Error("NA_STRUCT_WRITE")
      BY <1>1, <2>2, PlaceIs
    <3> QED
      BY <1>3, <2>2, <3>1, FailedIs DEF Make, Then, Written
  <2> QED
    BY <2>1, <2>2
<1>9. Promised!Worth(op, v, a) = <<"value">> \o <<>>
  BY <1>1 DEF Promised!Worth, Promised!Silent, Makes
<1>10. Came(Written(memory, place, r))
  BY <1>8
<1>11. /\ Typed(types, memory') /\ Tidy(memory')
       /\ Promised!Put(place, op, v, a) \/ Promised!Throw("HEAP_LIMIT_EXCEEDED")
  BY <1>1, <1>6, <1>9, <1>10, PutFollows DEF k
<1> QED
  BY <1>4, <1>11 DEF Follows

LEMMA ProjectFollows ==
  ASSUME CollectionsAssumption, NEW types \in Typings, Typed(types, memory), Tidy(memory), NEW s,
         WellTyped(types, s), s[1] = "project", Came(Perform(memory, s))
  PROVE  Follows(types, s)
<1> DEFINE place == s[2]
           op == s[3]
           from == s[4]
           a == s[5]
           h == Read(memory, from)
           r == Call(memory, op, h, a)
           v == Meaning(memory, h)
           k == KindOf(types, place)
           k2 == KindOf(types, from)
<1>1. place \in Places /\ from \in Places /\ <<k2, op, k>> \in Projects /\ Suits(op, a)
  BY DEF WellTyped
<1>2. memory \in Memories
  BY DEF Typed
<1>3. Perform(memory, s) = ProjectInto(memory, place, op, from, a)
  BY DEF Perform
<1>4. Promised!Means(s) <=> Promised!Put(place, op, Promised!Got(from), a)
  BY DEF Promised!Means
<1> HIDE DEF place, op, from, a
<1>5. v = Promised!Got(from)
  BY <1>1, GotIs
<1>6. Good(memory, k2, h) /\ k2 \in Kinds
  BY <1>1, PlaceIs
<1> HIDE DEF k, k2, h
<1>7. /\ Does(memory, r, k, Promised!Refused(op, v, a), Promised!Made(op, v, a), <<>>)
      /\ Promised!Worth(op, v, a) = Promised!Silent
  <2>1. CASE h = Nil
    <3>1. r = Error("NA_COLLECTION") /\ v = Nil
      BY <2>1 DEF Call, Meaning
    <3>2. Promised!Refused(op, v, a) = "NA_COLLECTION"
      BY <3>1 DEF Promised!Refused
    <3>3. Promised!Worth(op, v, a) = Promised!Silent
      BY <1>1 DEF Promised!Worth, Projects
    <3> QED
      BY <3>1, <3>2, <3>3 DEF Does
  <2>2. CASE Sound(memory, k2, h)
    BY <1>1, <1>2, <1>6, <2>2, ProjectDoes DEF Projected
  <2> QED
    BY <1>6, <2>1, <2>2 DEF Good
<1> HIDE DEF v
<1>8. ProjectInto(memory, place, op, from, a) =
        Then(Destination(memory, place), LAMBDA d :
          Then(r, LAMBDA q : Gives(StoreTo(q.memory, d.value, q.value), Nil, <<>>)))
  BY DEF ProjectInto, Ask, h
<1> HIDE DEF r
<1>9. Fares(memory, r, k, Promised!Refused(op, v, a), Promised!Made(op, v, a), <<>>)
  BY <1>7, DoesFares
<1>10. r = Error(Promised!Refused(op, v, a)) \/ r = Error("HEAP_LIMIT_EXCEEDED") \/ \E m2, g : r = Gives(m2, g, <<>>)
  BY <1>9 DEF Fares
<1>11. Perform(memory, s) = Written(memory, place, r)
  <2>1. CASE Reaches(memory, place)
    <3>1. Destination(memory, place) = Gives(memory, Target(memory, place), <<>>)
      BY <1>1, <2>1, PlaceIs
    <3>2. Perform(memory, s) = Then(r, LAMBDA q : Gives(StoreTo(q.memory, Target(memory, place), q.value), Nil, <<>>))
      BY <1>3, <1>8, <3>1, FailedIs DEF Then
    <3> QED
      BY <1>10, <2>1, <3>2, FailedIs DEF Then, Written
  <2>2. CASE ~Reaches(memory, place)
    <3>1. Destination(memory, place) = Error("NA_STRUCT_WRITE")
      BY <1>1, <2>2, PlaceIs
    <3> QED
      BY <1>3, <1>8, <2>2, <3>1, FailedIs DEF Then, Written
  <2> QED
    BY <2>1, <2>2
<1>12. Promised!Worth(op, v, a) = <<"value">> \o <<>>
  BY <1>7 DEF Promised!Silent
<1>13. Came(Written(memory, place, r))
  BY <1>11
<1>14. /\ Typed(types, memory') /\ Tidy(memory')
       /\ Promised!Put(place, op, v, a) \/ Promised!Throw("HEAP_LIMIT_EXCEEDED")
  BY <1>1, <1>9, <1>12, <1>13, PutFollows DEF k
<1> QED
  BY <1>4, <1>5, <1>14 DEF Follows

LEMMA AskFollows ==
  ASSUME CollectionsAssumption, NEW types \in Typings, Typed(types, memory), Tidy(memory), NEW s,
         WellTyped(types, s), s[1] = "ask", Came(Perform(memory, s))
  PROVE  Follows(types, s)
<1> DEFINE op == s[2]
           from == s[3]
           a == s[4]
           h == Read(memory, from)
           r == Call(memory, op, h, a)
           v == Meaning(memory, h)
           k == KindOf(types, from)
           refused == Promised!Refused(op, v, a)
<1>1. from \in Places /\ <<k, op>> \in Asks /\ Suits(op, a)
  BY DEF WellTyped
<1>2. memory \in Memories
  BY DEF Typed
<1>3. Perform(memory, s) = r
  BY DEF Perform, Ask
<1>4. Promised!Means(s) <=> Promised!Ask(op, Promised!Got(from), a)
  BY DEF Promised!Means
<1> HIDE DEF op, from, a
<1>5. v = Promised!Got(from)
  BY <1>1, GotIs
<1>6. Good(memory, k, h) /\ k \in Kinds
  BY <1>1, PlaceIs
<1> HIDE DEF k, h
<1>7. Answers(memory, op, h, a)
  BY <1>1, <1>2, <1>6, AskDoes
<1>8. \/ refused # "ok" /\ r = Error(refused)
      \/ refused = "ok" /\ \E x : r = Gives(memory, Nil, <<x>>) /\ Promised!Worth(op, v, a) = <<"value", x>>
  BY <1>7 DEF Answers
<1> HIDE DEF v, r, refused
<1>9. CASE refused # "ok" /\ r = Error(refused)
  <2>1. Typed(types, memory') /\ Tidy(memory') /\ Promised!Throw(refused)
    BY <1>3, <1>9, Threw
  <2>2. Promised!Ask(op, v, a)
    BY <1>9, <2>1 DEF Promised!Ask, refused
  <2> QED
    BY <1>4, <1>5, <2>1, <2>2 DEF Follows
<1>10. CASE refused = "ok" /\ \E x : r = Gives(memory, Nil, <<x>>) /\ Promised!Worth(op, v, a) = <<"value", x>>
  <2>1. PICK x : r = Gives(memory, Nil, <<x>>) /\ Promised!Worth(op, v, a) = <<"value", x>>
    BY <1>10
  <2>2. outcome' = <<"value">> \o <<x>> /\ memory' = Collected(memory)
    BY <1>3, <2>1, FailedIs DEF Came
  <2>3. outcome' = Promised!Worth(op, v, a)
    BY <2>1, <2>2, OutcomeOf
  <2>4. /\ Typed(types, memory') /\ Tidy(memory') /\ NamesMean' = ContentOf(memory) /\ OwnersHold' = memory.owners
        /\ FieldsMean' = FieldsOf(memory)
    BY <2>2, Lands
  <2>5. NamesMean' = NamesMean /\ OwnersHold' = OwnersHold /\ FieldsMean' = FieldsMean
    BY <2>4, Means
  <2>6. Promised!Ask(op, v, a)
    BY <1>10, <2>3, <2>5 DEF Promised!Ask, refused
  <2> QED
    BY <1>4, <1>5, <2>4, <2>6 DEF Follows
<1> QED
  BY <1>8, <1>9, <1>10

(* A mutator gives something or fails, never both.                         *)
LEMMA MutateFares ==
  ASSUME CollectionsAssumption, NEW m \in Memories, NEW k \in Kinds, NEW h, Good(m, k, h), NEW op, NEW a,
         <<k, op>> \in Changes, Suits(op, a)
  PROVE  LET v == Meaning(m, h)
             r == Mutate(m, op, h, a) IN
         /\ Fares(m, r, k, Promised!Refused(op, v, a), Promised!Made(op, v, a), Gained(op, v, a))
         /\ \/ \E code : r = Error(code)
            \/ \E m2, g, w : r = Gives(m2, g, w)
<1> DEFINE v == Meaning(m, h)
           r == Mutate(m, op, h, a)
           refused == Promised!Refused(op, v, a)
           made == Promised!Made(op, v, a)
           gained == Gained(op, v, a)
<1>1. Does(m, r, k, refused, made, gained)
  BY MutateDoes DEF Mutated
<1> HIDE DEF v, r, refused, made, gained
<1>2. Fares(m, r, k, refused, made, gained)
  BY <1>1, DoesFares
<1>3. (\E code : r = Error(code)) \/ (\E m2, g, w : r = Gives(m2, g, w))
  BY <1>2 DEF Fares
<1> QED
  BY <1>2, <1>3 DEF v, r, refused, made, gained

LEMMA MutatePlainIs ==
  ASSUME CollectionsAssumption, NEW types \in Typings, NEW m, Typed(types, m), NEW place \in Places, NEW op, NEW a,
         <<KindOf(types, place), op>> \in Changes, Suits(op, a)
  PROVE  LET r == Mutate(m, op, Read(m, place), a) IN
         MutatePlain(m, place, op, a) =
           IF ~Reaches(m, place) THEN Error("NA_STRUCT_WRITE")
           ELSE IF Failed(r) THEN r
           ELSE Gives(StoreTo(r.memory, Target(m, place), r.value), r.value, r.result)
<1> DEFINE r == Mutate(m, op, Read(m, place), a)
<1>1. CASE Reaches(m, place)
  <2>1. Destination(m, place) = Gives(m, Target(m, place), <<>>) /\ Held(m, Target(m, place)) = Read(m, place)
    BY <1>1, PlaceIs
  <2>2. MutatePlain(m, place, op, a) =
          Then(r, LAMBDA q : Gives(StoreTo(q.memory, Target(m, place), q.value), q.value, q.result))
    BY <2>1, FailedIs DEF MutatePlain, Then
  <2> HIDE DEF r
  <2>3. MutatePlain(m, place, op, a) =
          IF Failed(r) THEN r ELSE Gives(StoreTo(r.memory, Target(m, place), r.value), r.value, r.result)
    BY <2>2 DEF Then
  <2> QED
    BY <1>1, <2>3 DEF r
<1>2. CASE ~Reaches(m, place)
  <2>1. Destination(m, place) = Error("NA_STRUCT_WRITE")
    BY <1>2, PlaceIs
  <2> QED
    BY <1>2, <2>1, FailedIs DEF MutatePlain, Then
<1> QED
  BY <1>1, <1>2

LEMMA PlainFollows ==
  ASSUME CollectionsAssumption, NEW types \in Typings, Typed(types, memory), Tidy(memory), NEW s,
         WellTyped(types, s), s[1] = "plain", Came(Perform(memory, s))
  PROVE  Follows(types, s)
<1> DEFINE place == s[2]
           op == s[3]
           a == s[4]
           h == Read(memory, place)
           r == Mutate(memory, op, h, a)
           v == Meaning(memory, h)
           k == KindOf(types, place)
           w == Gained(op, v, a)
<1>1. place \in Places /\ <<k, op>> \in Changes /\ Suits(op, a)
  BY DEF WellTyped
<1>2. memory \in Memories
  BY DEF Typed
<1>3. Perform(memory, s) = Plain(memory, place, op, a)
  BY DEF Perform
<1>4. Promised!Means(s) <=> Promised!Put(place, op, Promised!Got(place), a)
  BY DEF Promised!Means
<1> HIDE DEF place, op, a
<1>5. v = Promised!Got(place)
  BY <1>1, GotIs
<1>6. Good(memory, k, h) /\ k \in Kinds
  BY <1>1, PlaceIs
<1>7. MutatePlain(memory, place, op, a) =
        IF ~Reaches(memory, place) THEN Error("NA_STRUCT_WRITE")
        ELSE IF Failed(r) THEN r
        ELSE Gives(StoreTo(r.memory, Target(memory, place), r.value), r.value, r.result)
  BY <1>1, MutatePlainIs
<1> HIDE DEF k, h
<1>8. /\ Fares(memory, r, k, Promised!Refused(op, v, a), Promised!Made(op, v, a), w)
      /\ (\E code : r = Error(code)) \/ (\E m2, g, x : r = Gives(m2, g, x))
  BY <1>1, <1>2, <1>6, MutateFares
<1>9. Promised!Worth(op, v, a) = <<"value">> \o w
  BY <1>1, WorthIs
<1> HIDE DEF v, w, r
<1>10. Perform(memory, s) = Written(memory, place, r)
  <2>1. Perform(memory, s) = Then(MutatePlain(memory, place, op, a), LAMBDA q : Gives(q.memory, Nil, q.result))
    BY <1>3 DEF Plain
  <2> QED
    BY <1>7, <1>8, <2>1, FailedIs DEF Then, Written
<1>11. Came(Written(memory, place, r))
  BY <1>10
<1>12. /\ Typed(types, memory') /\ Tidy(memory')
       /\ Promised!Put(place, op, v, a) \/ Promised!Throw("HEAP_LIMIT_EXCEEDED")
  BY <1>1, <1>8, <1>9, <1>11, PutFollows DEF k
<1> QED
  BY <1>4, <1>5, <1>12 DEF Follows

LEMMA AppendIs ==
  ASSUME NEW S, NEW s \in Seq(S), NEW x \in S
  PROVE  s \o <<x>> = Append(s, x)
<1> DEFINE p == s \o <<x>>
           q == Append(s, x)
<1>1. p \in Seq(S) /\ q \in Seq(S) /\ Len(p) = Len(s) + 1 /\ Len(q) = Len(s) + 1
  OBVIOUS
<1>2. \A i \in 1..Len(s) + 1 : p[i] = q[i]
  OBVIOUS
<1> HIDE DEF p, q
<1>3. p = q
  BY <1>1, <1>2, SameSeq
<1> QED
  BY <1>3 DEF p, q

(* What is left of a change once its argument has a value.                 *)
StoredBack(m, place, r) ==
  IF Failed(r) THEN r ELSE Gives(StoreTo(r.memory, Target(m, place), r.value), Nil, r.result)

(* A change in the order the code takes it: destination, argument,         *)
(* receiver, store.                                                        *)
LEMMA ChangeIs ==
  ASSUME CollectionsAssumption, NEW types \in Typings, NEW m, Typed(types, m), NEW place \in Places,
         NEW op, NEW a, NEW last
  PROVE  /\ ~Reaches(m, place) => Change(m, place, op, a, last) = Error("NA_STRUCT_WRITE")
         /\ \A code : Reaches(m, place) /\ Argument(m, last) = Error(code) => Change(m, place, op, a, last) = Error(code)
         /\ \A m2, g, x : Reaches(m, place) /\ Argument(m, last) = Gives(m2, g, <<x>>) =>
              Change(m, place, op, a, last) = StoredBack(m, place, Mutate(m2, op, Read(m, place), a \o <<x>>))
<1>1. CASE Reaches(m, place)
  <2>1. Destination(m, place) = Gives(m, Target(m, place), <<>>) /\ Held(m, Target(m, place)) = Read(m, place)
    BY <1>1, PlaceIs
  <2>2. Change(m, place, op, a, last) =
          Then(Argument(m, last), LAMBDA b :
            Then(Mutate(b.memory, op, Held(m, Target(m, place)), a \o b.result), LAMBDA r :
              Gives(StoreTo(r.memory, Target(m, place), r.value), Nil, r.result)))
    BY <2>1, FailedIs DEF Change, Then
  <2>3. ASSUME NEW code, Argument(m, last) = Error(code) PROVE Change(m, place, op, a, last) = Error(code)
    BY <2>2, <2>3, FailedIs DEF Then
  <2>4. ASSUME NEW m2, NEW g, NEW x, Argument(m, last) = Gives(m2, g, <<x>>)
        PROVE  Change(m, place, op, a, last) = StoredBack(m, place, Mutate(m2, op, Read(m, place), a \o <<x>>))
    BY <2>1, <2>2, <2>4, FailedIs DEF Then, StoredBack
  <2> QED
    BY <1>1, <2>3, <2>4
<1>2. CASE ~Reaches(m, place)
  <2>1. Destination(m, place) = Error("NA_STRUCT_WRITE")
    BY <1>2, PlaceIs
  <2> QED
    BY <1>2, <2>1, FailedIs DEF Change, Then
<1> QED
  BY <1>1, <1>2

LEMMA ValueFollows ==
  ASSUME CollectionsAssumption, NEW types \in Typings, Typed(types, memory), Tidy(memory), NEW s,
         WellTyped(types, s), s[1] = "change", s[5][1] = "value", Came(Perform(memory, s))
  PROVE  Follows(types, s)
<1> DEFINE place == s[2]
           op == s[3]
           b == s[4]
           x == s[5][2]
           a == Append(b, x)
           h == Read(memory, place)
           r == Mutate(memory, op, h, a)
           v == Meaning(memory, h)
           k == KindOf(types, place)
           w == Gained(op, v, a)
<1>1. place \in Places /\ <<k, op>> \in Changes /\ Suits(op, a) /\ b \in Seq(Elements) /\ x \in Elements
  BY DEF WellTyped
<1>2. memory \in Memories
  BY DEF Typed
<1>3. Perform(memory, s) = Change(memory, place, op, b, s[5])
  BY DEF Perform
<1>4. Promised!Means(s) <=> Promised!Put(place, op, Promised!Got(place), a)
  BY DEF Promised!Means
<1>5. Argument(memory, s[5]) = Gives(memory, Nil, <<x>>)
  BY DEF Argument
<1>6. v = Promised!Got(place)
  BY <1>1, GotIs
<1>7. Good(memory, k, h) /\ k \in Kinds
  BY <1>1, PlaceIs
<1> HIDE DEF place, op, b, x
<1>8. b \o <<x>> = a
  BY <1>1, AppendIs
<1>9. /\ ~Reaches(memory, place) => Perform(memory, s) = Error("NA_STRUCT_WRITE")
      /\ Reaches(memory, place) => Perform(memory, s) = StoredBack(memory, place, r)
  <2> HIDE DEF a, h
  <2> QED
    BY <1>1, <1>3, <1>5, <1>8, ChangeIs DEF h
<1> HIDE DEF k, h, a
<1>10. /\ Fares(memory, r, k, Promised!Refused(op, v, a), Promised!Made(op, v, a), w)
       /\ (\E code : r = Error(code)) \/ (\E m2, g, y : r = Gives(m2, g, y))
  BY <1>1, <1>2, <1>7, MutateFares
<1>11. Promised!Worth(op, v, a) = <<"value">> \o w
  BY <1>1, WorthIs
<1> HIDE DEF v, w, r
<1>12. Perform(memory, s) = Written(memory, place, r)
  BY <1>9, <1>10, FailedIs DEF StoredBack, Written
<1>13. Came(Written(memory, place, r))
  BY <1>12
<1>14. /\ Typed(types, memory') /\ Tidy(memory')
       /\ Promised!Put(place, op, v, a) \/ Promised!Throw("HEAP_LIMIT_EXCEEDED")
  BY <1>1, <1>10, <1>11, <1>13, PutFollows DEF k
<1> QED
  BY <1>4, <1>6, <1>14 DEF Follows

(* An owner that is made to hold another struct, or a new one.             *)
LEMMA RebindFollows ==
  ASSUME CollectionsAssumption, NEW types \in Typings, Typed(types, memory), Tidy(memory), NEW s,
         WellTyped(types, s), s[1] = "rebind", Came(Perform(memory, s))
  PROVE  Follows(types, s)
<1> DEFINE o == s[2]
           t == s[3]
           m2 == [memory EXCEPT !.owners[o] = memory.owners[t]]
<1>1. o \in Owners /\ t \in Owners
  BY DEF WellTyped
<1>2. Perform(memory, s) = Gives(m2, Nil, <<>>)
  BY DEF Perform, Rebind
<1>3. Promised!Means(s) <=> Promised!Rebind(o, t)
  BY DEF Promised!Means
<1> HIDE DEF o, t
<1>4. /\ m2 \in Memories /\ m2.blocks = memory.blocks /\ m2.names = memory.names /\ m2.fields = memory.fields
      /\ m2.owners = [memory.owners EXCEPT ![o] = memory.owners[t]]
      /\ \A y \in Owners : m2.owners[y] = IF y = o THEN memory.owners[t] ELSE memory.owners[y]
  BY <1>1 DEF Typed, Memories
<1> HIDE DEF m2
<1>5. Typed(types, m2) /\ ContentOf(m2) = ContentOf(memory) /\ FieldsOf(m2) = FieldsOf(memory)
  BY <1>1, <1>4, SameBlocks DEF Typed, ContentOf, FieldsOf
<1>6. outcome' = <<"value">> \o <<>> /\ memory' = Collected(m2)
  BY <1>2, FailedIs DEF Came
<1>7. /\ Typed(types, memory') /\ Tidy(memory') /\ NamesMean' = ContentOf(m2) /\ OwnersHold' = m2.owners
      /\ FieldsMean' = Promised!Kept(m2.owners, FieldsOf(m2))
  BY <1>5, <1>6, Lands
<1>8. Promised!Rebind(o, t)
  <2>1. OwnersHold' = [OwnersHold EXCEPT ![o] = OwnersHold[t]]
    BY <1>4, <1>7 DEF OwnersHold
  <2>2. NamesMean' = NamesMean /\ FieldsMean' = Promised!Kept(OwnersHold', FieldsMean)
    BY <1>5, <1>7, Means
  <2>3. outcome' = Promised!Silent
    BY <1>6 DEF Promised!Silent
  <2> QED
    BY <2>1, <2>2, <2>3 DEF Promised!Rebind
<1> QED
  BY <1>3, <1>7, <1>8 DEF Follows

LEMMA NewFollows ==
  ASSUME CollectionsAssumption, NEW types \in Typings, Typed(types, memory), Tidy(memory), NEW s,
         WellTyped(types, s), s[1] = "new", Came(Perform(memory, s))
  PROVE  Follows(types, s)
<1> DEFINE o == s[2]
           from == s[3]
           free == {y \in Structs : memory.fields[y] = Free}
           b == CHOOSE y \in free : TRUE
           h == Read(memory, from)
           v == Meaning(memory, h)
           m2 == [memory EXCEPT !.fields[b] = h, !.owners[o] = b]
<1>1. o \in Owners /\ from \in Places /\ KindOf(types, from) = types.field
  BY DEF WellTyped
<1>2. Perform(memory, s) = IF free = {} THEN Error("HEAP_LIMIT_EXCEEDED") ELSE Gives(m2, Nil, <<>>)
  BY DEF Perform, NewStruct
<1>3. Promised!Means(s) <=> Promised!NewStruct(o, Promised!Got(from))
  BY DEF Promised!Means
<1> HIDE DEF o, from
<1>4. v = Promised!Got(from)
  BY <1>1, GotIs
<1>5. Good(memory, types.field, h) /\ types.field \in Kinds
  BY <1>1, PlaceIs
<1>6. h \in HeaderValues \cup {Nil} /\ h # Free
  BY <1>5, GoodIs
<1> HIDE DEF h
<1>7. CASE free = {}
  BY <1>2, <1>7, Threw DEF Follows
<1>8. CASE free # {}
  <2>1. b \in Structs /\ memory.fields[b] = Free
    BY <1>8
  <2> HIDE DEF b
  <2>2. /\ m2 \in Memories /\ m2.blocks = memory.blocks /\ m2.names = memory.names
        /\ m2.fields = [memory.fields EXCEPT ![b] = h] /\ m2.owners = [memory.owners EXCEPT ![o] = b]
        /\ \A y \in Owners : m2.owners[y] = IF y = o THEN b ELSE memory.owners[y]
        /\ \A y \in Structs : m2.fields[y] = IF y = b THEN h ELSE memory.fields[y]
    BY <1>1, <1>6, <2>1 DEF Typed, Memories
  <2>3. outcome' = <<"value">> \o <<>> /\ memory' = Collected(m2)
    BY <1>2, <1>8, FailedIs DEF Came
  <2> HIDE DEF m2
  <2>4. Typed(types, m2)
    <3>1. \A n \in Names : Good(m2, types.names[n], m2.names[n])
      BY <2>2, SameBlocks DEF Typed
    <3>2. \A y \in Structs : m2.fields[y] # Free => Good(m2, types.field, m2.fields[y])
      BY <1>5, <2>2, SameBlocks DEF Typed
    <3>3. ASSUME NEW y \in Owners, m2.owners[y] # Nil PROVE m2.fields[m2.owners[y]] # Free
      <4>1. CASE y = o
        BY <1>6, <2>1, <2>2, <4>1
      <4>2. CASE y # o
        <5>1. memory.owners[y] \in Structs /\ memory.fields[memory.owners[y]] # Free /\ m2.owners[y] = memory.owners[y]
          BY <2>2, <3>3, <4>2 DEF Typed, Memories
        <5> QED
          BY <1>6, <2>2, <5>1
      <4> QED
        BY <4>1, <4>2
    <3> QED
      BY <2>2, <3>1, <3>2, <3>3 DEF Typed
  <2>5. ContentOf(m2) = ContentOf(memory)
    BY <2>2, SameBlocks DEF ContentOf
  <2>6. FieldsOf(m2) = [FieldsOf(memory) EXCEPT ![b] = v]
    <3>1. \A y \in Structs : (IF m2.fields[y] = Free THEN Free ELSE Meaning(m2, m2.fields[y])) =
            IF y = b THEN v ELSE IF memory.fields[y] = Free THEN Free ELSE Meaning(memory, memory.fields[y])
      BY <1>6, <2>2, SameBlocks
    <3>2. FieldsOf(m2) = [y \in Structs |->
            IF y = b THEN v ELSE IF memory.fields[y] = Free THEN Free ELSE Meaning(memory, memory.fields[y])]
      BY <3>1 DEF FieldsOf
    <3> QED
      BY <3>2 DEF FieldsOf
  <2>7. /\ Typed(types, memory') /\ Tidy(memory') /\ NamesMean' = ContentOf(m2) /\ OwnersHold' = m2.owners
        /\ FieldsMean' = Promised!Kept(m2.owners, FieldsOf(m2))
    BY <2>3, <2>4, Lands
  <2>8. Promised!NewStruct(o, v)
    <3>1. OwnersHold' = [OwnersHold EXCEPT ![o] = b]
      BY <2>2, <2>7 DEF OwnersHold
    <3>2. NamesMean' = NamesMean /\ FieldsMean' = Promised!Kept(OwnersHold', [FieldsMean EXCEPT ![b] = v])
      BY <2>5, <2>6, <2>7, Means
    <3>3. outcome' = Promised!Silent
      BY <2>3 DEF Promised!Silent
    <3>4. b \in {y \in Structs : FieldsMean[y] = Free}
      BY <2>1 DEF FieldsMean
    <3> QED
      BY <3>1, <3>2, <3>3, <3>4 DEF Promised!NewStruct
  <2> QED
    BY <1>3, <1>4, <2>7, <2>8 DEF Follows
<1> QED
  BY <1>7, <1>8

-----------------------------------------------------------------------------
(* What a name or the body of a struct means, wherever it is.              *)
Wheres == ({"name"} \X Names) \cup ({"body"} \X Structs)
Mean(m, where) == IF where[1] = "name" THEN ContentOf(m)[where[2]] ELSE FieldsOf(m)[where[2]]
Becoming(m, m2, target, v) ==
  \A where \in Wheres : Mean(m2, where) = IF where = target THEN v ELSE Mean(m, where)

(* To store to a target, told of contents.                                 *)
LEMMA StoreMean ==
  ASSUME CollectionsAssumption, NEW types \in Typings, NEW m, Typed(types, m), NEW target \in Targets(m),
         NEW h, Good(m, KindAt(types, target), h)
  PROVE  Becoming(m, StoreTo(m, target, h), target, Meaning(m, h))
<1> DEFINE m2 == StoreTo(m, target, h)
           v == Meaning(m, h)
<1>1. /\ target[1] = "name" => /\ ContentOf(m2) = [ContentOf(m) EXCEPT ![target[2]] = v]
                               /\ FieldsOf(m2) = FieldsOf(m)
      /\ target[1] # "name" => /\ ContentOf(m2) = ContentOf(m)
                               /\ FieldsOf(m2) = [FieldsOf(m) EXCEPT ![target[2]] = v]
  BY StoreTyped
<1>2. DOMAIN ContentOf(m) = Names /\ DOMAIN FieldsOf(m) = Structs
  BY DEF ContentOf, FieldsOf
<1>3. target \in Wheres
  BY DEF Targets, Wheres
<1> HIDE DEF m2, v
<1>4. ASSUME NEW where \in Wheres
      PROVE  Mean(m2, where) = IF where = target THEN v ELSE Mean(m, where)
  <2>1. CASE where[1] = "name"
    <3>1. PICK n \in Names : where = <<"name", n>>
      BY <2>1 DEF Wheres
    <3>2. CASE target[1] = "name"
      <4>1. PICK n2 \in Names : target = <<"name", n2>>
        BY <1>3, <3>2 DEF Wheres
      <4> QED
        BY <1>1, <1>2, <3>1, <4>1 DEF Mean
    <3>3. CASE target[1] # "name"
      BY <1>1, <3>1, <3>3 DEF Mean
    <3> QED
      BY <3>2, <3>3
  <2>2. CASE where[1] # "name"
    <3>1. PICK b \in Structs : where = <<"body", b>>
      BY <2>2 DEF Wheres
    <3>2. CASE target[1] = "name"
      BY <1>1, <3>1, <3>2 DEF Mean
    <3>3. CASE target[1] # "name"
      <4>1. PICK b2 \in Structs : target = <<"body", b2>>
        BY <1>3, <3>3 DEF Wheres
      <4> QED
        BY <1>1, <1>2, <3>1, <4>1 DEF Mean
    <3> QED
      BY <3>2, <3>3
  <2> QED
    BY <2>1, <2>2
<1> QED
  BY <1>4 DEF Becoming, m2, v

LEMMA MeanIs ==
  ASSUME CollectionsAssumption, NEW types \in Typings, NEW m, Typed(types, m), NEW place \in Places, Reaches(m, place)
  PROVE  /\ Target(m, place) \in Wheres
         /\ Meaning(m, Read(m, place)) = Mean(m, Target(m, place))
<1>1. Target(m, place) \in Targets(m)
  BY PlaceIs
<1>2. Target(m, place) \in Wheres
  BY <1>1 DEF Targets, Wheres
<1>3. CASE place[1] = "name"
  <2>1. PICK n \in Names : place = <<"name", n>>
    BY <1>3 DEF Places
  <2> QED
    BY <1>2, <2>1 DEF Target, Mean, ContentOf, Read
<1>4. CASE place[1] # "name"
  <2>1. PICK s \in Owners : place = <<"field", s>>
    BY <1>4 DEF Places
  <2>2. m.owners[s] # Nil /\ Target(m, place) = <<"body", m.owners[s]>>
    BY <2>1 DEF Reaches, Target
  <2>3. m.owners[s] \in Structs /\ m.fields[m.owners[s]] # Free
    BY <2>2 DEF Typed, Memories
  <2>4. Read(m, place) = m.fields[m.owners[s]]
    BY <2>1, <2>2 DEF Read, Field
  <2> QED
    BY <1>2, <2>2, <2>3, <2>4 DEF Mean, FieldsOf
<1> QED
  BY <1>3, <1>4

LEMMA GrownMean ==
  ASSUME CollectionsAssumption, NEW types \in Typings, NEW m, Typed(types, m), NEW m2, Grown(m, m2), NEW where
  PROVE  Mean(m2, where) = Mean(m, where)
  BY GrownTyped DEF Mean

(* place.op(args), for a place that can be written.                        *)
Keeping(m, m2) ==
  \A k \in Kinds : \A h : Good(m, k, h) => Good(m2, k, h) /\ Meaning(m2, h) = Meaning(m, h)

(* One turn of a loop, or one change, from any memory.                     *)
LEMMA TurnDoes ==
  ASSUME CollectionsAssumption, NEW types \in Typings, NEW m, Typed(types, m), NEW place \in Places,
         Reaches(m, place), NEW op, NEW a, <<KindOf(types, place), op>> \in Changes, Suits(op, a)
  PROVE  LET v == Mean(m, Target(m, place))
             r == MutatePlain(m, place, op, a)
             refused == Promised!Refused(op, v, a) IN
         \/ refused # "ok" /\ r = Error(refused)
         \/ r = Error("HEAP_LIMIT_EXCEEDED")
         \/ /\ refused = "ok"
            /\ \E m2, g : /\ r = Gives(m2, g, Gained(op, v, a))
                          /\ Typed(types, m2) /\ m2.owners = m.owners /\ Keeping(m, m2)
                          /\ Tidy(m) => Tidy(m2)
                          /\ Becoming(m, m2, Target(m, place), Promised!Made(op, v, a))
<1> DEFINE h == Read(m, place)
           r == Mutate(m, op, h, a)
           v == Meaning(m, h)
           k == KindOf(types, place)
           w == Gained(op, v, a)
           target == Target(m, place)
           refused == Promised!Refused(op, v, a)
           made == Promised!Made(op, v, a)
<1>1. Good(m, k, h) /\ k \in Kinds
  BY PlaceIs
<1>2. v = Mean(m, target)
  BY MeanIs
<1>3. MutatePlain(m, place, op, a) = IF Failed(r) THEN r ELSE Gives(StoreTo(r.memory, target, r.value), r.value, r.result)
  BY MutatePlainIs
<1>4. target \in Targets(m) /\ KindAt(types, target) = k
  BY PlaceIs
<1>5. m \in Memories
  BY DEF Typed
<1> HIDE DEF h, k, target
<1>6. Fares(m, r, k, refused, made, w)
  <2>1. <<k, op>> \in Changes
    BY DEF k
  <2> QED
    BY <1>1, <1>5, <2>1, MutateFares
<1> HIDE DEF v, w, r, refused, made
<1>7. CASE refused # "ok"
  <2>1. r = Error(refused)
    BY <1>6, <1>7 DEF Fares
  <2> QED
    BY <1>2, <1>3, <1>7, <2>1, FailedIs DEF refused, target
<1>8. CASE refused = "ok" /\ r = Error("HEAP_LIMIT_EXCEEDED")
  BY <1>3, <1>8, FailedIs
<1>9. CASE refused = "ok" /\ r # Error("HEAP_LIMIT_EXCEEDED")
  <2>1. PICK m2, g : m2 \in Memories /\ r = Gives(m2, g, w) /\ Grown(m, m2) /\ Good(m2, k, g) /\ Meaning(m2, g) = made
    BY <1>6, <1>9 DEF Fares
  <2> m2 \in Memories
    BY <2>1
  <2> DEFINE m3 == StoreTo(m2, target, g)
  <2>2. MutatePlain(m, place, op, a) = Gives(m3, g, w)
    BY <1>3, <2>1, FailedIs
  <2>3. Typed(types, m2) /\ m2.owners = m.owners /\ (Tidy(m) => Tidy(m2))
    BY <2>1, GrownTyped
  <2>4. target \in Targets(m2)
    BY <1>4, <2>1 DEF Grown, Targets
  <2>5. /\ Typed(types, m3) /\ (Tidy(m2) => Tidy(m3)) /\ m3.owners = m2.owners /\ m3.blocks = m2.blocks
    BY <1>4, <2>1, <2>3, <2>4, StoreTyped
  <2>6. Becoming(m2, m3, target, made)
    BY <1>4, <2>1, <2>3, <2>4, StoreMean
  <2> HIDE DEF m3
  <2>7. Becoming(m, m3, target, made)
    BY <2>1, <2>6, GrownMean DEF Becoming
  <2>8. Keeping(m, m3)
    <3>1. ASSUME NEW k2 \in Kinds, NEW h2, Good(m, k2, h2)
          PROVE  Good(m3, k2, h2) /\ Meaning(m3, h2) = Meaning(m, h2)
      <4>1. Good(m2, k2, h2) /\ Meaning(m2, h2) = Meaning(m, h2)
        BY <1>5, <2>1, <3>1, GrownKeeps
      <4> QED
        BY <2>5, <4>1, SameBlocks
    <3> QED
      BY <3>1 DEF Keeping
  <2> QED
    BY <1>2, <1>9, <2>2, <2>3, <2>5, <2>7, <2>8 DEF refused, made, w, target
<1> QED
  BY <1>7, <1>8, <1>9

(* place.op(other.pop())                                                   *)
LEMMA PopFollows ==
  ASSUME CollectionsAssumption, NEW types \in Typings, Typed(types, memory), Tidy(memory), NEW s,
         WellTyped(types, s), s[1] = "change", s[5][1] = "pop", Came(Perform(memory, s))
  PROVE  Follows(types, s)
<1> DEFINE place == s[2]
           op == s[3]
           b == s[4]
           other == s[5][2]
           h == Read(memory, place)
           v == Meaning(memory, h)
           k == KindOf(types, place)
           tp == Target(memory, place)
           to == Target(memory, other)
           v1 == Mean(memory, to)
           refused1 == Promised!Refused("array.pop", v1, <<>>)
           x == v1.of[Len(v1.of)]
           a == Append(b, x)
           refused2 == Promised!Refused(op, v, a)
           made1 == Promised!Made("array.pop", v1, <<>>)
           made2 == Promised!Made(op, v, a)
           argument == MutatePlain(memory, other, "array.pop", <<>>)
<1>1. /\ place \in Places /\ <<k, op>> \in Changes /\ b \in Seq(Elements)
      /\ other \in Places /\ KindOf(types, other) = "array"
      /\ \A y \in Elements : Suits(op, Append(b, y))
  BY DEF WellTyped
<1>2. Perform(memory, s) = Change(memory, place, op, b, s[5])
  BY DEF Perform
<1>3. Promised!Means(s) <=> Promised!PutPopped(place, op, b, other)
  BY DEF Promised!Means
<1>4. Argument(memory, s[5]) = argument
  BY DEF Argument
<1> HIDE DEF place, op, b, other
<1>5. v = Promised!Got(place) /\ (Promised!Writable(place) <=> Reaches(memory, place))
  BY <1>1, GotIs
<1>6. Good(memory, k, h) /\ k \in Kinds
  BY <1>1, PlaceIs
<1>7. /\ Promised!Writable(other) <=> Reaches(memory, other)
      /\ Reaches(memory, other) => v1 = Promised!Got(other)
  BY <1>1, GotIs, MeanIs
<1> HIDE DEF h, k, v, tp, to, v1, argument, made1, made2, refused1, refused2, a, x
<1>8. ASSUME NEW code, Perform(memory, s) = Error(code)
      PROVE  Typed(types, memory') /\ Tidy(memory') /\ Promised!Throw(code)
  BY <1>8, Threw
<1>9. CASE ~Reaches(memory, place)
  <2>1. Perform(memory, s) = Error("NA_STRUCT_WRITE")
    BY <1>1, <1>2, <1>9, ChangeIs
  <2> QED
    BY <1>3, <1>5, <1>8, <1>9, <2>1 DEF Follows, Promised!PutPopped
<1>10. ASSUME NEW code, Reaches(memory, place), argument = Error(code) PROVE Perform(memory, s) = Error(code)
  BY <1>1, <1>2, <1>4, <1>10, ChangeIs
<1>11. Suits("array.pop", <<>>)
  BY DEF Suits
<1>12. CASE Reaches(memory, place) /\ ~Reaches(memory, other)
  <2>1. argument = Error("NA_STRUCT_WRITE")
    BY <1>1, <1>11, <1>12, MutatePlainIs DEF argument, Changes
  <2> QED
    BY <1>3, <1>5, <1>7, <1>8, <1>10, <1>12, <2>1 DEF Follows, Promised!PutPopped
<1>13. CASE Reaches(memory, place) /\ Reaches(memory, other)
  <2>1. \/ refused1 # "ok" /\ argument = Error(refused1)
        \/ argument = Error("HEAP_LIMIT_EXCEEDED")
        \/ /\ refused1 = "ok"
           /\ \E m2, g : /\ argument = Gives(m2, g, Gained("array.pop", v1, <<>>))
                         /\ Typed(types, m2) /\ m2.owners = memory.owners /\ Keeping(memory, m2)
                         /\ Tidy(memory) => Tidy(m2)
                         /\ Becoming(memory, m2, to, made1)
    BY <1>1, <1>11, <1>13, TurnDoes DEF Changes, argument, refused1, made1, v1, to
  <2>2. CASE refused1 # "ok" /\ argument = Error(refused1)
    <3>1. Typed(types, memory') /\ Tidy(memory') /\ Promised!Throw(refused1)
      BY <1>8, <1>10, <1>13, <2>2
    <3>2. Promised!PutPopped(place, op, b, other)
      BY <1>5, <1>7, <1>13, <2>2, <3>1 DEF Promised!PutPopped, refused1
    <3> QED
      BY <1>3, <3>1, <3>2 DEF Follows
  <2>3. CASE argument = Error("HEAP_LIMIT_EXCEEDED")
    BY <1>8, <1>10, <1>13, <2>3 DEF Follows
  <2>4. ASSUME refused1 = "ok", NEW m2, NEW g, argument = Gives(m2, g, Gained("array.pop", v1, <<>>)),
               Typed(types, m2), m2.owners = memory.owners, Keeping(memory, m2), Tidy(memory) => Tidy(m2),
               Becoming(memory, m2, to, made1)
        PROVE  Follows(types, s)
    <3>1. x \in Elements
      <4> DEFINE g1 == Read(memory, other)
      <4>1. Good(memory, "array", g1) /\ v1 = Meaning(memory, g1)
        BY <1>1, <1>13, PlaceIs, MeanIs DEF v1, to
      <4> HIDE DEF g1
      <4>2. v1 # Nil /\ v1.of # <<>>
        BY <2>4 DEF refused1, Promised!Refused
      <4>3. Sound(memory, "array", g1)
        BY <4>1, <4>2 DEF Good, Meaning
      <4>4. v1.of \in Seq(Elements)
        BY <4>1, <4>3, SoundArray
      <4> QED
        BY <4>2, <4>4 DEF x
    <3>2. Suits(op, a) /\ b \o <<x>> = a
      BY <1>1, <3>1, AppendIs DEF a
    <3> DEFINE r == Mutate(m2, op, h, a)
               w == Gained(op, v, a)
    <3>3. Perform(memory, s) = StoredBack(memory, place, r)
      <4>1. Argument(memory, s[5]) = Gives(m2, g, <<x>>)
        BY <1>4, <2>4 DEF Gained, x
      <4> QED
        BY <1>1, <1>2, <1>13, <3>2, <4>1, ChangeIs DEF h
    <3>4. Good(m2, k, h) /\ Meaning(m2, h) = v
      BY <1>6, <2>4 DEF Keeping, v
    <3>5. m2 \in Memories
      BY <2>4 DEF Typed
    <3>6. Fares(m2, r, k, refused2, made2, w)
      BY <1>1, <1>6, <3>2, <3>4, <3>5, MutateFares DEF refused2, made2
    <3>7. Promised!Worth(op, v, a) = <<"value">> \o w
      BY <1>1, WorthIs
    <3>8. refused1 = Promised!Refused("array.pop", Promised!Got(other), <<>>)
          /\ Append(b, Promised!Last(Promised!Got(other).of)) = a
      BY <1>7, <1>13 DEF refused1, a, x, Promised!Last
    <3> HIDE DEF r, w
    <3>9. CASE refused2 # "ok"
      <4>1. r = Error(refused2)
        BY <3>6, <3>9 DEF Fares
      <4>2. Perform(memory, s) = Error(refused2)
        BY <3>3, <4>1, FailedIs DEF StoredBack
      <4>3. Typed(types, memory') /\ Tidy(memory') /\ Promised!Throw(refused2)
        BY <1>8, <4>2
      <4>4. Promised!PutPopped(place, op, b, other)
        BY <1>5, <1>7, <1>13, <2>4, <3>8, <3>9, <4>3 DEF Promised!PutPopped, refused2
      <4> QED
        BY <1>3, <4>3, <4>4 DEF Follows
    <3>10. CASE refused2 = "ok" /\ r = Error("HEAP_LIMIT_EXCEEDED")
      <4>1. Perform(memory, s) = Error("HEAP_LIMIT_EXCEEDED")
        BY <3>3, <3>10, FailedIs DEF StoredBack
      <4> QED
        BY <1>8, <4>1 DEF Follows
    <3>11. CASE refused2 = "ok" /\ r # Error("HEAP_LIMIT_EXCEEDED")
      <4>1. PICK m3, h3 : m3 \in Memories /\ r = Gives(m3, h3, w) /\ Grown(m2, m3) /\ Good(m3, k, h3) /\ Meaning(m3, h3) = made2
        BY <3>6, <3>11 DEF Fares
      <4> m3 \in Memories
        BY <4>1
      <4> DEFINE m4 == StoreTo(m3, tp, h3)
      <4>2. Perform(memory, s) = Gives(m4, Nil, w)
        BY <3>3, <4>1, FailedIs DEF StoredBack, tp
      <4>3. outcome' = <<"value">> \o w /\ memory' = Collected(m4)
        BY <4>2, FailedIs DEF Came
      <4>4. Typed(types, m3) /\ Tidy(m3) /\ m3.owners = memory.owners
        BY <2>4, <4>1, GrownTyped
      <4>5. tp \in Targets(m3) /\ KindAt(types, tp) = k
        <5>1. Reaches(m3, place) /\ Target(m3, place) = tp
          BY <1>13, <4>4 DEF Reaches, Target, tp
        <5> QED
          BY <1>1, <4>4, <5>1, PlaceIs DEF k
      <4>6. Typed(types, m4) /\ Tidy(m4) /\ m4.owners = memory.owners
        BY <4>1, <4>4, <4>5, StoreTyped
      <4>7. Becoming(m3, m4, tp, made2)
        BY <4>1, <4>4, <4>5, StoreMean
      <4> HIDE DEF m4
      <4>8. \A where \in Wheres : Mean(m4, where) =
              IF where = tp THEN made2 ELSE IF where = to THEN made1 ELSE Mean(memory, where)
        BY <2>4, <4>1, <4>7, GrownMean DEF Becoming
      <4>9. /\ Typed(types, memory') /\ Tidy(memory') /\ NamesMean' = ContentOf(m4) /\ OwnersHold' = m4.owners
            /\ FieldsMean' = FieldsOf(m4)
        BY <4>3, <4>6, Lands
      <4> DEFINE is(p, where) == IF p[1] = "name" THEN p = where ELSE <<"body", OwnersHold[p[2]]>> = where
                 after(where) == IF is(place, where) THEN made2 ELSE IF is(other, where) THEN made1
                                 ELSE IF where[1] = "name" THEN NamesMean[where[2]] ELSE FieldsMean[where[2]]
      <4>10. ASSUME NEW where \in Wheres PROVE Mean(m4, where) = after(where)
        <5>1. is(place, where) <=> where = tp
          BY DEF tp, Target, OwnersHold
        <5>2. is(other, where) <=> where = to
          BY DEF to, Target, OwnersHold
        <5>3. Mean(memory, where) = IF where[1] = "name" THEN NamesMean[where[2]] ELSE FieldsMean[where[2]]
          BY Means DEF Mean
        <5> HIDE DEF is
        <5> QED
          BY <4>8, <5>1, <5>2, <5>3
      <4>11. NamesMean' = [n \in Names |-> after(<<"name", n>>)]
        <5>1. \A n \in Names : ContentOf(m4)[n] = after(<<"name", n>>)
          <6> SUFFICES ASSUME NEW n \in Names PROVE ContentOf(m4)[n] = after(<<"name", n>>)
            OBVIOUS
          <6>1. <<"name", n>> \in Wheres
            BY DEF Wheres
          <6>2. Mean(m4, <<"name", n>>) = ContentOf(m4)[n]
            BY DEF Mean
          <6> HIDE DEF after
          <6> QED
            BY <4>10, <6>1, <6>2
        <5>2. ContentOf(m4) = [n \in Names |-> ContentOf(m4)[n]]
          BY DEF ContentOf
        <5> HIDE DEF after
        <5> QED
          BY <4>9, <5>1, <5>2
      <4>12. FieldsMean' = [y \in Structs |-> after(<<"body", y>>)]
        <5>1. \A y \in Structs : FieldsOf(m4)[y] = after(<<"body", y>>)
          <6> SUFFICES ASSUME NEW y \in Structs PROVE FieldsOf(m4)[y] = after(<<"body", y>>)
            OBVIOUS
          <6>1. <<"body", y>> \in Wheres
            BY DEF Wheres
          <6>2. Mean(m4, <<"body", y>>) = FieldsOf(m4)[y]
            BY DEF Mean
          <6> HIDE DEF after
          <6> QED
            BY <4>10, <6>1, <6>2
        <5>2. FieldsOf(m4) = [y \in Structs |-> FieldsOf(m4)[y]]
          BY DEF FieldsOf
        <5> HIDE DEF after
        <5> QED
          BY <4>9, <5>1, <5>2
      <4>13. made1 = Promised!Made("array.pop", Promised!Got(other), <<>>) /\ made2 = Promised!Made(op, Promised!Got(place), a)
        BY <1>5, <1>7, <1>13 DEF made1, made2
      <4>14. outcome' = Promised!Worth(op, Promised!Got(place), a) /\ OwnersHold' = OwnersHold
        BY <1>5, <3>7, <4>3, <4>6, <4>9 DEF OwnersHold
      <4>15. refused2 = Promised!Refused(op, Promised!Got(place), a)
        BY <1>5 DEF refused2
      <4>16. Promised!PutPopped(place, op, b, other)
        BY <1>5, <1>7, <1>13, <2>4, <3>8, <3>11, <4>11, <4>12, <4>13, <4>14, <4>15 DEF Promised!PutPopped
      <4> QED
        BY <1>3, <4>9, <4>16 DEF Follows
    <3> QED
      BY <3>9, <3>10, <3>11
  <2> QED
    BY <2>1, <2>2, <2>3, <2>4
<1> QED
  BY <1>9, <1>12, <1>13

(* place.op(block that rebinds an owner, then a value)                     *)
LEMMA BlockFollows ==
  ASSUME CollectionsAssumption, NEW types \in Typings, Typed(types, memory), Tidy(memory), NEW s,
         WellTyped(types, s), s[1] = "change", s[5][1] = "rebind", Came(Perform(memory, s))
  PROVE  Follows(types, s)
<1> DEFINE place == s[2]
           op == s[3]
           b == s[4]
           o == s[5][2]
           t == s[5][3]
           x == s[5][4]
           a == Append(b, x)
           m2 == [memory EXCEPT !.owners[o] = memory.owners[t]]
           h == Read(memory, place)
           r == Mutate(m2, op, h, a)
           v == Meaning(memory, h)
           k == KindOf(types, place)
           w == Gained(op, v, a)
           tp == Target(memory, place)
           refused == Promised!Refused(op, v, a)
           made == Promised!Made(op, v, a)
<1>1. /\ place \in Places /\ <<k, op>> \in Changes /\ b \in Seq(Elements) /\ x \in Elements
      /\ o \in Owners /\ t \in Owners /\ Suits(op, a)
  BY DEF WellTyped
<1>2. Perform(memory, s) = Change(memory, place, op, b, s[5])
  BY DEF Perform
<1>3. Promised!Means(s) <=> Promised!PutRebinding(place, op, a, o, t)
  BY DEF Promised!Means
<1>4. Argument(memory, s[5]) = Gives(m2, Nil, <<x>>)
  BY DEF Argument
<1> HIDE DEF place, op, b, x, o, t
<1>5. v = Promised!Got(place) /\ (Promised!Writable(place) <=> Reaches(memory, place))
  BY <1>1, GotIs
<1>6. Good(memory, k, h) /\ k \in Kinds
  BY <1>1, PlaceIs
<1>7. b \o <<x>> = a
  BY <1>1, AppendIs
<1>8. /\ m2 \in Memories /\ m2.blocks = memory.blocks /\ m2.names = memory.names /\ m2.fields = memory.fields
      /\ m2.owners = [memory.owners EXCEPT ![o] = memory.owners[t]]
      /\ \A y \in Owners : m2.owners[y] = IF y = o THEN memory.owners[t] ELSE memory.owners[y]
  BY <1>1 DEF Typed, Memories
<1>9. /\ ~Reaches(memory, place) => Perform(memory, s) = Error("NA_STRUCT_WRITE")
      /\ Reaches(memory, place) => Perform(memory, s) = StoredBack(memory, place, r)
  <2> HIDE DEF a, h, m2
  <2> QED
    BY <1>1, <1>2, <1>4, <1>7, ChangeIs DEF h
<1> HIDE DEF m2
<1>10. Typed(types, m2) /\ ContentOf(m2) = ContentOf(memory) /\ FieldsOf(m2) = FieldsOf(memory)
  BY <1>1, <1>8, SameBlocks DEF Typed, ContentOf, FieldsOf
<1>11. Good(m2, k, h) /\ Meaning(m2, h) = v
  BY <1>6, <1>8, SameBlocks
<1> HIDE DEF h, k, v, tp, refused, made, a
<1>12. Fares(m2, r, k, refused, made, w)
  BY <1>1, <1>6, <1>8, <1>11, MutateFares DEF refused, made
<1>13. Promised!Worth(op, v, a) = <<"value">> \o w
  BY <1>1, WorthIs
<1> HIDE DEF r, w
<1>14. ASSUME NEW code, Perform(memory, s) = Error(code)
       PROVE  Typed(types, memory') /\ Tidy(memory') /\ Promised!Throw(code)
  BY <1>14, Threw
<1>15. CASE ~Reaches(memory, place)
  <2>1. Promised!Throw("NA_STRUCT_WRITE") /\ Typed(types, memory') /\ Tidy(memory')
    BY <1>9, <1>14, <1>15
  <2> QED
    BY <1>3, <1>5, <1>15, <2>1 DEF Follows, Promised!PutRebinding
<1>16. CASE Reaches(memory, place) /\ refused # "ok"
  <2>1. r = Error(refused)
    BY <1>12, <1>16 DEF Fares
  <2>2. Perform(memory, s) = Error(refused)
    BY <1>9, <1>16, <2>1, FailedIs DEF StoredBack
  <2>3. Promised!Throw(refused) /\ Typed(types, memory') /\ Tidy(memory')
    BY <1>14, <2>2
  <2>4. Promised!PutRebinding(place, op, a, o, t)
    BY <1>5, <1>16, <2>3 DEF refused, Promised!PutRebinding
  <2> QED
    BY <1>3, <2>3, <2>4 DEF Follows
<1>17. CASE Reaches(memory, place) /\ refused = "ok" /\ r = Error("HEAP_LIMIT_EXCEEDED")
  <2>1. Perform(memory, s) = Error("HEAP_LIMIT_EXCEEDED")
    BY <1>9, <1>17, FailedIs DEF StoredBack
  <2> QED
    BY <1>14, <2>1 DEF Follows
<1>18. CASE Reaches(memory, place) /\ refused = "ok" /\ r # Error("HEAP_LIMIT_EXCEEDED")
  <2>1. PICK m3, g : m3 \in Memories /\ r = Gives(m3, g, w) /\ Grown(m2, m3) /\ Good(m3, k, g) /\ Meaning(m3, g) = made
    BY <1>12, <1>18 DEF Fares
  <2> m3 \in Memories
    BY <2>1
  <2> DEFINE m4 == StoreTo(m3, tp, g)
  <2>2. Perform(memory, s) = Gives(m4, Nil, w)
    BY <1>9, <1>18, <2>1, FailedIs DEF StoredBack, tp
  <2>3. outcome' = <<"value">> \o w /\ memory' = Collected(m4)
    BY <2>2, FailedIs DEF Came
  <2>4. /\ Typed(types, m3) /\ m3.owners = m2.owners
        /\ ContentOf(m3) = ContentOf(memory) /\ FieldsOf(m3) = FieldsOf(memory)
    BY <1>10, <2>1, GrownTyped
  <2>5. tp \in Targets(m3) /\ KindAt(types, tp) = k
    <3>1. tp \in Targets(memory) /\ KindAt(types, tp) = k
      BY <1>1, <1>18, PlaceIs DEF tp, k
    <3>2. m3.fields = memory.fields
      BY <1>8, <2>1 DEF Grown
    <3> QED
      BY <3>1, <3>2 DEF Targets
  <2>6. /\ Typed(types, m4) /\ m4.owners = m2.owners
        /\ tp[1] = "name" => /\ ContentOf(m4) = [ContentOf(memory) EXCEPT ![tp[2]] = made]
                             /\ FieldsOf(m4) = FieldsOf(memory)
        /\ tp[1] # "name" => /\ ContentOf(m4) = ContentOf(memory)
                             /\ FieldsOf(m4) = [FieldsOf(memory) EXCEPT ![tp[2]] = made]
    BY <2>1, <2>4, <2>5, StoreTyped
  <2> HIDE DEF m4
  <2>7. /\ Typed(types, memory') /\ Tidy(memory') /\ NamesMean' = ContentOf(m4) /\ OwnersHold' = m2.owners
        /\ FieldsMean' = Promised!Kept(m2.owners, FieldsOf(m4))
    BY <2>3, <2>6, Lands
  <2>8. NamesMean = ContentOf(memory) /\ FieldsMean = FieldsOf(memory) /\ OwnersHold = memory.owners
    BY Means
  <2>9. (tp[1] = "name" <=> place[1] = "name")
        /\ (place[1] = "name" => tp[2] = place[2]) /\ (place[1] # "name" => tp[2] = memory.owners[place[2]])
    <3>1. tp[1] = "name" <=> place[1] = "name"
      BY <1>1, PlaceIs DEF tp
    <3> QED
      BY <3>1 DEF tp, Target
  <2> DEFINE all == IF place[1] = "name" THEN FieldsMean ELSE [FieldsMean EXCEPT ![OwnersHold[place[2]]] = made]
  <2>10. FieldsOf(m4) = all
    BY <2>6, <2>8, <2>9
  <2>11. OwnersHold' = [OwnersHold EXCEPT ![o] = OwnersHold[t]]
    BY <1>8, <2>7, <2>8
  <2>12. FieldsMean' = Promised!Kept(OwnersHold', all)
    <3> HIDE DEF all
    <3> QED
      BY <2>7, <2>10
  <2>13. NamesMean' = IF place[1] = "name" THEN [NamesMean EXCEPT ![place[2]] = made] ELSE NamesMean
    BY <2>6, <2>7, <2>8, <2>9
  <2>14. outcome' = Promised!Worth(op, Promised!Got(place), a)
    BY <1>5, <1>13, <2>3
  <2>15. made = Promised!Made(op, Promised!Got(place), a) /\ refused = Promised!Refused(op, Promised!Got(place), a)
    BY <1>5 DEF made, refused
  <2>16. Promised!PutRebinding(place, op, a, o, t)
    BY <1>5, <1>18, <2>11, <2>12, <2>13, <2>14, <2>15 DEF Promised!PutRebinding
  <2> QED
    BY <1>3, <2>7, <2>16 DEF Follows
<1> QED
  BY <1>15, <1>16, <1>17, <1>18

-----------------------------------------------------------------------------
(* The turns of a loop, one after the other.                               *)
Turned(f, m, place, op, L, n) ==
  /\ f[0] = Gives(m, Nil, L)
  /\ \A i \in 1..n : f[i] = IF Failed(f[i - 1]) THEN f[i - 1] ELSE Turn(f[i - 1].memory, place, op, L[i])

(* There is a function with the recurrence of the turns.                   *)
LEMMA TurnsExist ==
  ASSUME NEW m, NEW place, NEW op, NEW L, NEW n \in Nat
  PROVE  \E f : DOMAIN f = 0..n /\ f = [i \in 0..n |-> f[i]] /\ Turned(f, m, place, op, L, n)
<1> DEFINE Is(f, k) == DOMAIN f = 0..k /\ f = [i \in 0..k |-> f[i]] /\ Turned(f, m, place, op, L, k)
           T == {k \in Nat : \E f : Is(f, k)}
<1>1. 0 \in T
  <2> DEFINE g == [i \in 0..0 |-> Gives(m, Nil, L)]
  <2>1. DOMAIN g = 0..0 /\ g[0] = Gives(m, Nil, L) /\ g = [i \in 0..0 |-> g[i]]
    OBVIOUS
  <2> HIDE DEF g
  <2>2. Is(g, 0)
    BY <2>1 DEF Turned
  <2> QED
    BY <2>2
<1>2. ASSUME NEW k \in Nat, k \in T PROVE k + 1 \in T
  <2>1. PICK f : Is(f, k)
    BY <1>2
  <2> DEFINE next == IF Failed(f[k]) THEN f[k] ELSE Turn(f[k].memory, place, op, L[k + 1])
  <2> HIDE DEF next
  <2> DEFINE g == [i \in 0..(k + 1) |-> IF i = k + 1 THEN next ELSE f[i]]
  <2>2. DOMAIN g = 0..(k + 1) /\ g = [i \in 0..(k + 1) |-> g[i]]
    OBVIOUS
  <2>3. g[k + 1] = next
    OBVIOUS
  <2>7. \A i \in 0..k : g[i] = f[i]
    OBVIOUS
  <2> HIDE DEF g, T
  <2>4. ASSUME NEW i \in 1..(k + 1)
        PROVE  g[i] = IF Failed(g[i - 1]) THEN g[i - 1] ELSE Turn(g[i - 1].memory, place, op, L[i])
    <3>1. CASE i = k + 1
      <4>1. i - 1 = k /\ g[k] = f[k]
        BY <2>7, <3>1
      <4> QED
        BY <2>3, <3>1, <4>1 DEF next
    <3>2. CASE i # k + 1
      <4>1. i \in 1..k /\ i \in 0..k /\ i - 1 \in 0..k
        BY <3>2
      <4>2. g[i] = f[i] /\ g[i - 1] = f[i - 1]
        BY <2>7, <4>1
      <4> QED
        BY <2>1, <4>1, <4>2 DEF Turned
    <3> QED
      BY <3>1, <3>2
  <2>5. g[0] = Gives(m, Nil, L)
    BY <2>1, <2>7 DEF Turned
  <2>6. Is(g, k + 1)
    BY <2>2, <2>4, <2>5 DEF Turned
  <2> QED
    BY <2>6 DEF T
<1>3. Nat \subseteq T
  <2> HIDE DEF T
  <2> QED
    BY <1>1, <1>2, Induction
<1> QED
  BY <1>3

(* Turns is where the recurrence ends.                                     *)
LEMMA TurnsAre ==
  ASSUME NEW m, NEW place, NEW op, NEW S, NEW L \in Seq(S)
  PROVE  \E f : Turned(f, m, place, op, L, Len(L)) /\ Turns(Gives(m, Nil, L), place, op) = f[Len(L)]
<1> DEFINE s == Gives(m, Nil, L)
           n == Len(L)
           Unfold(g) == [i \in 0..n |->
             IF i = 0 THEN s ELSE IF Failed(g[i - 1]) THEN g[i - 1] ELSE Turn(g[i - 1].memory, place, op, L[i])]
           after == CHOOSE g : g = Unfold(g)
<1>1. n \in Nat /\ s.result = L
  BY FailedIs
<1>2. PICK f : DOMAIN f = 0..n /\ f = [i \in 0..n |-> f[i]] /\ Turned(f, m, place, op, L, n)
  BY <1>1, TurnsExist
<1>3. f = Unfold(f)
  <2>1. ASSUME NEW i \in 0..n PROVE f[i] = Unfold(f)[i]
    <3>1. CASE i = 0
      BY <1>2, <3>1 DEF Turned
    <3>2. CASE i # 0
      <4>1. i \in 1..n
        BY <1>1, <3>2
      <4>2. f[i] = IF Failed(f[i - 1]) THEN f[i - 1] ELSE Turn(f[i - 1].memory, place, op, L[i])
        BY <1>2, <4>1 DEF Turned
      <4> QED
        BY <3>2, <4>2
    <3> QED
      BY <3>1, <3>2
  <2> QED
    BY <1>2, <2>1
<1>4. after = Unfold(after)
  <2> HIDE DEF Unfold
  <2> QED
    BY <1>3
<1>5. Turns(s, place, op) = after[n]
  BY <1>1 DEF Turns, Then
<1> HIDE DEF after
<1>6. Turned(after, m, place, op, L, n)
  <2>1. after[0] = s
    <3>1. Unfold(after)[0] = s
      BY <1>1
    <3> QED
      BY <1>4, <3>1
  <2>2. ASSUME NEW i \in 1..n
        PROVE  after[i] = IF Failed(after[i - 1]) THEN after[i - 1]
                          ELSE Turn(after[i - 1].memory, place, op, L[i])
    <3>1. i \in 0..n /\ i # 0
      BY <1>1
    <3>2. Unfold(after)[i] = IF Failed(after[i - 1]) THEN after[i - 1]
                             ELSE Turn(after[i - 1].memory, place, op, L[i])
      BY <3>1
    <3> QED
      BY <1>4, <3>2
  <2> QED
    BY <2>1, <2>2 DEF Turned
<1> QED
  BY <1>5, <1>6

(* What fails in its first turn stays so.                                  *)
LEMMA TurnsFail ==
  ASSUME NEW f, NEW m, NEW place, NEW op, NEW L, NEW n \in Nat, n > 0, Turned(f, m, place, op, L, n),
         NEW code, Turn(m, place, op, L[1]) = Error(code)
  PROVE  f[n] = Error(code)
<1> DEFINE T == {i \in Nat : i < n => f[i + 1] = Error(code)}
<1>1. 0 \in T
  <2>1. f[1] = IF Failed(f[0]) THEN f[0] ELSE Turn(f[0].memory, place, op, L[1])
    BY DEF Turned
  <2>2. f[0] = Gives(m, Nil, L)
    BY DEF Turned
  <2>3. f[1] = Error(code)
    BY <2>1, <2>2, FailedIs
  <2> QED
    BY <2>3
<1>2. ASSUME NEW i \in Nat, i \in T PROVE i + 1 \in T
  <2> SUFFICES ASSUME i + 1 < n PROVE f[(i + 1) + 1] = Error(code)
    OBVIOUS
  <2>1. f[i + 1] = Error(code) /\ (i + 1) + 1 \in 1..n /\ ((i + 1) + 1) - 1 = i + 1
    BY <1>2
  <2>2. f[(i + 1) + 1] = IF Failed(f[i + 1]) THEN f[i + 1] ELSE Turn(f[i + 1].memory, place, op, L[(i + 1) + 1])
    BY <2>1 DEF Turned
  <2> QED
    BY <2>1, <2>2, FailedIs
<1>3. Nat \subseteq T
  <2> HIDE DEF T
  <2> QED
    BY <1>1, <1>2, Induction
<1>4. n - 1 \in T /\ n - 1 < n /\ (n - 1) + 1 = n
  BY <1>3
<1> QED
  BY <1>4

(* What the place holds after each turn, when each makes the next of it.   *)
Turning(m, place, op, L, f, st, i) ==
  \/ f[i] = Error("HEAP_LIMIT_EXCEEDED")
  \/ \E j \in 1..i : /\ Promised!Refused(op, st[j - 1], <<L[j]>>) # "ok"
                     /\ f[i] = Error(Promised!Refused(op, st[j - 1], <<L[j]>>))
  \/ /\ \A j \in 1..i : Promised!Refused(op, st[j - 1], <<L[j]>>) = "ok"
     /\ ~Failed(f[i]) /\ f[i].memory.owners = m.owners /\ Tidy(f[i].memory)
     /\ Becoming(m, f[i].memory, Target(m, place), st[i])

(* After each turn the place means what it did with that much done, unless *)
(* the heap was full.                                                      *)
LEMMA TurnsDo ==
  ASSUME CollectionsAssumption, NEW types \in Typings, NEW m, Typed(types, m), Tidy(m), NEW place \in Places,
         Reaches(m, place), NEW op, <<KindOf(types, place), op>> \in Changes, \A x \in Elements : Suits(op, <<x>>),
         NEW L \in Seq(Elements), NEW f, Turned(f, m, place, op, L, Len(L)),
         NEW st, st[0] = Mean(m, Target(m, place)),
         \A i \in 1..Len(L) : st[i] = Promised!Made(op, st[i - 1], <<L[i]>>)
  PROVE  /\ Turning(m, place, op, L, f, st, Len(L))
         /\ ~Failed(f[Len(L)]) => Typed(types, f[Len(L)].memory)
<1> DEFINE n == Len(L)
           tp == Target(m, place)
           Holds(i) == /\ Turning(m, place, op, L, f, st, i)
                       /\ ~Failed(f[i]) => Typed(types, f[i].memory)
           T == {i \in Nat : i <= n => Holds(i)}
<1>1. n \in Nat
  OBVIOUS
<1>2. tp \in Wheres
  BY MeanIs
<1>3. 0 \in T
  <2>1. f[0] = Gives(m, Nil, L)
    BY DEF Turned
  <2>2. ~Failed(f[0]) /\ f[0].memory = m
    BY <2>1, FailedIs
  <2>3. Becoming(m, m, tp, st[0])
    BY DEF Becoming
  <2>4. Holds(0)
    BY <2>2, <2>3 DEF Turning
  <2> QED
    BY <2>4
<1>4. ASSUME NEW i \in Nat, i \in T PROVE i + 1 \in T
  <2> SUFFICES ASSUME i + 1 <= n PROVE Holds(i + 1)
    OBVIOUS
  <2>1. i + 1 \in 1..n /\ (i + 1) - 1 = i /\ i <= n
    OBVIOUS
  <2>2. Holds(i)
    BY <1>4, <2>1
  <2> DEFINE x == L[i + 1]
             refused == Promised!Refused(op, st[i], <<x>>)
             made == Promised!Made(op, st[i], <<x>>)
             mi == f[i].memory
  <2>3. f[i + 1] = IF Failed(f[i]) THEN f[i] ELSE Turn(mi, place, op, x)
    BY <2>1 DEF Turned
  <2>4. x \in Elements
    BY <2>1
  <2>5. st[i + 1] = made
    BY <2>1
  <2>6. 1..(i + 1) = (1..i) \cup {i + 1}
    OBVIOUS
  <2>7. CASE Failed(f[i])
    <3>1. f[i + 1] = f[i]
      BY <2>3, <2>7
    <3> QED
      BY <2>2, <2>6, <2>7, <3>1 DEF Turning
  <2>8. CASE ~Failed(f[i])
    <3>1. /\ \A j \in 1..i : Promised!Refused(op, st[j - 1], <<L[j]>>) = "ok"
          /\ Typed(types, mi) /\ mi.owners = m.owners /\ Tidy(mi) /\ Becoming(m, mi, tp, st[i])
      BY <2>2, <2>8, FailedIs DEF Turning
    <3>2. Reaches(mi, place) /\ Target(mi, place) = tp
      BY <3>1 DEF Reaches, Target
    <3>3. Mean(mi, tp) = st[i]
      BY <1>2, <3>1 DEF Becoming
    <3>4. f[i + 1] = MutatePlain(mi, place, op, <<x>>)
      BY <2>3, <2>8 DEF Turn
    <3>5. Suits(op, <<x>>)
      BY <2>4
    <3> DEFINE r == f[i + 1]
    <3> HIDE DEF tp, mi, r, x
    <3>6. \/ refused # "ok" /\ r = Error(refused)
          \/ r = Error("HEAP_LIMIT_EXCEEDED")
          \/ /\ refused = "ok"
             /\ \E m2, g : /\ r = Gives(m2, g, Gained(op, st[i], <<x>>))
                           /\ Typed(types, m2) /\ m2.owners = mi.owners /\ Keeping(mi, m2)
                           /\ Tidy(mi) => Tidy(m2)
                           /\ Becoming(mi, m2, tp, made)
      BY <3>1, <3>2, <3>3, <3>4, <3>5, TurnDoes DEF r
    <3>7. CASE refused # "ok" /\ r = Error(refused)
      <4>1. i + 1 \in 1..(i + 1)
        OBVIOUS
      <4> QED
        BY <2>1, <3>7, <4>1, FailedIs DEF Turning, r, x
    <3>8. CASE r = Error("HEAP_LIMIT_EXCEEDED")
      BY <3>8, FailedIs DEF Turning, r
    <3>9. ASSUME refused = "ok", NEW m2, NEW g, r = Gives(m2, g, Gained(op, st[i], <<x>>)), Typed(types, m2),
                 m2.owners = mi.owners, Tidy(mi) => Tidy(m2), Becoming(mi, m2, tp, made)
          PROVE  Holds(i + 1)
      <4>1. ~Failed(r) /\ r.memory = m2
        BY <3>9, FailedIs
      <4>2. Becoming(m, m2, tp, st[i + 1])
        BY <2>5, <3>1, <3>9 DEF Becoming
      <4>3. \A j \in 1..(i + 1) : Promised!Refused(op, st[j - 1], <<L[j]>>) = "ok"
        BY <2>1, <2>6, <3>1, <3>9 DEF x
      <4>4. m2.owners = m.owners /\ Tidy(m2)
        BY <3>1, <3>9
      <4> QED
        BY <3>9, <4>1, <4>2, <4>3, <4>4 DEF Turning, r, tp
    <3> QED
      BY <3>6, <3>7, <3>8, <3>9
  <2> QED
    BY <2>7, <2>8
<1>5. Nat \subseteq T
  <2> HIDE DEF T
  <2> QED
    BY <1>3, <1>4, Induction
<1> QED
  BY <1>1, <1>5

(* What one place became is what it is said to become.                     *)
LEMMA LandsAt ==
  ASSUME CollectionsAssumption, NEW types \in Typings, Typed(types, memory), NEW place \in Places,
         Reaches(memory, place), NEW m, Typed(types, m), Tidy(m), m.owners = memory.owners, NEW v,
         Becoming(memory, m, Target(memory, place), v), memory' = Collected(m)
  PROVE  /\ Typed(types, memory') /\ Tidy(memory')
         /\ Promised!Becomes(place, v) /\ OwnersHold' = OwnersHold
<1> DEFINE tp == Target(memory, place)
<1>1. /\ Typed(types, memory') /\ Tidy(memory') /\ NamesMean' = ContentOf(m) /\ OwnersHold' = m.owners
      /\ FieldsMean' = FieldsOf(m)
  BY Lands
<1>2. NamesMean = ContentOf(memory) /\ FieldsMean = FieldsOf(memory) /\ OwnersHold = memory.owners
  BY Means
<1>3. /\ \A n \in Names : ContentOf(m)[n] = IF <<"name", n>> = tp THEN v ELSE ContentOf(memory)[n]
      /\ \A b \in Structs : FieldsOf(m)[b] = IF <<"body", b>> = tp THEN v ELSE FieldsOf(memory)[b]
  <2> HIDE DEF tp
  <2>1. ASSUME NEW n \in Names PROVE ContentOf(m)[n] = IF <<"name", n>> = tp THEN v ELSE ContentOf(memory)[n]
    <3>1. <<"name", n>> \in Wheres
      BY DEF Wheres
    <3>2. Mean(m, <<"name", n>>) = ContentOf(m)[n] /\ Mean(memory, <<"name", n>>) = ContentOf(memory)[n]
      BY DEF Mean
    <3> QED
      BY <3>1, <3>2 DEF Becoming, tp
  <2>2. ASSUME NEW b \in Structs PROVE FieldsOf(m)[b] = IF <<"body", b>> = tp THEN v ELSE FieldsOf(memory)[b]
    <3>1. <<"body", b>> \in Wheres
      BY DEF Wheres
    <3>2. Mean(m, <<"body", b>>) = FieldsOf(m)[b] /\ Mean(memory, <<"body", b>>) = FieldsOf(memory)[b]
      BY DEF Mean
    <3> QED
      BY <3>1, <3>2 DEF Becoming, tp
  <2> QED
    BY <2>1, <2>2
<1>4. /\ ContentOf(m) = [n \in Names |-> ContentOf(m)[n]] /\ FieldsOf(m) = [b \in Structs |-> FieldsOf(m)[b]]
      /\ ContentOf(memory) = [n \in Names |-> ContentOf(memory)[n]]
      /\ FieldsOf(memory) = [b \in Structs |-> FieldsOf(memory)[b]]
  BY DEF ContentOf, FieldsOf
<1>5. CASE place[1] = "name"
  <2>1. PICK n \in Names : place = <<"name", n>>
    BY <1>5 DEF Places
  <2>2. tp = <<"name", n>>
    BY <2>1 DEF Target
  <2> HIDE DEF tp
  <2>3. ContentOf(m) = [ContentOf(memory) EXCEPT ![n] = v]
    BY <1>3, <1>4, <2>2
  <2>4. FieldsOf(m) = FieldsOf(memory)
    BY <1>3, <1>4, <2>2
  <2> QED
    BY <1>1, <1>2, <2>1, <2>3, <2>4 DEF Promised!Becomes
<1>6. CASE place[1] # "name"
  <2>1. PICK s \in Owners : place = <<"field", s>>
    BY <1>6 DEF Places
  <2>2. tp = <<"body", memory.owners[s]>>
    BY <2>1 DEF Target
  <2> HIDE DEF tp
  <2>3. FieldsOf(m) = [FieldsOf(memory) EXCEPT ![memory.owners[s]] = v]
    BY <1>3, <1>4, <2>2
  <2>4. ContentOf(m) = ContentOf(memory)
    BY <1>3, <1>4, <2>2
  <2> QED
    BY <1>1, <1>2, <2>1, <2>3, <2>4 DEF Promised!Becomes
<1> QED
  BY <1>5, <1>6

-----------------------------------------------------------------------------
(* for x in from: place.push(x), and for [k, v] in from: place.remove(k).  *)
Ended(e) == IF Failed(e) THEN e ELSE Gives(e.memory, Nil, <<>>)

LEMMA KeysOfMap ==
  ASSUME CollectionsAssumption, NEW e \in Directory
  PROVE  /\ Keys(e) \in Seq(Elements) /\ Len(Keys(e)) = Len(e)
         /\ \A i \in 1..Len(e) : Keys(e)[i] = e[i].key /\ Keys(e)[i] \notin {Nil, NegativeZero}
         /\ {Keys(e)[i] : i \in 1..Len(e)} = DOMAIN UnderKeys(e)
<1>1. Keys(e) = [i \in 1..Len(e) |-> e[i].key] /\ Len(e) \in Nat
  BY DirectoryUnder DEF Keys
<1>2. \A i \in 1..Len(e) : e[i].key \in Elements
  BY DirectoryUnder
<1>3. Keys(e) \in Seq(Elements) /\ Len(Keys(e)) = Len(e)
  BY <1>1, <1>2
<1>4. \A i \in 1..Len(e) : Keys(e)[i] = e[i].key
  BY <1>1
<1>5. \A i \in 1..Len(e) : e[i].key \notin {Nil, NegativeZero}
  BY DEF Directory
<1>6. {Keys(e)[i] : i \in 1..Len(e)} = {e[i].key : i \in 1..Len(e)}
  BY <1>4
<1>7. DOMAIN UnderKeys(e) = {e[i].key : i \in 1..Len(e)}
  BY DirectoryUnder
<1> QED
  BY <1>3, <1>4, <1>5, <1>6, <1>7

(* A loop has all its entries before its first turn.                       *)
LEMMA ForEachIs ==
  ASSUME CollectionsAssumption, NEW types \in Typings, NEW m, Typed(types, m), NEW from \in Places, NEW place,
         KindOf(types, from) \in {"array", "map"}
  PROVE  LET v == Meaning(m, Read(m, from))
             loop == ForEach(m, from, place) IN
         \/ v = Nil /\ loop = Error("NA_COLLECTION")
         \/ /\ KindOf(types, from) = "array" /\ v # Nil
            /\ \E L \in Seq(Elements) : \E f :
                 /\ v = [kind |-> "array", of |-> L]
                 /\ Turned(f, m, place, "array.push", L, Len(L))
                 /\ loop = Ended(f[Len(L)])
         \/ /\ KindOf(types, from) = "map" /\ v # Nil
            /\ \E e \in Directory : \E f :
                 /\ v = [kind |-> "map", order |-> Keys(e), under |-> UnderKeys(e)]
                 /\ Turned(f, m, place, "map.remove", Keys(e), Len(Keys(e)))
                 /\ loop = Ended(f[Len(Keys(e))])
<1> DEFINE h == Read(m, from)
           k == KindOf(types, from)
           e == m.blocks[h.storage]
           entries == IF h.kind = "map" THEN Keys(e) ELSE e
           op == IF h.kind = "map" THEN "map.remove" ELSE "array.push"
           s == Gives(m, Nil, entries)
           loop == ForEach(m, from, place)
<1>1. Good(m, k, h)
  BY PlaceIs
<1>2. loop = Then(Guarded(ReceiverError(m, h), s), LAMBDA d :
               Then(Turns(d, place, op), LAMBDA q : Gives(q.memory, Nil, <<>>)))
  BY DEF ForEach, Receiving
<1>3. CASE h = Nil
  <2>1. Guarded(ReceiverError(m, h), s) = Error("NA_COLLECTION")
    BY <1>3 DEF ReceiverError, Guarded, NoError
  <2>2. loop = Error("NA_COLLECTION")
    BY <1>2, <2>1, FailedIs DEF Then
  <2> QED
    BY <1>3, <2>2 DEF Meaning
<1>4. ASSUME ReceiverError(m, h) = NoError PROVE loop = Ended(Turns(s, place, op))
  <2>1. Guarded(ReceiverError(m, h), s) = s
    BY <1>4 DEF Guarded
  <2> HIDE DEF op, entries
  <2>2. ~Failed(s)
    BY FailedIs
  <2> HIDE DEF s
  <2> QED
    BY <1>2, <2>1, <2>2 DEF Then, Ended
<1>5. CASE Sound(m, k, h) /\ k = "array"
  <2>1. /\ e \in Seq(Elements) /\ h.kind = "array" /\ ReceiverError(m, h) = NoError
        /\ Meaning(m, h) = [kind |-> "array", of |-> e] /\ Meaning(m, h) # Nil
    BY <1>5, SoundArray
  <2>2. entries = e /\ op = "array.push"
    BY <2>1
  <2>3. loop = Ended(Turns(Gives(m, Nil, e), place, "array.push"))
    BY <1>4, <2>1, <2>2
  <2>4. PICK f : Turned(f, m, place, "array.push", e, Len(e))
                 /\ Turns(Gives(m, Nil, e), place, "array.push") = f[Len(e)]
    BY <2>1, TurnsAre
  <2> HIDE DEF e, loop, h
  <2> QED
    BY <1>5, <2>1, <2>3, <2>4 DEF loop, h
<1>6. CASE Sound(m, k, h) /\ k = "map"
  <2>1. /\ e \in Directory /\ h.kind = "map" /\ ReceiverError(m, h) = NoError
        /\ Meaning(m, h) = [kind |-> "map", order |-> Keys(e), under |-> UnderKeys(e)] /\ Meaning(m, h) # Nil
    BY <1>6, SoundMap
  <2>2. entries = Keys(e) /\ op = "map.remove"
    BY <2>1
  <2>3. loop = Ended(Turns(Gives(m, Nil, Keys(e)), place, "map.remove"))
    BY <1>4, <2>1, <2>2
  <2>4. Keys(e) \in Seq(Elements)
    BY <2>1, KeysOfMap
  <2> DEFINE L == Keys(e)
  <2> HIDE DEF L
  <2>5. L \in Seq(Elements) /\ L = Keys(e)
    BY <2>4 DEF L
  <2>6. PICK f : Turned(f, m, place, "map.remove", L, Len(L))
                 /\ Turns(Gives(m, Nil, L), place, "map.remove") = f[Len(L)]
    BY <2>5, TurnsAre
  <2> HIDE DEF e, loop, h
  <2> QED
    BY <1>6, <2>1, <2>3, <2>5, <2>6 DEF loop, h
<1> QED
  BY <1>1, <1>3, <1>5, <1>6 DEF Good

(* A loop over a place that cannot be written, or that holds nothing.      *)
LEMMA LoopClosed ==
  ASSUME CollectionsAssumption, NEW types \in Typings, Typed(types, memory), Tidy(memory), NEW place \in Places,
         NEW op, <<KindOf(types, place), op>> \in Changes, \A x \in Elements : Suits(op, <<x>>),
         NEW L \in Seq(Elements), Len(L) > 0, NEW f, Turned(f, memory, place, op, L, Len(L)),
         ~Reaches(memory, place) \/ Promised!Got(place) = Nil, Came(Ended(f[Len(L)]))
  PROVE  /\ Typed(types, memory') /\ Tidy(memory')
         /\ \/ ~Reaches(memory, place) /\ Promised!Throw("NA_STRUCT_WRITE")
            \/ Reaches(memory, place) /\ Promised!Throw("NA_COLLECTION")
            \/ Promised!Throw("HEAP_LIMIT_EXCEEDED")
<1> DEFINE x == L[1]
           r == MutatePlain(memory, place, op, <<x>>)
<1>1. x \in Elements /\ Len(L) \in Nat
  OBVIOUS
<1>2. Suits(op, <<x>>)
  BY <1>1
<1>3. ASSUME NEW code, r = Error(code) PROVE Typed(types, memory') /\ Tidy(memory') /\ Promised!Throw(code)
  <2>1. f[Len(L)] = Error(code)
    <3>1. Turn(memory, place, op, L[1]) = Error(code)
      BY <1>3 DEF Turn
    <3> QED
      BY <1>1, <3>1, TurnsFail
  <2>2. Came(Error(code))
    BY <2>1, FailedIs DEF Ended
  <2> QED
    BY <2>2, Threw
<1> HIDE DEF x
<1>4. CASE ~Reaches(memory, place)
  <2>1. r = Error("NA_STRUCT_WRITE")
    BY <1>2, <1>4, MutatePlainIs
  <2> QED
    BY <1>3, <1>4, <2>1
<1>5. CASE Reaches(memory, place)
  <2> DEFINE v == Mean(memory, Target(memory, place))
             refused == Promised!Refused(op, v, <<x>>)
  <2>1. v = Nil
    BY <1>5, GotIs, MeanIs
  <2>2. refused = "NA_COLLECTION"
    BY <2>1 DEF Promised!Refused
  <2>3. \/ refused # "ok" /\ r = Error(refused)
        \/ r = Error("HEAP_LIMIT_EXCEEDED")
        \/ refused = "ok"
    BY <1>2, <1>5, TurnDoes
  <2> HIDE DEF refused, r
  <2>4. r = Error("NA_COLLECTION") \/ r = Error("HEAP_LIMIT_EXCEEDED")
    BY <2>2, <2>3
  <2> QED
    BY <1>3, <1>5, <2>4
<1> QED
  BY <1>4, <1>5

(* A loop over a place that can be.                                        *)
LEMMA LoopOpen ==
  ASSUME CollectionsAssumption, NEW types \in Typings, Typed(types, memory), Tidy(memory), NEW place \in Places,
         NEW op, <<KindOf(types, place), op>> \in Changes, \A x \in Elements : Suits(op, <<x>>),
         NEW L \in Seq(Elements), NEW f, Turned(f, memory, place, op, L, Len(L)),
         Reaches(memory, place), NEW st, st[0] = Promised!Got(place),
         \A i \in 1..Len(L) : st[i] = Promised!Made(op, st[i - 1], <<L[i]>>),
         Came(Ended(f[Len(L)]))
  PROVE  /\ Typed(types, memory') /\ Tidy(memory')
         /\ \/ Promised!Throw("HEAP_LIMIT_EXCEEDED")
            \/ \E j \in 1..Len(L) : /\ Promised!Refused(op, st[j - 1], <<L[j]>>) # "ok"
                                    /\ Promised!Throw(Promised!Refused(op, st[j - 1], <<L[j]>>))
            \/ /\ \A j \in 1..Len(L) : Promised!Refused(op, st[j - 1], <<L[j]>>) = "ok"
               /\ Promised!Becomes(place, st[Len(L)]) /\ outcome' = Promised!Silent /\ OwnersHold' = OwnersHold
<1> DEFINE n == Len(L)
           e == f[n]
           m == e.memory
<1>1. st[0] = Mean(memory, Target(memory, place))
  BY GotIs, MeanIs
<1>2. Turning(memory, place, op, L, f, st, n) /\ (~Failed(e) => Typed(types, m))
  BY <1>1, TurnsDo
<1>3. ASSUME NEW code, e = Error(code) PROVE Typed(types, memory') /\ Tidy(memory') /\ Promised!Throw(code)
  <2>1. Came(Error(code))
    BY <1>3, FailedIs DEF Ended
  <2> QED
    BY <2>1, Threw
<1>4. CASE e = Error("HEAP_LIMIT_EXCEEDED")
  BY <1>3, <1>4
<1>5. ASSUME NEW j \in 1..n, Promised!Refused(op, st[j - 1], <<L[j]>>) # "ok",
             e = Error(Promised!Refused(op, st[j - 1], <<L[j]>>))
      PROVE  /\ Typed(types, memory') /\ Tidy(memory')
             /\ Promised!Throw(Promised!Refused(op, st[j - 1], <<L[j]>>))
  BY <1>3, <1>5
<1>6. CASE /\ \A j \in 1..n : Promised!Refused(op, st[j - 1], <<L[j]>>) = "ok"
           /\ ~Failed(e) /\ m.owners = memory.owners /\ Tidy(m)
           /\ Becoming(memory, m, Target(memory, place), st[n])
  <2>1. Ended(e) = Gives(m, Nil, <<>>)
    BY <1>6 DEF Ended
  <2>2. outcome' = <<"value">> \o <<>> /\ memory' = Collected(m)
    BY <2>1, FailedIs, SMTT(30) DEF Came
  <2>3. outcome' = Promised!Silent
    BY <2>2 DEF Promised!Silent
  <2>4. Typed(types, m)
    BY <1>2, <1>6
  <2> DEFINE v == st[n]
  <2> HIDE DEF m, v
  <2>5. Becoming(memory, m, Target(memory, place), v) /\ m.owners = memory.owners /\ Tidy(m)
    BY <1>6 DEF v
  <2>6. /\ Typed(types, memory') /\ Tidy(memory') /\ Promised!Becomes(place, v) /\ OwnersHold' = OwnersHold
    BY <2>2, <2>4, <2>5, LandsAt
  <2> QED
    BY <1>6, <2>3, <2>6 DEF v
<1> HIDE DEF e, m
<1> QED
  BY <1>2, <1>4, <1>5, <1>6 DEF Turning, e, m

LEMMA WithoutStep ==
  ASSUME NEW S, NEW p \in Seq(S), NEW x \in S, NEW gone
  PROVE  Promised!Without(Append(p, x), gone) =
           IF x \in gone THEN Promised!Without(p, gone) ELSE Append(Promised!Without(p, gone), x)
<1> DEFINE n == Len(p)
           q == Append(p, x)
<1>1. PICK f : Keeps(f, S, p, gone, n)
  BY KeepsExist
<1>2. Promised!Without(p, gone) = f[n]
  BY <1>1, WithoutIs
<1>3. n \in Nat /\ q \in Seq(S) /\ Len(q) = n + 1 /\ q[n + 1] = x /\ \A i \in 1..n : q[i] = p[i]
  OBVIOUS
<1> DEFINE next == IF x \in gone THEN f[n] ELSE Append(f[n], x)
           g == [i \in 0..(n + 1) |-> IF i = n + 1 THEN next ELSE f[i]]
<1> HIDE DEF n, q, next
<1>4. g[n + 1] = next
  BY <1>3
<1>5. \A i \in 0..n : g[i] = f[i]
  BY <1>3
<1> HIDE DEF g
<1>6. ASSUME NEW i \in 1..(n + 1)
      PROVE  g[i] = IF q[i] \in gone THEN g[i - 1] ELSE Append(g[i - 1], q[i])
  <2>1. CASE i = n + 1
    <3>1. i - 1 = n /\ n \in 0..n
      BY <1>3, <2>1
    <3>2. g[i - 1] = f[n] /\ q[i] = x /\ g[i] = next
      BY <1>3, <1>4, <1>5, <2>1, <3>1
    <3> QED
      BY <3>2 DEF next
  <2>2. CASE i # n + 1
    <3>1. i \in 1..n /\ i \in 0..n /\ i - 1 \in 0..n
      BY <1>3, <2>2
    <3>2. g[i] = f[i] /\ g[i - 1] = f[i - 1] /\ q[i] = p[i]
      BY <1>3, <1>5, <3>1
    <3>3. f[i] = IF p[i] \in gone THEN f[i - 1] ELSE Append(f[i - 1], p[i])
      BY <1>1, <3>1 DEF Keeps, Recurs
    <3> QED
      BY <3>2, <3>3
  <2> QED
    BY <2>1, <2>2
<1>7. g[0] = <<>>
  <2>1. f[0] = <<>> /\ 0 \in 0..n
    BY <1>1, <1>3 DEF Keeps, Recurs
  <2> QED
    BY <1>5, <2>1
<1>8. Recurs(g, q, gone, Len(q))
  BY <1>3, <1>6, <1>7 DEF Recurs
<1>9. Promised!Without(q, gone) = g[n + 1]
  BY <1>3, <1>8, WithoutOf
<1> QED
  BY <1>2, <1>4, <1>9 DEF next, q, n

LEMMA WithoutIsSeq ==
  ASSUME NEW S, NEW order \in Seq(S), NEW gone
  PROVE  Promised!Without(order, gone) \in Seq(S)
<1>1. PICK f : Keeps(f, S, order, gone, Len(order))
  BY KeepsExist
<1>2. Promised!Without(order, gone) = f[Len(order)]
  BY <1>1, WithoutIs
<1>3. Len(order) \in 0..Len(order)
  OBVIOUS
<1> QED
  BY <1>1, <1>2, <1>3 DEF Keeps

(* To leave out some keys and then one more is to leave out them all.      *)
Adds(all, gone, one, x) == one = {x} /\ all = gone \cup one

(* Keys may be taken out one by one.                                       *)
LEMMA WithoutMore ==
  ASSUME NEW S, NEW order \in Seq(S), NEW gone, NEW x, NEW one, NEW all, Adds(all, gone, one, x)
  PROVE  Promised!Without(Promised!Without(order, gone), one) = Promised!Without(order, all)
<1> USE DEF Adds
<1> DEFINE n == Len(order)
           Same(p) == Promised!Without(Promised!Without(p, gone), one) = Promised!Without(p, all)
           T == {i \in Nat : \A p \in Seq(S) : Len(p) = i => Same(p)}
<1>1. 0 \in T
  <2>1. <<>> \in Seq(S) /\ \A p \in Seq(S) : Len(p) = 0 => p = <<>>
    OBVIOUS
  <2>2. ASSUME NEW g PROVE Promised!Without(<<>>, g) = <<>>
    <3> DEFINE none == <<>>
    <3>1. none \in Seq(S) /\ \A i \in 1..Len(none) : none[i] \notin g
      OBVIOUS
    <3> HIDE DEF none
    <3>2. Promised!Without(none, g) = none
      BY <3>1, WithoutNone
    <3> QED
      BY <3>2 DEF none
  <2>3. Same(<<>>)
    BY <2>2
  <2> HIDE DEF Same
  <2> QED
    BY <2>1, <2>3
<1>2. ASSUME NEW i \in Nat, i \in T PROVE i + 1 \in T
  <2> SUFFICES ASSUME NEW p \in Seq(S), Len(p) = i + 1 PROVE Same(p)
    <3> HIDE DEF Same
    <3> QED
      OBVIOUS
  <2> DEFINE q == SubSeq(p, 1, i)
             y == p[i + 1]
  <2>1. q \in Seq(S) /\ Len(q) = i /\ y \in S /\ \A j \in 1..i : q[j] = p[j]
    OBVIOUS
  <2>2. p = Append(q, y)
    <3> HIDE DEF q
    <3>1. Append(q, y) \in Seq(S) /\ Len(Append(q, y)) = i + 1 /\ \A j \in 1..(i + 1) : Append(q, y)[j] = p[j]
      BY <2>1
    <3> QED
      BY <3>1, SameSeq
  <2> HIDE DEF q, y
  <2> DEFINE some == Promised!Without(q, gone)
  <2>3. some \in Seq(S)
    BY <2>1, WithoutIsSeq
  <2>4. Promised!Without(some, {x}) = Promised!Without(q, all)
    <3>1. Same(q)
      <4> HIDE DEF Same
      <4> QED
        BY <1>2, <2>1
    <3> QED
      BY <3>1
  <2>5. Promised!Without(p, gone) = IF y \in gone THEN some ELSE Append(some, y)
    BY <2>1, <2>2, WithoutStep
  <2>6. Promised!Without(p, all) = IF y \in all THEN Promised!Without(q, all) ELSE Append(Promised!Without(q, all), y)
    BY <2>1, <2>2, WithoutStep
  <2> HIDE DEF some
  <2>7. Promised!Without(Append(some, y), {x}) =
          IF y \in {x} THEN Promised!Without(some, {x}) ELSE Append(Promised!Without(some, {x}), y)
    BY <2>1, <2>3, WithoutStep
  <2>8. y \in all <=> y \in gone \/ y \in {x}
    OBVIOUS
  <2> DEFINE more == Promised!Without(q, all)
             twice == Promised!Without(Promised!Without(p, gone), {x})
  <2> HIDE DEF more
  <2>9. twice = IF y \in gone \/ y \in {x} THEN more ELSE Append(more, y)
    <3>1. CASE y \in gone
      BY <2>4, <2>5, <3>1 DEF more
    <3>2. CASE y \notin gone
      <4>1. Promised!Without(p, gone) = Append(some, y)
        BY <2>5, <3>2
      <4> QED
        BY <2>4, <2>7, <3>2, <4>1 DEF more
    <3> QED
      BY <3>1, <3>2
  <2>10. Promised!Without(p, all) = IF y \in gone \/ y \in {x} THEN more ELSE Append(more, y)
    BY <2>6, <2>8 DEF more
  <2> HIDE DEF twice
  <2>11. twice = Promised!Without(p, all)
    BY <2>9, <2>10
  <2> QED
    BY <2>11 DEF twice
<1>3. Nat \subseteq T
  <2> HIDE DEF T
  <2> QED
    BY <1>1, <1>2, Induction
<1>4. n \in T
  <2>1. n \in Nat
    OBVIOUS
  <2> QED
    BY <1>3, <2>1
<1>5. Same(order)
  <2> HIDE DEF Same
  <2> QED
    BY <1>4
<1> QED
  BY <1>5

(* A loop over an array that pushes what it is given, be it to the array it*)
(* runs over.                                                              *)
LEMMA ArrayLoopFollows ==
  ASSUME CollectionsAssumption, NEW types \in Typings, Typed(types, memory), Tidy(memory),
         NEW from \in Places, NEW place \in Places, KindOf(types, place) = "array",
         NEW L \in Seq(Elements), Promised!Got(from) = [kind |-> "array", of |-> L], Promised!Got(from) # Nil,
         Len(L) > 0, NEW f, Turned(f, memory, place, "array.push", L, Len(L)), Came(Ended(f[Len(L)]))
  PROVE  /\ Typed(types, memory') /\ Tidy(memory')
         /\ Promised!Loop(from, place) \/ Promised!Throw("HEAP_LIMIT_EXCEEDED")
<1> DEFINE n == Len(L)
           op == "array.push"
           v == Promised!Got(place)
<1>1. <<KindOf(types, place), op>> \in Changes /\ \A x \in Elements : Suits(op, <<x>>)
  <2>1. \A x \in Elements : Suits(op, <<x>>)
    BY DEF Suits
  <2> QED
    BY <2>1 DEF Changes
<1>2. n \in Nat /\ n # 0 /\ Promised!Got(from).kind # "map" /\ Promised!Got(from).of = L
  OBVIOUS
<1>3. Promised!Writable(place) <=> Reaches(memory, place)
  BY GotIs
<1>4. CASE ~Reaches(memory, place) \/ v = Nil
  <2>1. /\ Typed(types, memory') /\ Tidy(memory')
        /\ \/ ~Reaches(memory, place) /\ Promised!Throw("NA_STRUCT_WRITE")
           \/ Reaches(memory, place) /\ Promised!Throw("NA_COLLECTION")
           \/ Promised!Throw("HEAP_LIMIT_EXCEEDED")
    BY <1>1, <1>4, LoopClosed
  <2>2. Promised!Loop(from, place) <=>
          IF ~Reaches(memory, place) THEN Promised!Throw("NA_STRUCT_WRITE") ELSE Promised!Throw("NA_COLLECTION")
    BY <1>2, <1>3, <1>4 DEF Promised!Loop
  <2> QED
    BY <2>1, <2>2
<1>5. CASE Reaches(memory, place) /\ v # Nil
  <2> DEFINE h == Read(memory, place)
             old == memory.blocks[h.storage]
             upto(i) == old \o SubSeq(L, 1, i)
             st == [i \in 0..n |-> Promised!Array(upto(i))]
             refused(j) == Promised!Refused(op, st[j - 1], <<L[j]>>)
  <2>1. Good(memory, "array", h) /\ v = Meaning(memory, h)
    BY PlaceIs, GotIs
  <2>2. old \in Seq(Elements) /\ v = Promised!Array(old)
    <3>1. Sound(memory, "array", h)
      BY <1>5, <2>1 DEF Good, Meaning
    <3> QED
      BY <2>1, <3>1, SoundArray DEF Promised!Array
  <2> HIDE DEF h, old, v
  <2>3. ASSUME NEW i \in 0..n
        PROVE  upto(i) \in Seq(Elements) /\ Len(upto(i)) = Len(old) + i
               /\ \A j \in 1..(Len(old) + i) : upto(i)[j] = IF j <= Len(old) THEN old[j] ELSE L[j - Len(old)]
    <3> DEFINE q == SubSeq(L, 1, i)
    <3>1. q \in Seq(Elements) /\ Len(q) = i /\ \A j \in 1..i : q[j] = L[j]
      BY <1>2
    <3> HIDE DEF q
    <3>2. old \o q \in Seq(Elements) /\ Len(old \o q) = Len(old) + i
      BY <2>2, <3>1
    <3>3. ASSUME NEW j \in 1..(Len(old) + i)
          PROVE  (old \o q)[j] = IF j <= Len(old) THEN old[j] ELSE L[j - Len(old)]
      <4>1. j <= Len(old) + Len(q) /\ j \in Nat /\ j >= 1 /\ Len(old) \in Nat
        BY <2>2, <3>1
      <4>2. (old \o q)[j] = IF j <= Len(old) THEN old[j] ELSE q[j - Len(old)]
        BY <2>2, <3>1, <4>1
      <4> QED
        BY <3>1, <4>1, <4>2
    <3> QED
      BY <3>2, <3>3 DEF q
  <2>4. ASSUME NEW i \in 1..n PROVE upto(i) = Append(upto(i - 1), L[i])
    <3> DEFINE p == upto(i)
               q == upto(i - 1)
    <3>1. i \in 0..n /\ i - 1 \in 0..n /\ L[i] \in Elements /\ Len(old) \in Nat
      BY <1>2, <2>2
    <3>2. /\ p \in Seq(Elements) /\ Len(p) = Len(old) + i
          /\ \A j \in 1..(Len(old) + i) : p[j] = IF j <= Len(old) THEN old[j] ELSE L[j - Len(old)]
      BY <2>3, <3>1
    <3>3. /\ q \in Seq(Elements) /\ Len(q) = Len(old) + (i - 1)
          /\ \A j \in 1..(Len(old) + (i - 1)) : q[j] = IF j <= Len(old) THEN old[j] ELSE L[j - Len(old)]
      BY <2>3, <3>1
    <3> HIDE DEF p, q
    <3>4. Append(q, L[i]) \in Seq(Elements) /\ Len(Append(q, L[i])) = Len(old) + i
      BY <3>1, <3>3
    <3>5. ASSUME NEW j \in 1..(Len(old) + i) PROVE Append(q, L[i])[j] = p[j]
      <4>1. CASE j = Len(old) + i
        <5>1. Append(q, L[i])[j] = L[i]
          BY <3>1, <3>3, <4>1
        <5>2. ~(j <= Len(old)) /\ j - Len(old) = i
          BY <3>1, <4>1
        <5> QED
          BY <3>2, <5>1, <5>2
      <4>2. CASE j # Len(old) + i
        <5>1. j \in 1..(Len(old) + (i - 1)) /\ j \in 1..Len(q)
          BY <3>1, <3>3, <4>2
        <5>2. Append(q, L[i])[j] = q[j]
          BY <3>1, <3>3, <5>1
        <5> QED
          BY <3>2, <3>3, <5>1, <5>2
      <4> QED
        BY <4>1, <4>2
    <3>6. p = Append(q, L[i])
      BY <3>2, <3>4, <3>5, SameSeq
    <3> QED
      BY <3>6 DEF p, q
  <2>5. upto(0) = old
    <3>1. SubSeq(L, 1, 0) = <<>>
      OBVIOUS
    <3> QED
      BY <2>2, <3>1
  <2>6. upto(n) = old \o L
    <3>1. SubSeq(L, 1, n) = L
      OBVIOUS
    <3> QED
      BY <3>1
  <2> HIDE DEF upto
  <2>7. \A i \in 0..n : st[i] = Promised!Array(upto(i))
    OBVIOUS
  <2> HIDE DEF st
  <2>8. st[0] = Promised!Got(place)
    BY <1>2, <2>2, <2>5, <2>7 DEF v
  <2>9. \A i \in 1..n : st[i] = Promised!Made(op, st[i - 1], <<L[i]>>)
    <3> SUFFICES ASSUME NEW i \in 1..n PROVE st[i] = Promised!Made(op, st[i - 1], <<L[i]>>)
      OBVIOUS
    <3>1. i \in 0..n /\ i - 1 \in 0..n
      BY <1>2
    <3>2. st[i] = Promised!Array(upto(i)) /\ st[i - 1] = Promised!Array(upto(i - 1))
      BY <2>7, <3>1
    <3>3. upto(i) = Append(upto(i - 1), L[i])
      BY <2>4
    <3>4. st[i - 1].of = upto(i - 1)
      BY <3>2 DEF Promised!Array
    <3>5. Promised!Made(op, st[i - 1], <<L[i]>>) = Promised!Array(Append(st[i - 1].of, L[i]))
      BY DEF Promised!Made
    <3> QED
      BY <3>2, <3>3, <3>4, <3>5
  <2>10. ASSUME NEW j \in 1..n
         PROVE  refused(j) = Promised!Fit(Len(old) + j)
    <3>1. j - 1 \in 0..n /\ Len(old) \in Nat
      BY <1>2, <2>2
    <3>2. /\ st[j - 1] = Promised!Array(upto(j - 1)) /\ upto(j - 1) \in Seq(Elements)
          /\ Len(upto(j - 1)) + 1 = Len(old) + j
      BY <2>3, <2>7, <3>1
    <3>3. st[j - 1] # Nil
      <4>1. st[j - 1] \in Contents
        BY <3>2 DEF Contents, Promised!Array
      <4> QED
        BY <4>1 DEF CollectionsAssumption
    <3>4. st[j - 1].of = upto(j - 1)
      BY <3>2 DEF Promised!Array
    <3>5. refused(j) = Promised!Fit(Len(st[j - 1].of) + 1)
      BY <3>3 DEF Promised!Refused
    <3> QED
      BY <3>2, <3>4, <3>5
  <2> HIDE DEF refused
  <2>11. /\ Typed(types, memory') /\ Tidy(memory')
         /\ \/ Promised!Throw("HEAP_LIMIT_EXCEEDED")
            \/ \E j \in 1..n : refused(j) # "ok" /\ Promised!Throw(refused(j))
            \/ /\ \A j \in 1..n : refused(j) = "ok"
               /\ Promised!Becomes(place, st[n]) /\ outcome' = Promised!Silent /\ OwnersHold' = OwnersHold
    <3>1. Len(L) = n
      OBVIOUS
    <3> HIDE DEF n, op
    <3>2. <<KindOf(types, place), op>> \in Changes /\ \A x \in Elements : Suits(op, <<x>>)
      BY <1>1
    <3>3. Turned(f, memory, place, op, L, Len(L))
      BY DEF op
    <3>4. \A i \in 1..Len(L) : st[i] = Promised!Made(op, st[i - 1], <<L[i]>>)
      BY <2>9, <3>1
    <3>5. /\ Typed(types, memory') /\ Tidy(memory')
          /\ \/ Promised!Throw("HEAP_LIMIT_EXCEEDED")
             \/ \E j \in 1..Len(L) : /\ Promised!Refused(op, st[j - 1], <<L[j]>>) # "ok"
                                     /\ Promised!Throw(Promised!Refused(op, st[j - 1], <<L[j]>>))
             \/ /\ \A j \in 1..Len(L) : Promised!Refused(op, st[j - 1], <<L[j]>>) = "ok"
                /\ Promised!Becomes(place, st[Len(L)]) /\ outcome' = Promised!Silent /\ OwnersHold' = OwnersHold
      BY <1>5, <2>8, <3>2, <3>3, <3>4, LoopOpen
    <3> QED
      BY <3>1, <3>5 DEF refused
  <2> DEFINE all == old \o L
  <2>12. Len(all) = Len(old) + n /\ Len(old) \in Nat
    BY <2>2
  <2>13. v.of = old /\ Promised!Array(all) = st[n]
    <3>1. n \in 0..n
      BY <1>2
    <3> QED
      BY <2>2, <2>6, <2>7, <3>1 DEF Promised!Array
  <2>14. Promised!Loop(from, place) <=>
           IF Promised!Fit(Len(all)) # "ok" THEN Promised!Throw(Promised!Fit(Len(all)))
           ELSE Promised!Becomes(place, Promised!Array(all)) /\ outcome' = Promised!Silent /\ OwnersHold' = OwnersHold
    BY <1>2, <1>3, <1>5, <2>13 DEF Promised!Loop, v
  <2> HIDE DEF all, n
  <2>15. CASE \E j \in 1..n : refused(j) # "ok" /\ Promised!Throw(refused(j))
    <3>1. PICK j \in 1..n : refused(j) # "ok" /\ Promised!Throw(refused(j))
      BY <2>15
    <3>2. Promised!Fit(Len(old) + j) # "ok" /\ refused(j) = Promised!Fit(Len(old) + j)
      BY <2>10, <3>1
    <3>3. Promised!Fit(Len(all)) = refused(j)
      BY <1>2, <2>12, <3>2 DEF Promised!Fit, CollectionsAssumption
    <3> QED
      BY <2>11, <2>14, <3>1, <3>3
  <2>16. CASE /\ \A j \in 1..n : refused(j) = "ok"
              /\ Promised!Becomes(place, st[n]) /\ outcome' = Promised!Silent /\ OwnersHold' = OwnersHold
    <3>1. n \in 1..n
      BY <1>2
    <3>2. Promised!Fit(Len(all)) = "ok"
      BY <2>10, <2>12, <2>16, <3>1
    <3> QED
      BY <2>11, <2>13, <2>14, <2>16, <3>2
  <2> QED
    BY <2>11, <2>15, <2>16
<1> QED
  BY <1>4, <1>5

Remade(v, order, under) == [v EXCEPT !.order = order, !.under = under]
MapOf(order, under) == [kind |-> "map", order |-> order, under |-> under]

LEMMA PartsIs ==
  ASSUME NEW p, NEW u, NEW v, v = MapOf(p, u), NEW A, NEW B
  PROVE  Remade(v, A, B) = MapOf(A, B)
<1> DEFINE w == [v EXCEPT !.order = A]
<1>1. [v EXCEPT !.order = A, !.under = B] = [w EXCEPT !.under = B]
  OBVIOUS
<1>2. w = [kind |-> "map", order |-> A, under |-> u]
  BY DEF MapOf
<1> HIDE DEF w
<1>3. [w EXCEPT !.under = B] = [kind |-> "map", order |-> A, under |-> B]
  BY <1>2
<1> QED
  BY <1>1, <1>3 DEF Remade, MapOf

Removed(v, gone) == [v EXCEPT !.order = Promised!Without(@, gone), !.under = [k \in DOMAIN @ \ gone |-> @[k]]]
Left(order, under, gone) == MapOf(Promised!Without(order, gone), [k \in DOMAIN under \ gone |-> under[k]])

LEMMA RemovedIs ==
  ASSUME NEW p, NEW u, NEW gone
  PROVE  Removed(MapOf(p, u), gone) = Left(p, u, gone)
<1> DEFINE A == Promised!Without(p, gone)
           B == [k \in DOMAIN u \ gone |-> u[k]]
           v == MapOf(p, u)
<1>1. v.order = p /\ v.under = u
  BY DEF MapOf
<1> HIDE DEF v
<1>2. Removed(v, gone) = Remade(v, A, B)
  BY <1>1 DEF Removed, Remade
<1> HIDE DEF A, B
<1>3. Remade(v, A, B) = MapOf(A, B)
  BY PartsIs DEF v
<1> QED
  BY <1>2, <1>3 DEF A, B, Left, v

LEMMA RemoveMakes ==
  ASSUME NEW v, NEW x, x \notin {Nil, NegativeZero}
  PROVE  Promised!Made("map.remove", v, <<x>>) = Removed(v, {x})
<1>1. Promised!Key(x) = x
  BY DEF Promised!Key
<1> QED
  BY <1>1 DEF Promised!Made, Removed

(* A turn that removes a key leaves what is left without it.               *)
LEMMA LeftMore ==
  ASSUME NEW p \in Seq(Elements), NEW u, NEW gone, NEW x, x \notin {Nil, NegativeZero}
  PROVE  Promised!Made("map.remove", Left(p, u, gone), <<x>>) = Left(p, u, gone \cup {x})
<1>2. Promised!Without(Promised!Without(p, gone), {x}) = Promised!Without(p, gone \cup {x})
  <2> DEFINE all == gone \cup {x}
  <2>1. all = gone \cup {x}
    OBVIOUS
  <2> HIDE DEF all
  <2> DEFINE one == {x}
  <2>2. Adds(all, gone, one, x)
    BY <2>1 DEF Adds
  <2> HIDE DEF one
  <2>3. Promised!Without(Promised!Without(p, gone), one) = Promised!Without(p, all)
    BY <2>2, WithoutMore
  <2> QED
    BY <2>3 DEF all, one
<1> DEFINE some == Promised!Without(p, gone)
           rest == [k \in DOMAIN u \ gone |-> u[k]]
<1>1. Left(p, u, gone) = MapOf(some, rest)
  BY DEF Left
<1>3. [k \in DOMAIN rest \ {x} |-> rest[k]] = [k \in DOMAIN u \ (gone \cup {x}) |-> u[k]]
  <2>1. DOMAIN rest = DOMAIN u \ gone /\ \A k \in DOMAIN u \ gone : rest[k] = u[k]
    OBVIOUS
  <2> HIDE DEF rest
  <2>2. DOMAIN rest \ {x} = DOMAIN u \ (gone \cup {x})
    BY <2>1
  <2>3. \A k \in DOMAIN rest \ {x} : rest[k] = u[k]
    BY <2>1
  <2> QED
    BY <2>2, <2>3
<1> HIDE DEF some, rest
<1>4. Promised!Made("map.remove", MapOf(some, rest), <<x>>) = Removed(MapOf(some, rest), {x})
  BY RemoveMakes
<1>5. Removed(MapOf(some, rest), {x}) = Left(some, rest, {x})
  BY RemovedIs
<1>6. Left(some, rest, {x}) = Left(p, u, gone \cup {x})
  BY <1>2, <1>3 DEF Left, some
<1> QED
  BY <1>1, <1>4, <1>5, <1>6

(* A loop over a map that removes what it is given, be it from the map it  *)
(* runs over.                                                              *)
LEMMA MapLoopFollows ==
  ASSUME CollectionsAssumption, NEW types \in Typings, Typed(types, memory), Tidy(memory),
         NEW from \in Places, NEW place \in Places, KindOf(types, place) = "map",
         NEW e \in Directory, Promised!Got(from) = [kind |-> "map", order |-> Keys(e), under |-> UnderKeys(e)],
         Promised!Got(from) # Nil, NEW L, L = Keys(e), Len(L) > 0,
         NEW f, Turned(f, memory, place, "map.remove", L, Len(L)), Came(Ended(f[Len(L)]))
  PROVE  /\ Typed(types, memory') /\ Tidy(memory')
         /\ Promised!Loop(from, place) \/ Promised!Throw("HEAP_LIMIT_EXCEEDED")
<1> DEFINE n == Len(L)
           op == "map.remove"
           v == Promised!Got(place)
<1>1. <<KindOf(types, place), op>> \in Changes /\ \A x \in Elements : Suits(op, <<x>>)
  <2>1. \A x \in Elements : Suits(op, <<x>>)
    BY DEF Suits
  <2> QED
    BY <2>1 DEF Changes
<1>2. /\ L \in Seq(Elements) /\ \A i \in 1..Len(L) : L[i] \notin {Nil, NegativeZero}
      /\ {L[i] : i \in 1..Len(L)} = DOMAIN UnderKeys(e)
  BY KeysOfMap
<1>3. n \in Nat /\ n # 0
  BY <1>2
<1>4. Promised!Got(from).kind = "map" /\ Promised!Got(from).order = L /\ Promised!Got(from).under = UnderKeys(e)
  OBVIOUS
<1>5. Promised!Writable(place) <=> Reaches(memory, place)
  BY GotIs
<1>6. CASE ~Reaches(memory, place) \/ v = Nil
  <2>1. /\ Typed(types, memory') /\ Tidy(memory')
        /\ \/ ~Reaches(memory, place) /\ Promised!Throw("NA_STRUCT_WRITE")
           \/ Reaches(memory, place) /\ Promised!Throw("NA_COLLECTION")
           \/ Promised!Throw("HEAP_LIMIT_EXCEEDED")
    BY <1>1, <1>2, <1>6, LoopClosed
  <2>2. Promised!Loop(from, place) <=>
          IF ~Reaches(memory, place) THEN Promised!Throw("NA_STRUCT_WRITE") ELSE Promised!Throw("NA_COLLECTION")
    BY <1>3, <1>4, <1>5, <1>6 DEF Promised!Loop
  <2> QED
    BY <2>1, <2>2
<1>7. CASE Reaches(memory, place) /\ v # Nil
  <2> DEFINE h == Read(memory, place)
             old == memory.blocks[h.storage]
             order == Keys(old)
             under == UnderKeys(old)
             gone(i) == {L[j] : j \in 1..i}
             left(g) == Left(order, under, g)
             st == [i \in 0..n |-> left(gone(i))]
             refused(j) == Promised!Refused(op, st[j - 1], <<L[j]>>)
  <2>1. Good(memory, "map", h) /\ v = Meaning(memory, h)
    BY PlaceIs, GotIs
  <2>2. old \in Directory /\ v = MapOf(order, under)
    <3>1. Sound(memory, "map", h)
      BY <1>7, <2>1 DEF Good, Meaning
    <3> QED
      BY <2>1, <3>1, SoundMap DEF MapOf
  <2> HIDE DEF h, old, v
  <2>3. order \in Seq(Elements)
    BY <2>2, KeysOfMap
  <2>4. under \in [DOMAIN under -> Elements] /\ DOMAIN under \subseteq Elements
    BY <2>2, DirectoryUnder
  <2> HIDE DEF order, under
  <2>5. left({}) = v
    <3>1. Promised!Without(order, {}) = order
      BY <2>3, WithoutNone
    <3>2. [x \in DOMAIN under \ {} |-> under[x]] = under
      BY <2>4
    <3> QED
      BY <2>2, <3>1, <3>2 DEF Left
  <2>6. ASSUME NEW g PROVE left(g) # Nil
    <3> DEFINE some == Promised!Without(order, g)
               rest == [x \in DOMAIN under \ g |-> under[x]]
    <3>1. some \in Seq(Elements)
      BY <2>3, WithoutIsSeq
    <3>2. rest \in [DOMAIN under \ g -> Elements] /\ DOMAIN under \ g \in SUBSET Elements
      BY <2>4
    <3>3. rest \in UNION {[D -> Elements] : D \in SUBSET Elements}
      BY <3>2
    <3>4. left(g) = MapOf(some, rest)
      BY DEF Left
    <3> HIDE DEF some, rest, left
    <3>5. MapOf(some, rest) \in Contents
      BY <3>1, <3>3 DEF Contents, MapOf
    <3> QED
      BY <3>4, <3>5 DEF CollectionsAssumption
  <2>7. ASSUME NEW g, NEW x, x \notin {Nil, NegativeZero}
        PROVE  Promised!Made(op, left(g), <<x>>) = left(g \cup {x})
    BY <2>3, <2>7, LeftMore
  <2>8. gone(0) = {} /\ \A i \in 1..n : gone(i) = gone(i - 1) \cup {L[i]}
    <3>1. gone(0) = {}
      OBVIOUS
    <3>2. ASSUME NEW i \in 1..n PROVE gone(i) = gone(i - 1) \cup {L[i]}
      <4>1. 1..i = (1..(i - 1)) \cup {i}
        BY <1>3
      <4> QED
        BY <4>1
    <3> QED
      BY <3>1, <3>2
  <2>9. gone(n) = DOMAIN UnderKeys(e)
    BY <1>2
  <2> HIDE DEF gone
  <2>10. \A i \in 0..n : st[i] = left(gone(i))
    OBVIOUS
  <2> HIDE DEF st, left
  <2>11. st[0] = Promised!Got(place)
    <3>1. 0 \in 0..n
      BY <1>3
    <3>2. st[0] = left({})
      BY <2>8, <2>10, <3>1
    <3> QED
      BY <2>5, <3>2 DEF v
  <2>12. \A i \in 1..n : st[i] = Promised!Made(op, st[i - 1], <<L[i]>>)
    <3> SUFFICES ASSUME NEW i \in 1..n PROVE st[i] = Promised!Made(op, st[i - 1], <<L[i]>>)
      OBVIOUS
    <3>1. i \in 0..n /\ i - 1 \in 0..n /\ i \in 1..Len(L)
      BY <1>3
    <3>2. st[i] = left(gone(i)) /\ st[i - 1] = left(gone(i - 1)) /\ gone(i) = gone(i - 1) \cup {L[i]}
      BY <2>8, <2>10, <3>1
    <3>3. L[i] \notin {Nil, NegativeZero}
      BY <1>2, <3>1
    <3>4. Promised!Made(op, left(gone(i - 1)), <<L[i]>>) = left(gone(i - 1) \cup {L[i]})
      <4> HIDE DEF op
      <4> QED
        BY <2>7, <3>3
    <3> HIDE DEF op
    <3> QED
      BY <3>2, <3>4
  <2>13. ASSUME NEW j \in 1..n PROVE refused(j) = "ok"
    <3>1. j - 1 \in 0..n /\ j \in 1..Len(L)
      BY <1>3
    <3>2. st[j - 1] # Nil /\ L[j] # Nil
      BY <1>2, <2>6, <2>10, <3>1
    <3> QED
      BY <3>2 DEF Promised!Refused
  <2> HIDE DEF refused
  <2>14. /\ Typed(types, memory') /\ Tidy(memory')
         /\ \/ Promised!Throw("HEAP_LIMIT_EXCEEDED")
            \/ Promised!Becomes(place, st[n]) /\ outcome' = Promised!Silent /\ OwnersHold' = OwnersHold
    <3>1. Len(L) = n
      OBVIOUS
    <3> HIDE DEF n, op
    <3>2. <<KindOf(types, place), op>> \in Changes /\ \A x \in Elements : Suits(op, <<x>>)
      BY <1>1
    <3>3. Turned(f, memory, place, op, L, Len(L))
      BY DEF op
    <3>4. \A i \in 1..Len(L) : st[i] = Promised!Made(op, st[i - 1], <<L[i]>>)
      BY <2>12, <3>1
    <3>5. /\ Typed(types, memory') /\ Tidy(memory')
          /\ \/ Promised!Throw("HEAP_LIMIT_EXCEEDED")
             \/ \E j \in 1..Len(L) : /\ Promised!Refused(op, st[j - 1], <<L[j]>>) # "ok"
                                     /\ Promised!Throw(Promised!Refused(op, st[j - 1], <<L[j]>>))
             \/ /\ \A j \in 1..Len(L) : Promised!Refused(op, st[j - 1], <<L[j]>>) = "ok"
                /\ Promised!Becomes(place, st[Len(L)]) /\ outcome' = Promised!Silent /\ OwnersHold' = OwnersHold
      BY <1>2, <1>7, <2>11, <3>2, <3>3, <3>4, LoopOpen
    <3>6. \A j \in 1..Len(L) : Promised!Refused(op, st[j - 1], <<L[j]>>) = "ok"
      BY <2>13, <3>1 DEF refused
    <3> QED
      BY <3>1, <3>5, <3>6
  <2> DEFINE all == DOMAIN UnderKeys(e)
             done == Removed(v, all)
  <2>15. done = st[n]
    <3> HIDE DEF all
    <3>1. n \in 0..n
      BY <1>3
    <3>2. st[n] = left(all)
      BY <2>9, <2>10, <3>1 DEF all
    <3>3. done = Left(order, under, all)
      BY <2>2, RemovedIs
    <3> QED
      BY <3>2, <3>3 DEF left
  <2>16. Promised!Loop(from, place) <=>
           Promised!Becomes(place, done) /\ outcome' = Promised!Silent /\ OwnersHold' = OwnersHold
    BY <1>3, <1>4, <1>5, <1>7 DEF Promised!Loop, Removed, v
  <2> HIDE DEF done
  <2> QED
    BY <2>14, <2>15, <2>16
<1> QED
  BY <1>6, <1>7

LEMMA ForEachFollows ==
  ASSUME CollectionsAssumption, NEW types \in Typings, Typed(types, memory), Tidy(memory), NEW s,
         WellTyped(types, s), s[1] = "foreach", Came(Perform(memory, s))
  PROVE  Follows(types, s)
<1> DEFINE from == s[2]
           place == s[3]
           v == Meaning(memory, Read(memory, from))
           loop == ForEach(memory, from, place)
<1>1. /\ from \in Places /\ place \in Places /\ KindOf(types, from) = KindOf(types, place)
      /\ KindOf(types, place) \in {"array", "map"}
  BY DEF WellTyped
<1>2. Perform(memory, s) = loop
  BY DEF Perform
<1>3. Promised!Means(s) <=> Promised!Loop(from, place)
  BY DEF Promised!Means
<1> HIDE DEF from, place
<1>4. v = Promised!Got(from)
  BY <1>1, GotIs
<1>5. \/ v = Nil /\ loop = Error("NA_COLLECTION")
      \/ /\ KindOf(types, from) = "array" /\ v # Nil
         /\ \E L \in Seq(Elements) : \E f :
              /\ v = [kind |-> "array", of |-> L]
              /\ Turned(f, memory, place, "array.push", L, Len(L))
              /\ loop = Ended(f[Len(L)])
      \/ /\ KindOf(types, from) = "map" /\ v # Nil
         /\ \E e \in Directory : \E f :
              /\ v = [kind |-> "map", order |-> Keys(e), under |-> UnderKeys(e)]
              /\ Turned(f, memory, place, "map.remove", Keys(e), Len(Keys(e)))
              /\ loop = Ended(f[Len(Keys(e))])
  BY <1>1, ForEachIs
<1> HIDE DEF v, loop
<1>6. ASSUME loop = Gives(memory, Nil, <<>>)
      PROVE  /\ Typed(types, memory') /\ Tidy(memory')
             /\ outcome' = Promised!Silent /\ NamesMean' = NamesMean /\ FieldsMean' = FieldsMean /\ OwnersHold' = OwnersHold
  <2>1. outcome' = <<"value">> \o <<>> /\ memory' = Collected(memory)
    BY <1>2, <1>6, FailedIs DEF Came
  <2> QED
    BY <2>1, Lands, Means DEF Promised!Silent
<1>7. ASSUME NEW f, NEW op, NEW L, Turned(f, memory, place, op, L, 0) PROVE Ended(f[0]) = Gives(memory, Nil, <<>>)
  <2>1. f[0] = Gives(memory, Nil, L)
    BY <1>7 DEF Turned
  <2> QED
    BY <2>1, FailedIs DEF Ended
<1>8. CASE v = Nil /\ loop = Error("NA_COLLECTION")
  <2>1. Typed(types, memory') /\ Tidy(memory') /\ Promised!Throw("NA_COLLECTION")
    BY <1>2, <1>8, Threw
  <2> QED
    BY <1>3, <1>4, <1>8, <2>1 DEF Follows, Promised!Loop
<1>9. ASSUME KindOf(types, from) = "array", v # Nil, NEW L \in Seq(Elements), NEW f, v = [kind |-> "array", of |-> L],
             Turned(f, memory, place, "array.push", L, Len(L)), loop = Ended(f[Len(L)])
      PROVE  Follows(types, s)
  <2>1. CASE Len(L) = 0
    <3>1. loop = Gives(memory, Nil, <<>>)
      BY <1>7, <1>9, <2>1
    <3>2. Promised!Got(from).kind # "map" /\ Promised!Got(from).of = L /\ Promised!Got(from) # Nil
      BY <1>4, <1>9
    <3>3. Promised!Loop(from, place)
      BY <1>6, <2>1, <3>1, <3>2 DEF Promised!Loop
    <3> QED
      BY <1>3, <1>6, <3>1, <3>3 DEF Follows
  <2>2. CASE Len(L) # 0
    <3>1. Len(L) > 0
      BY <2>2
    <3>2. Came(Ended(f[Len(L)]))
      BY <1>2, <1>9
    <3> QED
      BY <1>1, <1>3, <1>4, <1>9, <3>1, <3>2, ArrayLoopFollows DEF Follows
  <2> QED
    BY <2>1, <2>2
<1>10. ASSUME KindOf(types, from) = "map", v # Nil, NEW e \in Directory, NEW f,
              v = [kind |-> "map", order |-> Keys(e), under |-> UnderKeys(e)],
              Turned(f, memory, place, "map.remove", Keys(e), Len(Keys(e))), loop = Ended(f[Len(Keys(e))])
       PROVE  Follows(types, s)
  <2> DEFINE L == Keys(e)
  <2>1. Len(L) \in Nat
    <3>1. L \in Seq(Elements)
      BY KeysOfMap
    <3> QED
      BY <3>1
  <2> HIDE DEF L
  <2>2. CASE Len(L) = 0
    <3>1. loop = Gives(memory, Nil, <<>>)
      BY <1>7, <1>10, <2>2 DEF L
    <3>2. Promised!Got(from).kind = "map" /\ Promised!Got(from).order = L /\ Promised!Got(from) # Nil
      BY <1>4, <1>10 DEF L
    <3>3. Promised!Loop(from, place)
      BY <1>6, <2>2, <3>1, <3>2 DEF Promised!Loop
    <3> QED
      BY <1>3, <1>6, <3>1, <3>3 DEF Follows
  <2>3. CASE Len(L) # 0
    <3>1. Len(L) > 0
      BY <2>1, <2>3
    <3>2. Came(Ended(f[Len(L)])) /\ Turned(f, memory, place, "map.remove", L, Len(L)) /\ L = Keys(e)
      BY <1>2, <1>10 DEF L
    <3>3. /\ Typed(types, memory') /\ Tidy(memory')
          /\ Promised!Loop(from, place) \/ Promised!Throw("HEAP_LIMIT_EXCEEDED")
      BY <1>1, <1>4, <1>10, <3>1, <3>2, MapLoopFollows
    <3> QED
      BY <1>3, <3>3 DEF Follows
  <2> QED
    BY <2>2, <2>3
<1> QED
  BY <1>5, <1>8, <1>9, <1>10

-----------------------------------------------------------------------------
(* Every statement does what it means, and keeps the memory typed and tidy.*)
LEMMA StatementFollows ==
  ASSUME CollectionsAssumption, NEW types \in Typings, Typed(types, memory), Tidy(memory), NEW s,
         WellTyped(types, s), Came(Perform(memory, s))
  PROVE  Follows(types, s)
<1>1. \/ s[1] \in {"assign", "make", "ask", "project", "plain", "foreach", "new", "rebind"}
      \/ s[1] = "change" /\ s[5][1] \in {"value", "pop", "rebind"}
  BY DEF WellTyped
<1>2. CASE s[1] = "assign"
  BY <1>2, AssignFollows
<1>3. CASE s[1] = "make"
  BY <1>3, MakeFollows
<1>4. CASE s[1] = "ask"
  BY <1>4, AskFollows
<1>5. CASE s[1] = "project"
  BY <1>5, ProjectFollows
<1>6. CASE s[1] = "plain"
  BY <1>6, PlainFollows
<1>7. CASE s[1] = "foreach"
  BY <1>7, ForEachFollows
<1>8. CASE s[1] = "new"
  BY <1>8, NewFollows
<1>9. CASE s[1] = "rebind"
  BY <1>9, RebindFollows
<1>10. CASE s[1] = "change" /\ s[5][1] \in {"value", "pop", "rebind"}
  BY <1>10, ValueFollows, PopFollows, BlockFollows
<1> QED
  BY <1>1, <1>2, <1>3, <1>4, <1>5, <1>6, <1>7, <1>8, <1>9, <1>10

(* What every statement keeps: the names and the fields hold headers of    *)
(* the kind the checker gave them, each of which agrees with its storage;  *)
(* a map's storage has every key once, as canonicalKey() gives it, and no  *)
(* more of them than the limit, which put() of a key it has never asks for.*)
Kept ==
  \E types \in Typings : Typed(types, memory) /\ Tidy(memory) /\ \A s \in scope : WellTyped(types, s)

(* Nothing is held yet.                                                    *)
LEMMA CollectionsInitially == CollectionsAssumption /\ CollectionsInit => Kept
<1> SUFFICES ASSUME CollectionsAssumption, CollectionsInit PROVE Kept
  OBVIOUS
<1>1. PICK types \in Typings : \A s \in scope : WellTyped(types, s)
  BY DEF CollectionsAssumption, CollectionsInit
<1>2. /\ memory.blocks = [r \in Refs |-> Free] /\ memory.names = [n \in Names |-> Nil]
      /\ memory.owners = [s \in Owners |-> Nil] /\ memory.fields = [b \in Structs |-> Free]
      /\ memory \in Memories
  BY DEF CollectionsInit, Memories
<1>3. Typed(types, memory)
  <2>1. \A n \in Names : Good(memory, types.names[n], memory.names[n])
    BY <1>2 DEF Good
  <2> QED
    BY <1>2, <2>1 DEF Typed
<1>4. Tidy(memory)
  BY <1>2 DEF Tidy
<1> QED
  BY <1>1, <1>3, <1>4 DEF Kept

(* A step keeps the invariant and is a step over plain values.             *)
LEMMA CollectionsStep ==
  ASSUME CollectionsAssumption, Kept, [CollectionsNext]_collectionVars
  PROVE  /\ Kept'
         /\ [Promised!Next]_<<statements, scope, NamesMean, OwnersHold, FieldsMean, ran, outcome>>
<1>1. PICK types \in Typings : Typed(types, memory) /\ Tidy(memory) /\ \A s \in scope : WellTyped(types, s)
  BY DEF Kept
<1>2. CASE UNCHANGED collectionVars
  <2>1. memory' = memory /\ scope' = scope
    BY <1>2 DEF collectionVars
  <2>2. NamesMean' = NamesMean /\ FieldsMean' = FieldsMean /\ OwnersHold' = OwnersHold
    BY <2>1 DEF NamesMean, FieldsMean, OwnersHold
  <2>3. Kept'
    BY <1>1, <2>1 DEF Kept
  <2> QED
    BY <1>2, <2>2, <2>3 DEF collectionVars
<1>3. ASSUME NEW s \in scope, Statement(s) PROVE Kept' /\ Promised!Next
  <2>1. /\ statements < MaxStatements /\ statements' = statements + 1 /\ ran' = s /\ scope' = scope
        /\ Came(Perform(memory, s))
    BY <1>3 DEF Statement, Came
  <2>2. WellTyped(types, s)
    BY <1>1
  <2>3. Follows(types, s)
    BY <1>1, <2>1, <2>2, StatementFollows
  <2>4. Kept'
    BY <1>1, <2>1, <2>3 DEF Follows, Kept
  <2>5. Promised!Means(s) \/ Promised!Throw("HEAP_LIMIT_EXCEEDED")
    BY <2>3 DEF Follows
  <2> QED
    BY <2>1, <2>4, <2>5 DEF Promised!Next
<1> QED
  BY <1>2, <1>3 DEF CollectionsNext

(* It begins as plain values do.                                           *)
LEMMA PromisedInitially == CollectionsInit => Promised!Init
<1> SUFFICES ASSUME CollectionsInit PROVE Promised!Init
  OBVIOUS
<1>1. /\ memory.names = [n \in Names |-> Nil] /\ memory.owners = [s \in Owners |-> Nil]
      /\ memory.fields = [b \in Structs |-> Free]
  BY DEF CollectionsInit
<1>2. NamesMean = [n \in Names |-> Nil]
  BY <1>1 DEF NamesMean, Meaning
<1>3. FieldsMean = [b \in Structs |-> Free]
  BY <1>1 DEF FieldsMean
<1>4. OwnersHold = [s \in Owners |-> Nil]
  BY <1>1 DEF OwnersHold
<1> QED
  BY <1>2, <1>3, <1>4 DEF CollectionsInit, Promised!Init, Promised!Silent

(* Collections are values, whatever shares storage and however many names, *)
(* structs and references there are: what Collections.ValueSpec says of    *)
(* runtime/js/collections, and with it that each name and field always     *)
(* holds a header that agrees with its storage.                            *)
THEOREM CollectionsAreValues ==
  ASSUME CollectionsAssumption
  PROVE  CollectionsSpec => ValueSpec /\ []Kept
<1>1. CollectionsInit => Kept
  BY CollectionsInitially
<1>2. Kept /\ [CollectionsNext]_collectionVars => Kept'
  BY CollectionsStep
<1>3. Kept /\ [CollectionsNext]_collectionVars =>
        [Promised!Next]_<<statements, scope, NamesMean, OwnersHold, FieldsMean, ran, outcome>>
  BY CollectionsStep
<1> QED
  BY <1>1, <1>2, <1>3, PromisedInitially, PTL DEF CollectionsSpec, ValueSpec, Promised!Spec

(***************************************************************************)
(* Sync                                                                    *)
(***************************************************************************)
Output == [target : 1..MaxTarget, before : Int, seen : Seq(1..MaxSource), consumed : Nat]

(* What is left of a sequence past its first k elements is a sequence over *)
(* the same set.                                                           *)
LEMMA SuffixSeq ==
  ASSUME NEW S, NEW s \in Seq(S), NEW k \in 0..Len(s)
  PROVE  SubSeq(s, k + 1, Len(s)) \in Seq(S)
<1>1. Len(s) \in Nat
  OBVIOUS
<1>2. \A i \in (k + 1)..Len(s) : s[i] \in S
  BY <1>1
<1> QED
  BY <1>1, <1>2

(* TypeOK holds initially and every step keeps it. *)
LEMMA TypeStep == TypeOK /\ [Next]_vars => TypeOK'
<1> SUFFICES ASSUME TypeOK, [Next]_vars PROVE TypeOK'
  OBVIOUS
<1> USE SyncAssumption
<1>1. CASE SourceNext
  <2>1. received + 1 \in 1..MaxSource
    BY <1>1 DEF SourceNext, TypeOK
  <2>2. buffered' \in Seq(1..MaxSource)
    BY <2>1, <1>1 DEF SourceNext, TypeOK
  <2> QED
    BY <1>1, <2>1, <2>2 DEF SourceNext, EnterDrain, Draining, TypeOK
<1>2. CASE TargetNext
  <2>1. notified + 1 \in 1..MaxTarget
    BY <1>2 DEF TargetNext, TypeOK
  <2>2. pending' \in Seq(1..MaxTarget)
    BY <2>1, <1>2 DEF TargetNext, TypeOK
  <2> QED
    BY <1>2, <2>1, <2>2 DEF TargetNext, EnterDrain, Draining, TypeOK
<1>3. CASE SourceComplete
  BY <1>3 DEF SourceComplete, EnterDrain, Draining, CompletedIf, Open, TypeOK
<1>4. CASE TargetComplete
  BY <1>4 DEF TargetComplete, EnterDrain, Draining, CompletedIf, Open, TypeOK
<1>5. CASE SideError
  BY <1>5 DEF SideError, input, TypeOK
<1>6. CASE Unsubscribe
  BY <1>6 DEF Unsubscribe, input, TypeOK
<1>7. CASE SubscribeTarget
  BY <1>7 DEF SubscribeTarget, TypeOK
<1>8. CASE Serve
  <2>1. pending \in Seq(1..MaxTarget) /\ pending # <<>> /\ buffered \in Seq(1..MaxSource)
    BY <1>8 DEF Serve, Looping, TypeOK
  <2>2. Head(pending) \in 1..MaxTarget /\ Tail(pending) \in Seq(1..MaxTarget)
    BY <2>1
  <2>3. Answer \in 0..Len(buffered)
    BY <1>8 DEF Serve, Consumes, Answer
  <2>4. buffered' \in Seq(1..MaxSource)
    BY <2>1, <2>3, <1>8, SuffixSeq DEF Serve, Rest
  <2>5. [target |-> Head(pending), before |-> received - Len(buffered), seen |-> buffered,
         consumed |-> Answer] \in Output
    BY <2>1, <2>2, <2>3 DEF Output, TypeOK
  <2>6. emitted' \in Seq(Output)
    BY <2>5, <1>8 DEF Serve, TypeOK, Output
  <2> QED
    BY <2>2, <2>4, <2>6, <1>8 DEF Serve, ShiftedQueue, input, TypeOK, Output
<1>9. CASE ProjectFails
  BY <1>9 DEF ProjectFails, input, TypeOK
<1>10. CASE DrainEnd
  BY <1>10 DEF DrainEnd, CompletedIf, Open, input, TypeOK
<1>11. CASE EmitReturn
  BY <1>11 DEF EmitReturn, input, TypeOK
<1>12. CASE UNCHANGED vars
  BY <1>12 DEF vars, input, TypeOK
<1> QED
  BY <1>1, <1>2, <1>3, <1>4, <1>5, <1>6, <1>7, <1>8, <1>9, <1>10, <1>11, <1>12 DEF Next

(* The queue, the buffer and the flags stay well typed. *)
THEOREM TypeInvariant == Spec => []TypeOK
<1>1. Init => TypeOK
  <2> SUFFICES ASSUME Init PROVE TypeOK
    OBVIOUS
  <2>1. pending \in Seq(1..MaxTarget) /\ buffered \in Seq(1..MaxSource)
    BY DEF Init
  <2>2. emitted \in Seq(Output)
    <3>1. \A S : <<>> \in Seq(S)
      OBVIOUS
    <3> QED
      BY <3>1 DEF Init
  <2>3. received \in 0..MaxSource /\ notified \in 0..MaxTarget
    BY SyncAssumption DEF Init
  <2> QED
    BY <2>1, <2>2, <2>3 DEF Init, TypeOK, Output
<1> QED
  BY <1>1, TypeStep, PTL DEF Spec

-----------------------------------------------------------------------------
(***************************************************************************)
(* Order.  Only TargetNext and Serve touch the queue or the output: the    *)
(* first extends the numbering at its end, the second moves its head from  *)
(* the queue to the output.                                                *)
(***************************************************************************)

(* Taking the head of the queue keeps the numbering. *)
LEMMA ServeKeepsOrder == TypeOK /\ ServedInOrder /\ Serve => ServedInOrder'
<1> SUFFICES ASSUME TypeOK, ServedInOrder, Serve PROVE ServedInOrder'
  OBVIOUS
<1>1. pending \in Seq(1..MaxTarget) /\ pending # <<>> /\ emitted \in Seq(Output)
  BY DEF Serve, Looping, TypeOK, Output
<1>2. /\ pending' = Tail(pending) /\ notified' = notified
      /\ Len(emitted') = Len(emitted) + 1
      /\ \A i \in 1..Len(emitted) : emitted'[i] = emitted[i]
      /\ emitted'[Len(emitted) + 1].target = Head(pending)
  BY <1>1 DEF Serve, ShiftedQueue, input
<1>3. Len(Tail(pending)) = Len(pending) - 1 /\ Len(pending) \in Nat \ {0}
  BY <1>1
<1>4. \A i \in 1..Len(Tail(pending)) : Tail(pending)[i] = pending[i + 1]
  BY <1>1
<1>5. Head(pending) = Len(emitted) + 1
  BY <1>1, <1>3 DEF ServedInOrder
<1>6. Len(emitted) \in Nat
  BY <1>1
<1>7. Len(emitted') + Len(pending') = notified'
  BY <1>2, <1>3, <1>6 DEF ServedInOrder
<1>8. \A i \in 1..Len(emitted') : emitted'[i].target = i
  BY <1>2, <1>5, <1>6 DEF ServedInOrder
<1>9. \A i \in 1..Len(pending') : pending'[i] = Len(emitted') + i
  <2> TAKE i \in 1..Len(pending')
  <2>1. i + 1 \in 1..Len(pending)
    BY <1>2, <1>3
  <2>2. pending'[i] = pending[i + 1]
    BY <1>2, <1>4
  <2>3. pending[i + 1] = Len(emitted) + (i + 1)
    BY <2>1 DEF ServedInOrder
  <2> QED
    BY <1>2, <1>6, <2>2, <2>3
<1> QED
  BY <1>7, <1>8, <1>9 DEF ServedInOrder

LEMMA OrderStep == TypeOK /\ ServedInOrder /\ [Next]_vars => ServedInOrder'
<1> SUFFICES ASSUME TypeOK, ServedInOrder, [Next]_vars PROVE ServedInOrder'
  OBVIOUS
<1>1. CASE Serve
  BY <1>1, ServeKeepsOrder
<1>2. CASE TargetNext
  <2>1. pending \in Seq(1..MaxTarget) /\ notified \in Nat /\ emitted \in Seq(Output)
    BY SyncAssumption DEF TypeOK, Output
  <2>2. /\ Len(pending') = Len(pending) + 1 /\ notified' = notified + 1
        /\ emitted' = emitted
        /\ \A i \in 1..Len(pending) : pending'[i] = pending[i]
        /\ pending'[Len(pending) + 1] = notified + 1
    BY <2>1, <1>2 DEF TargetNext
  <2>3. Len(pending) \in Nat /\ Len(emitted) \in Nat
    BY <2>1
  <2>3a. Len(emitted) + Len(pending) = notified
    BY DEF ServedInOrder
  <2>4. Len(emitted') + Len(pending') = notified'
    BY <2>1, <2>2, <2>3, <2>3a
  <2>5. \A i \in 1..Len(emitted') : emitted'[i].target = i
    BY <2>2 DEF ServedInOrder
  <2>6. \A i \in 1..Len(pending') : pending'[i] = Len(emitted') + i
    <3> TAKE i \in 1..Len(pending')
    <3>1. CASE i \in 1..Len(pending)
      BY <3>1, <2>2 DEF ServedInOrder
    <3>2. CASE i = Len(pending) + 1
      BY <3>2, <2>1, <2>2, <2>3 DEF ServedInOrder
    <3> QED
      BY <3>1, <3>2, <2>2, <2>3
  <2> QED
    BY <2>4, <2>5, <2>6 DEF ServedInOrder
<1>3. CASE ~Serve /\ ~TargetNext
  <2>1. pending' = pending /\ emitted' = emitted /\ notified' = notified
    BY <1>3 DEF Next, SourceNext, SourceComplete, TargetComplete, SideError, Unsubscribe,
       SubscribeTarget, ProjectFails, DrainEnd, EmitReturn, vars, input
  <2> QED
    BY <2>1 DEF ServedInOrder
<1> QED
  BY <1>1, <1>2, <1>3

(* Notifications are served first in, first out, each once, whatever the   *)
(* consumer does from within next().                                       *)
THEOREM Order == Spec => []ServedInOrder
<1>1. Init => ServedInOrder
  BY DEF Init, ServedInOrder
<1> QED
  BY <1>1, OrderStep, TypeInvariant, PTL DEF Spec

-----------------------------------------------------------------------------
(***************************************************************************)
(* Values.  What is buffered is numbered on from what is consumed: a value *)
(* that arrives extends it, and what a notification consumes leaves it at  *)
(* the front.                                                              *)
(***************************************************************************)

(* What is left of a run of numbers is the run from where it was cut.      *)
LEMMA RestOfRun ==
  ASSUME NEW s \in Seq(1..MaxSource), NEW n \in Int, NEW k \in 0..Len(s),
         \A j \in 1..Len(s) : s[j] = n + j
  PROVE  LET r == SubSeq(s, k + 1, Len(s)) IN
         /\ Len(r) = Len(s) - k
         /\ \A j \in 1..Len(r) : r[j] = n + k + j
<1> DEFINE r == SubSeq(s, k + 1, Len(s))
<1>1. Len(s) \in Nat /\ k \in Nat
  OBVIOUS
<1>2. Len(r) = Len(s) - k
  BY <1>1
<1>3. \A j \in 1..Len(r) : r[j] = s[k + j]
  BY <1>1, <1>2
<1>4. \A j \in 1..Len(r) : k + j \in 1..Len(s)
  BY <1>1, <1>2
<1>5. \A j \in 1..Len(r) : r[j] = n + k + j
  BY <1>1, <1>3, <1>4
<1> QED
  BY <1>2, <1>5

(* The values consumed are a number. *)
LEMMA GoneInt ==
  ASSUME emitted \in Seq(Output), NEW i \in 0..Len(emitted)
  PROVE  Gone(i) \in Int
<1>1. CASE i = 0
  BY <1>1 DEF Gone
<1>2. CASE i # 0
  <2>1. Len(emitted) \in Nat
    OBVIOUS
  <2>2. i \in 1..Len(emitted)
    BY <1>2, <2>1
  <2>3. emitted[i] \in Output
    BY <2>2
  <2>4. emitted[i].before \in Int /\ emitted[i].consumed \in Int
    BY <2>3 DEF Output
  <2>5. Gone(i) = emitted[i].before + emitted[i].consumed
    BY <1>2 DEF Gone
  <2> QED
    BY <2>4, <2>5
<1> QED
  BY <1>1, <1>2

LEMMA ServeKeepsValues == NoValueLost /\ Serve /\ TypeOK' => NoValueLost'
<1> SUFFICES ASSUME NoValueLost, Serve, TypeOK' PROVE NoValueLost'
  OBVIOUS
<1> DEFINE n == Len(emitted)
           b == received - Len(buffered)
           e == [target |-> Head(pending), before |-> b, seen |-> buffered, consumed |-> Answer]
<1>1. emitted \in Seq(Output) /\ buffered \in Seq(1..MaxSource) /\ received \in Int
  BY DEF NoValueLost, TypeOK, Output
<1>2. n \in Nat /\ Len(buffered) \in Nat /\ b \in Int
  BY <1>1
<1>3. Answer \in 0..Len(buffered)
  BY DEF Serve, Consumes, Answer
<1>4. /\ emitted' = Append(emitted, e) /\ received' = received
      /\ buffered' = SubSeq(buffered, Answer + 1, Len(buffered))
  BY DEF Serve, Rest, input
<1>5. /\ Len(emitted') = n + 1 /\ emitted'[n + 1] = e
      /\ \A i \in 1..n : emitted'[i] = emitted[i]
  <2> HIDE DEF e
  <2> QED
    BY <1>1, <1>4
<1>6. Gone(n) = b
  <2>1. Gone(n) \in Int
    <3>1. n \in 0..Len(emitted)
      BY <1>2
    <3> QED
      BY <1>1, <3>1, GoneInt
  <2>2. received = Gone(n) + Len(buffered)
    BY DEF NoValueLost
  <2> QED
    BY <1>1, <1>2, <2>1, <2>2
<1>7. Gone(Len(emitted))' = b + Answer
  <2>1. emitted'[Len(emitted')].before = b /\ emitted'[Len(emitted')].consumed = Answer
    BY <1>5
  <2>2. Len(emitted') # 0
    BY <1>2, <1>5
  <2> HIDE DEF n, b, e
  <2> QED
    BY <2>1, <2>2 DEF Gone
<1>8. \A i \in 0..n : Gone(i)' = Gone(i)
  <2> TAKE i \in 0..n
  <2>1. i # 0 => emitted'[i] = emitted[i]
    BY <1>2, <1>5
  <2> HIDE DEF e, n
  <2> QED
    BY <2>1 DEF Gone
<1>9. \A k \in 1..Len(buffered) : buffered[k] = b + k
  BY <1>6 DEF NoValueLost
<1>10. /\ Len(buffered') = Len(buffered) - Answer
       /\ \A k \in 1..Len(buffered') : buffered'[k] = b + Answer + k
  BY <1>1, <1>2, <1>3, <1>4, <1>9, RestOfRun
<1>11. ASSUME NEW i \in 1..Len(emitted')
       PROVE  /\ emitted'[i].before = Gone(i - 1)'
              /\ \A k \in 1..Len(emitted'[i].seen) : emitted'[i].seen[k] = emitted'[i].before + k
              /\ emitted'[i].consumed \in 0..Len(emitted'[i].seen)
  <2>1. CASE i = n + 1
    <3>1. i - 1 = n /\ emitted'[i] = e
      BY <1>2, <1>5, <2>1
    <3>2. Gone(i - 1)' = b
      BY <1>2, <1>6, <1>8, <3>1
    <3> QED
      BY <1>3, <1>9, <3>1, <3>2
  <2>2. CASE i # n + 1
    <3>1. i \in 1..n /\ i - 1 \in 0..n /\ emitted'[i] = emitted[i]
      BY <1>2, <1>5, <2>2
    <3>2. Gone(i - 1)' = Gone(i - 1)
      BY <1>8, <3>1
    <3>3. /\ emitted[i].before = Gone(i - 1)
          /\ \A k \in 1..Len(emitted[i].seen) : emitted[i].seen[k] = emitted[i].before + k
          /\ emitted[i].consumed \in 0..Len(emitted[i].seen)
      BY <3>1 DEF NoValueLost
    <3> QED
      BY <3>1, <3>2, <3>3
  <2> QED
    BY <2>1, <2>2
<1>12. received' = Gone(Len(emitted))' + Len(buffered')
  BY <1>1, <1>2, <1>3, <1>4, <1>7, <1>10
<1>13. \A k \in 1..Len(buffered') : buffered'[k] = Gone(Len(emitted))' + k
  BY <1>7, <1>10
<1> QED
  BY <1>11, <1>12, <1>13 DEF NoValueLost

LEMMA ValuesStep == NoValueLost /\ [Next]_vars /\ TypeOK' => NoValueLost'
<1> SUFFICES ASSUME NoValueLost, [Next]_vars, TypeOK' PROVE NoValueLost'
  OBVIOUS
<1>1. CASE Serve
  BY <1>1, ServeKeepsValues
<1>2. CASE SourceNext
  <2> DEFINE m == Len(buffered)
  <2>1. /\ emitted \in Seq(Output) /\ buffered \in Seq(1..MaxSource) /\ received \in Int
        /\ m \in Nat /\ Len(emitted) \in Nat
    BY DEF NoValueLost, TypeOK, Output
  <2>2. /\ emitted' = emitted /\ received' = received + 1
        /\ Len(buffered') = m + 1 /\ buffered'[m + 1] = received + 1
        /\ \A k \in 1..m : buffered'[k] = buffered[k]
    BY <1>2, <2>1 DEF SourceNext
  <2> DEFINE g == Gone(Len(emitted))
  <2>3. g \in Int /\ g' = g
    <3>1. Len(emitted) \in 0..Len(emitted)
      BY <2>1
    <3>2. g \in Int
      BY <2>1, <3>1, GoneInt
    <3>3. g' = g
      BY <2>2 DEF Gone
    <3> QED
      BY <3>2, <3>3
  <2>4. received = g + m /\ \A k \in 1..m : buffered[k] = g + k
    BY DEF NoValueLost
  <2>5. received' = g' + Len(buffered')
    <3> HIDE DEF g
    <3> QED
      BY <2>1, <2>2, <2>3, <2>4
  <2>6. \A k \in 1..Len(buffered') : buffered'[k] = g' + k
    <3> HIDE DEF g
    <3> TAKE k \in 1..Len(buffered')
    <3>1. CASE k \in 1..m
      BY <2>2, <2>3, <2>4, <3>1
    <3>2. CASE k = m + 1
      BY <2>1, <2>2, <2>3, <2>4, <3>2
    <3> QED
      BY <2>1, <2>2, <3>1, <3>2
  <2>7. \A i : Gone(i)' = Gone(i)
    BY <2>2 DEF Gone
  <2> QED
    BY <2>2, <2>5, <2>6, <2>7 DEF NoValueLost
<1>3. CASE ~Serve /\ ~SourceNext
  <2>1. buffered' = buffered /\ emitted' = emitted /\ received' = received
    BY <1>3 DEF Next, TargetNext, SourceComplete, TargetComplete, SideError, Unsubscribe,
       SubscribeTarget, ProjectFails, DrainEnd, EmitReturn, vars, input
  <2> QED
    BY <2>1 DEF NoValueLost, Gone
<1> QED
  BY <1>1, <1>2, <1>3

(* No source value is lost, repeated or overtaken, whatever the consumer   *)
(* feeds either side from within next().                                   *)
THEOREM Values == Spec => []NoValueLost
<1>1. Init /\ TypeOK => NoValueLost
  BY DEF Init, NoValueLost, Gone
<1> QED
  BY <1>1, ValuesStep, TypeInvariant, PTL DEF Spec

-----------------------------------------------------------------------------
(***************************************************************************)
(* Completion.  The loop is entered by every handler that could make       *)
(* something servable or complete, and it comes to rest only in DrainEnd   *)
(* (or with the output ended).                                             *)
(***************************************************************************)

LEMMA QuiescentStep == QuiescentIsDone /\ [Next]_vars => QuiescentIsDone'
<1> SUFFICES ASSUME QuiescentIsDone, [Next]_vars, (pc = "idle" /\ Open)'
             PROVE  (/\ pending # <<>> => Blocked /\ ~sourceComplete
                     /\ ~(targetComplete /\ pending = <<>>)
                     /\ ~(sourceComplete /\ ~ContinueAfterSourceComplete /\ buffered = <<>>))'
  BY DEF QuiescentIsDone
<1>1. CASE DrainEnd
  <2>1. Open /\ ~SourceExhausted /\ ~Done(pending, sourceComplete, targetComplete)
    BY <1>1 DEF DrainEnd, CompletedIf, Open
  <2>2. pending = <<>> \/ Blocked
    BY <2>1, <1>1 DEF DrainEnd
  <2>3. /\ pending # <<>> => Blocked /\ ~sourceComplete
        /\ ~(targetComplete /\ pending = <<>>)
        /\ ~(sourceComplete /\ ~ContinueAfterSourceComplete /\ buffered = <<>>)
    BY <2>1, <2>2 DEF SourceExhausted, Done
  <2> QED
    BY <2>3, <1>1 DEF DrainEnd, input, Blocked, Answer, ContinueAfterSourceComplete
<1>2. CASE SubscribeTarget \/ UNCHANGED vars
  <2>1. /\ pc' = pc /\ subscriber' = subscriber /\ pending' = pending
        /\ buffered' = buffered /\ sourceComplete' = sourceComplete
        /\ targetComplete' = targetComplete /\ projector' = projector
    BY <1>2 DEF SubscribeTarget, vars, input
  <2> QED
    BY <2>1 DEF QuiescentIsDone, Open, Blocked, Answer, ContinueAfterSourceComplete
<1>3. CASE SourceNext \/ TargetNext \/ SourceComplete \/ TargetComplete \/ Serve \/ EmitReturn
  BY <1>3 DEF SourceNext, TargetNext, SourceComplete, TargetComplete, EnterDrain, Draining,
     Serve, EmitReturn
<1>4. CASE SideError \/ Unsubscribe \/ ProjectFails
  BY <1>4 DEF SideError, Unsubscribe, ProjectFails, Open
<1> QED
  BY <1>1, <1>2, <1>3, <1>4 DEF Next

(* At rest and open, the queue is empty or waits for a source that may     *)
(* still emit, and something can still feed the output.                    *)
THEOREM Quiescent == Spec => []QuiescentIsDone
<1>1. Init => QuiescentIsDone
  BY DEF Init, QuiescentIsDone
<1> QED
  BY <1>1, QuiescentStep, PTL DEF Spec

(* What a step may complete over a queued notification.                    *)
Dropping ==
  (Open /\ subscriber' = "completed" /\ pending' # <<>>) =>
    /\ sourceComplete'
    /\ Blocked' \/ (pc = "emit" /\ targetComplete')

LEMMA DroppingStep == TypeOK /\ [Next]_vars => Dropping
<1> SUFFICES ASSUME TypeOK, [Next]_vars, Open, subscriber' = "completed", pending' # <<>>
             PROVE  sourceComplete' /\ (Blocked' \/ (pc = "emit" /\ targetComplete'))
  BY DEF Dropping
<1>1. CASE DrainEnd
  <2>1. SourceExhausted \/ Done(pending, sourceComplete, targetComplete)
    BY <1>1 DEF DrainEnd, CompletedIf, Open
  <2>2. pending # <<>> /\ sourceComplete /\ Blocked
    BY <2>1, <1>1 DEF DrainEnd, SourceExhausted, Done
  <2> QED
    BY <2>2, <1>1 DEF DrainEnd, input, Blocked, Answer
<1>2. CASE SourceComplete
  <2>1. pc # "idle" /\ Done(pending, TRUE, targetComplete)
    BY <1>2 DEF SourceComplete, CompletedIf, Draining, Open
  <2>2. pc = "emit" /\ targetComplete
    BY <2>1, <1>2 DEF SourceComplete, Done, TypeOK
  <2> QED
    BY <2>2, <1>2 DEF SourceComplete
<1>3. CASE TargetComplete
  <2>1. pc # "idle" /\ Done(pending, sourceComplete, TRUE)
    BY <1>3 DEF TargetComplete, CompletedIf, Draining, Open
  <2>2. pc = "emit" /\ sourceComplete
    BY <2>1, <1>3 DEF TargetComplete, Done, TypeOK
  <2> QED
    BY <2>2, <1>3 DEF TargetComplete
<1>4. CASE \/ SourceNext \/ TargetNext \/ SideError \/ Unsubscribe \/ SubscribeTarget
           \/ Serve \/ ProjectFails \/ EmitReturn \/ UNCHANGED vars
  BY <1>4 DEF SourceNext, TargetNext, SideError, Unsubscribe, SubscribeTarget, Serve, ProjectFails,
     EmitReturn, Open, vars
<1> QED
  BY <1>1, <1>2, <1>3, <1>4 DEF Next

(* The output completes over a queued notification only with the source    *)
(* complete and the notification unservable, or when the second side       *)
(* completes while the consumer is within next(): there completeIfDone()   *)
(* does not ask the projector (sync.ts:297-301, 315-319).                  *)
THEOREM DroppedWithin == Spec => DropsOnlyWithinNext
<1>1. TypeOK /\ [Next]_vars => [Dropping]_vars
  BY DroppingStep
<1> QED
  BY <1>1, TypeInvariant, PTL DEF Spec, DropsOnlyWithinNext, Dropping

=============================================================================
