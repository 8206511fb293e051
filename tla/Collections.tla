---------------------------- MODULE Collections ----------------------------
(***************************************************************************)
(* Arrays, maps, matrices and the struct fields that hold them             *)
(* (runtime/js/collections, runtime/js/struct-storage.ts, and the order in *)
(* which codegen/lower.ts takes a receiver and its arguments).             *)
(*                                                                         *)
(* A collection is a header over frozen storage.  Names and struct fields  *)
(* hold headers; a mutator allocates storage of its own and gives back a   *)
(* header to store.  A step here is one statement: what fails leaves all   *)
(* as it was (steps of several statements are Context's, and the arena     *)
(* under the storage is Heap's).  Storage is a reference in Refs, and      *)
(* allocate() fails when none is left, as it does at the heap's limit.     *)
(* The checker has settled the types: a value here has that of its place.  *)
(***************************************************************************)
EXTENDS Integers, FiniteSets, SequencesExt

CONSTANTS Names, Owners, Structs, Refs, Programs, Elements, MaxElements, MaxStatements,
          Nil,         (* a header, reference or element that is na          *)
          Free,        (* what a reference holds that nothing was put in     *)
          NegativeZero (* the float a map key may be given as                *)

(***************************************************************************)
(* The types the checker has settled: the kind of collection a name holds, *)
(* and the fields of the structs, what an operation is given and gives.    *)
(***************************************************************************)
Kinds == {"array", "map", "matrix"}
Places == ({"name"} \X Names) \cup ({"field"} \X Owners)
Typings == [names : [Names -> Kinds], field : Kinds]
KindOf(types, place) == IF place[1] = "name" THEN types.names[place[2]] ELSE types.field

Makes == {<<"array", "array.new">>, <<"array", "array.from">>, <<"map", "map.new">>, <<"matrix", "matrix.new">>}
Asks == {<<"array", "array.size">>, <<"array", "array.get">>, <<"array", "array.first">>, <<"array", "array.last">>,
         <<"map", "map.size">>, <<"map", "map.contains">>, <<"map", "map.get">>,
         <<"matrix", "matrix.elements_count">>, <<"matrix", "matrix.get">>}
Projects == {<<"array", "array.copy", "array">>, <<"map", "map.copy", "map">>, <<"matrix", "matrix.copy", "matrix">>,
             <<"map", "map.keys", "array">>, <<"map", "map.values", "array">>,
             <<"matrix", "matrix.row", "array">>, <<"matrix", "matrix.column", "array">>}
Changes == {<<"array", "array.set">>, <<"array", "array.push">>, <<"array", "array.pop">>, <<"array", "array.clear">>,
            <<"map", "map.put">>, <<"map", "map.remove">>, <<"map", "map.clear">>,
            <<"matrix", "matrix.set">>, <<"matrix", "matrix.fill">>}

WholeOrNil(x) == x \in Int \cup {Nil}
Suits(op, args) ==
  /\ args \in Seq(Elements)
  /\ CASE op = "array.from" -> TRUE
       [] op \in {"array.push", "matrix.fill", "map.get", "map.contains", "map.remove"} -> Len(args) = 1
       [] op \in {"array.get", "matrix.row", "matrix.column"} -> Len(args) = 1 /\ WholeOrNil(args[1])
       [] op \in {"array.new", "array.set"} -> Len(args) = 2 /\ WholeOrNil(args[1])
       [] op = "map.put" -> Len(args) = 2
       [] op = "matrix.get" -> Len(args) = 2 /\ WholeOrNil(args[1]) /\ WholeOrNil(args[2])
       [] op \in {"matrix.new", "matrix.set"} -> Len(args) = 3 /\ WholeOrNil(args[1]) /\ WholeOrNil(args[2])
       [] OTHER -> args = <<>>

WellTyped(types, s) ==
  LET kind(place) == KindOf(types, place) IN
  \/ s[1] = "assign" /\ s[2] \in Places /\ s[3] \in Places /\ kind(s[2]) = kind(s[3])
  \/ s[1] = "make" /\ s[2] \in Places /\ <<kind(s[2]), s[3]>> \in Makes /\ Suits(s[3], s[4])
  \/ s[1] = "ask" /\ s[3] \in Places /\ <<kind(s[3]), s[2]>> \in Asks /\ Suits(s[2], s[4])
  \/ /\ s[1] = "project" /\ s[2] \in Places /\ s[4] \in Places
     /\ <<kind(s[4]), s[3], kind(s[2])>> \in Projects /\ Suits(s[3], s[5])
  \/ s[1] = "plain" /\ s[2] \in Places /\ <<kind(s[2]), s[3]>> \in Changes /\ Suits(s[3], s[4])
  \/ /\ s[1] = "change" /\ s[2] \in Places /\ <<kind(s[2]), s[3]>> \in Changes
     /\ s[4] \in Seq(Elements)
     /\ \/ s[5][1] = "value" /\ s[5][2] \in Elements /\ Suits(s[3], Append(s[4], s[5][2]))
        \/ /\ s[5][1] = "pop" /\ s[5][2] \in Places /\ kind(s[5][2]) = "array"
           /\ \A x \in Elements : Suits(s[3], Append(s[4], x))
        \/ /\ s[5][1] = "rebind" /\ s[5][2] \in Owners /\ s[5][3] \in Owners
           /\ s[5][4] \in Elements /\ Suits(s[3], Append(s[4], s[5][4]))
  \/ s[1] = "foreach" /\ s[2] \in Places /\ s[3] \in Places /\ kind(s[2]) = kind(s[3]) /\ kind(s[3]) \in {"array", "map"}
  \/ s[1] = "new" /\ s[2] \in Owners /\ s[3] \in Places /\ kind(s[3]) = types.field
  \/ s[1] = "rebind" /\ s[2] \in Owners /\ s[3] \in Owners

(* What a name or a field may hold, and a reference.                        *)
Entries == [key : Elements, value : Elements]
Stored == Seq(Elements) \cup Seq(Entries)
ArrayHeaders == [kind : {"array"}, storage : Refs, size : Nat, capacity : Nat]
MapHeaders == [kind : {"map"}, storage : Refs, size : Nat]
MatrixHeaders == [kind : {"matrix"}, storage : Refs, rows : Nat, columns : Nat]
HeaderValues == ArrayHeaders \cup MapHeaders \cup MatrixHeaders

(* What a header stands for: a sequence, an order of keys with what is kept *)
(* under each, or a rectangle.                                              *)
Contents ==
  [kind : {"array"}, of : Seq(Elements)]
    \cup [kind : {"map"}, order : Seq(Elements), under : UNION {[D -> Elements] : D \in SUBSET Elements}]
    \cup [kind : {"matrix"}, rows : Nat, columns : Nat, at : Seq(Seq(Elements))]
    \cup [kind : {"fresh"}]        (* the receiver of a constructor: nothing  *)

CollectionsAssumption ==
  /\ Refs \subseteq Nat /\ Refs # {} /\ IsFiniteSet(Refs)
  /\ MaxElements \in Nat /\ MaxStatements \in Nat
  /\ Nil \notin Int /\ NegativeZero \notin Int /\ Nil # NegativeZero /\ Nil # Free
  /\ Nil \notin Structs \cup HeaderValues \cup Contents /\ Free \notin HeaderValues \cup Contents \cup Stored
  /\ {Nil, 0} \subseteq Elements
  /\ \A program \in Programs : \E types \in Typings : \A s \in program : WellTyped(types, s)

-----------------------------------------------------------------------------
VARIABLES scope,      (* the statements this program is made of              *)
          memory,     (* blocks, and what names, owners and fields hold      *)
          ran,        (* the last statement                                  *)
          outcome,    (* what it gave, or its error                          *)
          statements

collectionVars == <<scope, memory, ran, outcome, statements>>

NoError == "none"

CollectionsInit ==
  /\ scope \in Programs
  /\ memory = [blocks |-> [r \in Refs |-> Free], names |-> [n \in Names |-> Nil],
               owners |-> [s \in Owners |-> Nil], fields |-> [b \in Structs |-> Free]]
  /\ ran = <<>> /\ outcome = <<"value">> /\ statements = 0

-----------------------------------------------------------------------------
(* An operation gives the memory after it, a header to store, and what it is*)
(* worth, if anything (<<>> or <<x>>), or throws.                           *)
Gives(m, v, r) == [memory |-> m, value |-> v, result |-> r]
Error(code) == [error |-> code]
Failed(r) == "error" \in DOMAIN r
Then(r, F(_)) == IF Failed(r) THEN r ELSE F(r)
Guarded(check, r) == IF check = NoError THEN r ELSE Error(check)

ShapeError(n) == IF n = Nil \/ n < 0 THEN "INVALID_SHAPE" ELSE NoError
IndexError(n, size) ==
  IF n = Nil THEN "INVALID_SHAPE" ELSE IF n \in 0..size - 1 THEN NoError ELSE "INDEX_OUT_OF_BOUNDS"
LimitError(size) == IF size > MaxElements THEN "COLLECTION_LIMIT_EXCEEDED" ELSE NoError
EmptyError(h) == IF h.size = 0 THEN "EMPTY_COLLECTION" ELSE NoError
KeyError(k) == IF k = Nil THEN "INVALID_MAP_KEY" ELSE NoError
CanonicalKey(k) == IF k = NegativeZero THEN 0 ELSE k

(* Storage is frozen: a header is all that ever points to it.               *)
Allocate(m, h, payload) ==
  LET free == {r \in Refs : m.blocks[r] = Free} IN
  IF free = {} THEN Error("HEAP_LIMIT_EXCEEDED")
  ELSE LET r == CHOOSE x \in free : \A y \in free : x <= y
       IN Gives([m EXCEPT !.blocks[r] = payload], [h EXCEPT !.storage = r], <<>>)

ArrayHeader(size, capacity) == [kind |-> "array", storage |-> Nil, size |-> size, capacity |-> capacity]
MapHeader(size) == [kind |-> "map", storage |-> Nil, size |-> size]
MatrixHeader(rows, columns) == [kind |-> "matrix", storage |-> Nil, rows |-> rows, columns |-> columns]

CreateArray(m, elements) ==
  Guarded(LimitError(Len(elements)),
          Allocate(m, ArrayHeader(Len(elements), Len(elements)), elements))
CreateMatrix(m, rows, columns, x) ==
  Guarded(LimitError(rows * columns),
          Allocate(m, MatrixHeader(rows, columns), [i \in 1..rows * columns |-> x]))
(* Mutant: an array with room to spare is pushed to where it is.            *)
ReplaceInPlace(m, h, elements, capacity) ==
  LET after == [h EXCEPT !.size = Len(elements), !.capacity = capacity] IN
  IF Len(elements) > h.size /\ h.size < h.capacity
  THEN Gives([m EXCEPT !.blocks[h.storage] = elements], after, <<>>)
  ELSE Allocate(m, after, elements)
ReplaceArray(m, h, elements, capacity) ==
  Allocate(m, [h EXCEPT !.size = Len(elements), !.capacity = capacity], elements)
ReplaceMap(m, h, entries) == Allocate(m, [h EXCEPT !.size = Len(entries)], entries)
ReplaceMatrix(m, h, elements) == Allocate(m, h, elements)

(* What every read and every mutator finds out about its receiver first.    *)
ArrayAgrees(h, stored) == h.size = Len(stored) /\ h.size <= h.capacity
MapAgrees(h, stored) == h.size = Len(stored)
MatrixAgrees(h, stored) == h.rows * h.columns = Len(stored)
Agrees(m, h) ==
  LET stored == m.blocks[h.storage] IN
  /\ stored # Free
  /\ CASE h.kind = "array" -> ArrayAgrees(h, stored)
       [] h.kind = "map" -> MapAgrees(h, stored)
       [] h.kind = "matrix" -> MatrixAgrees(h, stored)
ReceiverError(m, h) ==
  IF h = Nil THEN "NA_COLLECTION" ELSE IF Agrees(m, h) THEN NoError ELSE "fatal"
Receiving(m, h, F(_)) == Guarded(ReceiverError(m, h), F(m.blocks[h.storage]))

Find(entries, k) == {i \in DOMAIN entries : entries[i].key = CanonicalKey(k)}
Keys(entries) == [i \in DOMAIN entries |-> entries[i].key]
Items(entries) == [i \in DOMAIN entries |-> entries[i].value]
CellAt(h, row, column) == row * h.columns + column + 1

-----------------------------------------------------------------------------
(* Constructors, and what is read of a receiver h.                          *)
Construct(m, op, args) ==
  CASE op = "array.new" ->
         Guarded(ShapeError(args[1]),
           Guarded(LimitError(args[1]), CreateArray(m, [i \in 1..args[1] |-> args[2]])))
    [] op = "array.from" -> CreateArray(m, args)
    [] op = "map.new" -> Allocate(m, MapHeader(0), <<>>)
    [] op = "matrix.new" ->
         Guarded(ShapeError(args[1]), Guarded(ShapeError(args[2]), CreateMatrix(m, args[1], args[2], args[3])))

ArrayRead(m, op, h, args) ==
  CASE op = "array.size" -> Gives(m, Nil, <<h.size>>)
    [] op = "array.copy" -> Gives(m, h, <<>>)
    [] op = "array.get" -> Guarded(IndexError(args[1], h.size),
         Receiving(m, h, LAMBDA v : Gives(m, Nil, <<v[args[1] + 1]>>)))
    [] op = "array.first" -> Guarded(EmptyError(h), Receiving(m, h, LAMBDA v : Gives(m, Nil, <<v[1]>>)))
    [] op = "array.last" -> Guarded(EmptyError(h), Receiving(m, h, LAMBDA v : Gives(m, Nil, <<v[h.size]>>)))

MapRead(m, op, h, args) ==
  Receiving(m, h, LAMBDA entries :
    CASE op = "map.size" -> Gives(m, Nil, <<h.size>>)
      [] op = "map.copy" -> Gives(m, h, <<>>)
      [] op = "map.contains" ->
           Guarded(KeyError(args[1]), Gives(m, Nil, <<Find(entries, args[1]) # {}>>))
      [] op = "map.get" -> Guarded(KeyError(args[1]),
           Gives(m, Nil, <<IF Find(entries, args[1]) = {} THEN Nil
                         ELSE entries[CHOOSE i \in Find(entries, args[1]) : TRUE].value>>))
      [] op = "map.keys" -> CreateArray(m, Keys(entries))
      [] op = "map.values" -> CreateArray(m, Items(entries)))

MatrixRead(m, op, h, args) ==
  CASE op = "matrix.elements_count" -> Gives(m, Nil, <<h.rows * h.columns>>)
    [] op = "matrix.copy" -> Gives(m, h, <<>>)
    [] op = "matrix.get" -> Guarded(IndexError(args[1], h.rows), Guarded(IndexError(args[2], h.columns),
         Receiving(m, h, LAMBDA v : Gives(m, Nil, <<v[CellAt(h, args[1], args[2])]>>))))
    [] op = "matrix.row" -> Guarded(IndexError(args[1], h.rows),
         Receiving(m, h, LAMBDA v :
           CreateArray(m, SubSeq(v, CellAt(h, args[1], 0), CellAt(h, args[1], h.columns - 1)))))
    [] op = "matrix.column" -> Guarded(IndexError(args[1], h.columns),
         Receiving(m, h, LAMBDA v : CreateArray(m, [row \in 1..h.rows |-> v[CellAt(h, row - 1, args[1])]])))

Call(m, op, h, args) ==
  IF h = Nil THEN Error("NA_COLLECTION")
  ELSE CASE h.kind = "array" -> ArrayRead(m, op, h, args)
         [] h.kind = "map" -> MapRead(m, op, h, args)
         [] h.kind = "matrix" -> MatrixRead(m, op, h, args)

-----------------------------------------------------------------------------
(* Mutators: the value is the header that replaces h, the result what the   *)
(* expression is worth.  The storage under h is never written.              *)
WithResult(r, x) == Then(r, LAMBDA d : [d EXCEPT !.result = <<x>>])

ArrayMutate(m, op, h, args) ==
  Receiving(m, h, LAMBDA old :
    CASE op = "array.set" -> Guarded(IndexError(args[1], h.size),
           ReplaceArray(m, h, [old EXCEPT ![args[1] + 1] = args[2]], h.capacity))
      [] op = "array.push" -> Guarded(LimitError(h.size + 1),
           ReplaceArray(m, h, Append(old, args[1]),
                        IF h.size < h.capacity THEN h.capacity
                        ELSE IF h.capacity = 0 THEN 1 ELSE 2 * h.capacity))
      [] op = "array.pop" -> Guarded(EmptyError(h),
           WithResult(ReplaceArray(m, h, SubSeq(old, 1, h.size - 1), h.capacity), old[h.size]))
      [] op = "array.clear" -> ReplaceArray(m, h, <<>>, h.capacity))

MapMutate(m, op, h, args) ==
  Receiving(m, h, LAMBDA old :
    CASE op = "map.put" -> Guarded(KeyError(args[1]),
           IF Find(old, args[1]) = {}
           THEN Guarded(LimitError(h.size + 1),
                  ReplaceMap(m, h, Append(old, [key |-> CanonicalKey(args[1]), value |-> args[2]])))
           ELSE ReplaceMap(m, h, [i \in DOMAIN old |->
                  IF i \in Find(old, args[1]) THEN [old[i] EXCEPT !.value = args[2]] ELSE old[i]]))
      [] op = "map.remove" -> Guarded(KeyError(args[1]),
           IF Find(old, args[1]) = {} THEN Gives(m, h, <<Nil>>)
           ELSE LET i == CHOOSE i \in Find(old, args[1]) : TRUE
                IN WithResult(ReplaceMap(m, h, RemoveAt(old, i)), old[i].value))
      [] op = "map.clear" -> ReplaceMap(m, h, <<>>))

MatrixMutate(m, op, h, args) ==
  Receiving(m, h, LAMBDA old :
    CASE op = "matrix.set" -> Guarded(IndexError(args[1], h.rows), Guarded(IndexError(args[2], h.columns),
           ReplaceMatrix(m, h, [old EXCEPT ![CellAt(h, args[1], args[2])] = args[3]])))
      [] op = "matrix.fill" -> ReplaceMatrix(m, h, [i \in DOMAIN old |-> args[1]]))

Mutate(m, op, h, args) ==
  IF h = Nil THEN Error("NA_COLLECTION")
  ELSE CASE h.kind = "array" -> ArrayMutate(m, op, h, args)
         [] h.kind = "map" -> MapMutate(m, op, h, args)
         [] h.kind = "matrix" -> MatrixMutate(m, op, h, args)

-----------------------------------------------------------------------------
(* Places: a name <<"name", n>>, or the field of the struct an owner holds, *)
(* <<"field", s>>.  To read the field of na is to read a missing value; to  *)
(* write it fails before anything to its right is evaluated.                *)
Field(m, s) == IF m.owners[s] = Nil THEN Nil ELSE m.fields[m.owners[s]]
Read(m, place) == IF place[1] = "name" THEN m.names[place[2]] ELSE Field(m, place[2])

(* captureDestination(): the struct is settled here, not when it is stored. *)
Destination(m, place) ==
  IF place[1] = "name" THEN Gives(m, place, <<>>)
  ELSE IF m.owners[place[2]] = Nil THEN Error("NA_STRUCT_WRITE")
  ELSE Gives(m, <<"body", m.owners[place[2]]>>, <<>>)
StoreTo(m, target, h) ==
  IF target[1] = "name" THEN [m EXCEPT !.names[target[2]] = h]
                        ELSE [m EXCEPT !.fields[target[2]] = h]
Held(m, target) == IF target[1] = "name" THEN m.names[target[2]] ELSE m.fields[target[2]]

(* place.op(args): the receiver is read before its arguments are evaluated. *)
MutatePlain(m, place, op, args) ==
  Then(Destination(m, place), LAMBDA d :
    Then(Mutate(m, op, Held(m, d.value), args), LAMBDA r :
      Gives(StoreTo(r.memory, d.value, r.value), r.value, r.result)))

(* An argument: a value, what a pop() of another place gives, or a value    *)
(* after a block that has made one owner hold what another does.            *)
Argument(m, arg) ==
  CASE arg[1] = "value" -> Gives(m, Nil, <<arg[2]>>)
    [] arg[1] = "pop" -> MutatePlain(m, arg[2], "array.pop", <<>>)
    [] arg[1] = "rebind" -> Gives([m EXCEPT !.owners[arg[2]] = m.owners[arg[3]]], Nil, <<arg[4]>>)

-----------------------------------------------------------------------------
(* Statements.                                                              *)
Assign(m, place, from) ==
  Then(Destination(m, place), LAMBDA d : Gives(StoreTo(m, d.value, Read(m, from)), Nil, <<>>))
Make(m, place, op, args) ==
  Then(Destination(m, place), LAMBDA d :
    Then(Construct(m, op, args), LAMBDA r : Gives(StoreTo(r.memory, d.value, r.value), Nil, <<>>)))
Ask(m, op, from, args) == Call(m, op, Read(m, from), args)
ProjectInto(m, place, op, from, args) ==
  Then(Destination(m, place), LAMBDA d :
    Then(Ask(m, op, from, args), LAMBDA r : Gives(StoreTo(r.memory, d.value, r.value), Nil, <<>>)))
Change(m, place, op, args, last) ==
  Then(Destination(m, place), LAMBDA d :
    Then(Argument(m, last), LAMBDA a :
      Then(Mutate(a.memory, op, Held(m, d.value), args \o a.result), LAMBDA r :
        Gives(StoreTo(r.memory, d.value, r.value), Nil, r.result))))
Plain(m, place, op, args) ==
  Then(MutatePlain(m, place, op, args), LAMBDA r : Gives(r.memory, Nil, r.result))

(* for x in from: place.push(x), and for [k, v] in from: place.remove(k):   *)
(* the loop has its entries before the first of them is bound.              *)
Turn(m, place, op, x) == MutatePlain(m, place, op, <<x>>)
Turns(s, place, op) ==
  LET after[i \in 0..Len(s.result)] ==
        IF i = 0 THEN s ELSE Then(after[i - 1], LAMBDA d : Turn(d.memory, place, op, s.result[i]))
  IN after[Len(s.result)]
ForEach(m, from, place) ==
  Then(Receiving(m, Read(m, from), LAMBDA v :
         Gives(m, Nil, IF Read(m, from).kind = "map" THEN Keys(v) ELSE v)), LAMBDA s :
    Then(Turns(s, place, IF Read(m, from).kind = "map" THEN "map.remove" ELSE "array.push"), LAMBDA e :
      Gives(e.memory, Nil, <<>>)))

NewStruct(m, owner, from) ==
  LET free == {b \in Structs : m.fields[b] = Free} IN
  IF free = {} THEN Error("HEAP_LIMIT_EXCEEDED")
  ELSE LET b == CHOOSE b \in free : TRUE IN
       Gives([m EXCEPT !.fields[b] = Read(m, from), !.owners[owner] = b], Nil, <<>>)
Rebind(m, owner, from) == Gives([m EXCEPT !.owners[owner] = m.owners[from]], Nil, <<>>)

Perform(m, s) ==
  CASE s[1] = "assign" -> Assign(m, s[2], s[3])
    [] s[1] = "make" -> Make(m, s[2], s[3], s[4])
    [] s[1] = "ask" -> Ask(m, s[2], s[3], s[4])
    [] s[1] = "project" -> ProjectInto(m, s[2], s[3], s[4], s[5])
    [] s[1] = "change" -> Change(m, s[2], s[3], s[4], s[5])
    [] s[1] = "plain" -> Plain(m, s[2], s[3], s[4])
    [] s[1] = "foreach" -> ForEach(m, s[2], s[3])
    [] s[1] = "new" -> NewStruct(m, s[2], s[3])
    [] s[1] = "rebind" -> Rebind(m, s[2], s[3])

(* At the end of a step the heap keeps what a name can still reach.         *)
Reached(m) == {m.owners[s] : s \in Owners} \cap Structs
Headers(m) == ({m.names[n] : n \in Names} \cup {m.fields[b] : b \in Reached(m)}) \ {Nil}
Collected(m) ==
  [m EXCEPT !.blocks = [r \in Refs |-> IF \E h \in Headers(m) : h.storage = r THEN m.blocks[r] ELSE Free],
            !.fields = [b \in Structs |-> IF b \in Reached(m) THEN m.fields[b] ELSE Free]]

(* A statement that throws takes nothing with it.                           *)
Statement(s) ==
  /\ statements < MaxStatements
  /\ statements' = statements + 1 /\ ran' = s /\ UNCHANGED scope
  /\ \E r \in {Perform(memory, s)} :
       IF Failed(r) THEN outcome' = <<"error", r.error>> /\ UNCHANGED memory
       ELSE outcome' = <<"value">> \o r.result /\ memory' = Collected(r.memory)

CollectionsNext == \E s \in scope : Statement(s)

CollectionsSpec == CollectionsInit /\ [][CollectionsNext]_collectionVars

-----------------------------------------------------------------------------
(* What a header stands for.                                                *)
UnderKeys(entries) ==
  [k \in {entries[i].key : i \in DOMAIN entries} |->
    (CHOOSE e \in {entries[i] : i \in DOMAIN entries} : e.key = k).value]
Meaning(m, h) ==
  IF h = Nil THEN Nil
  ELSE LET stored == m.blocks[h.storage] IN
  CASE h.kind = "array" -> [kind |-> "array", of |-> stored]
    [] h.kind = "map" -> [kind |-> "map", order |-> Keys(stored), under |-> UnderKeys(stored)]
    [] h.kind = "matrix" ->
         [kind |-> "matrix", rows |-> h.rows, columns |-> h.columns,
          at |-> [i \in 1..h.rows |-> [j \in 1..h.columns |-> stored[CellAt(h, i - 1, j - 1)]]]]

NamesMean == [n \in Names |-> Meaning(memory, memory.names[n])]
FieldsMean == [b \in Structs |-> IF memory.fields[b] = Free THEN Free ELSE Meaning(memory, memory.fields[b])]
OwnersHold == memory.owners

Promised == INSTANCE CollectionValues WITH content <- NamesMean, fields <- FieldsMean, owners <- OwnersHold

(* A collection is a value: whatever shares storage with it, and whatever   *)
(* else a statement's arguments and loops do, what a name or a field holds  *)
(* changes only when it is stored to, a receiver is what it was before its  *)
(* arguments, a loop has the entries there were, and a statement that       *)
(* throws does nothing (runtime/js/collections, captureDestination).        *)
ValueSpec == Promised!Spec
=============================================================================
