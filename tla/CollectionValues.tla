-------------------------- MODULE CollectionValues --------------------------
(***************************************************************************)
(* What docs/memory-model.md promises of collections: they are values.     *)
(* There is no storage here: a name and a field hold a sequence, an order  *)
(* of keys with what is under each, or a rectangle, and a statement is the *)
(* change it makes to one of them.  Any statement may find the heap full.  *)
(***************************************************************************)
EXTENDS Integers, FiniteSets, SequencesExt

CONSTANTS Names, Owners, Structs, Programs, MaxElements, MaxStatements, Nil, Free, NegativeZero

VARIABLES scope, content, owners, fields, ran, outcome, statements

Silent == <<"value">>
Gives(x) == <<"value", x>>
Throws(code) == <<"error", code>>

Init ==
  /\ scope \in Programs
  /\ content = [n \in Names |-> Nil] /\ owners = [s \in Owners |-> Nil]
  /\ fields = [b \in Structs |-> Free]
  /\ ran = <<>> /\ outcome = Silent /\ statements = 0

Array(s) == [kind |-> "array", of |-> s]
Index(i, n) == IF i = Nil THEN "INVALID_SHAPE" ELSE IF i < 0 \/ i >= n THEN "INDEX_OUT_OF_BOUNDS" ELSE "ok"
Key(k) == IF k = NegativeZero THEN 0 ELSE k
Fit(n) == IF n > MaxElements THEN "COLLECTION_LIMIT_EXCEEDED" ELSE "ok"
First(check, next) == IF check = "ok" THEN next ELSE check
(* An order without the keys that are gone.                                 *)
Without(order, gone) ==
  LET kept[n \in 0..Len(order)] ==
        IF n = 0 THEN <<>> ELSE IF order[n] \in gone THEN kept[n - 1] ELSE Append(kept[n - 1], order[n])
  IN kept[Len(order)]

(* What a constructor or an operation of a receiver v may throw.            *)
Refused(op, v, a) ==
  IF v = Nil THEN "NA_COLLECTION"
  ELSE CASE op = "array.new" -> IF a[1] = Nil \/ a[1] < 0 THEN "INVALID_SHAPE" ELSE Fit(a[1])
    [] op = "array.from" -> Fit(Len(a))
    [] op = "matrix.new" -> IF \E i \in 1..2 : a[i] = Nil \/ a[i] < 0 THEN "INVALID_SHAPE" ELSE Fit(a[1] * a[2])
    [] op \in {"array.get", "array.set"} -> Index(a[1], Len(v.of))
    [] op \in {"array.first", "array.last", "array.pop"} -> IF v.of = <<>> THEN "EMPTY_COLLECTION" ELSE "ok"
    [] op = "array.push" -> Fit(Len(v.of) + 1)
    [] op \in {"map.get", "map.contains", "map.remove"} -> IF a[1] = Nil THEN "INVALID_MAP_KEY" ELSE "ok"
    [] op = "map.put" -> IF a[1] = Nil THEN "INVALID_MAP_KEY"
                         ELSE Fit(Cardinality(DOMAIN v.under \cup {Key(a[1])}))
    [] op \in {"map.keys", "map.values"} -> Fit(Len(v.order))
    [] op \in {"matrix.get", "matrix.set"} -> First(Index(a[1], v.rows), Index(a[2], v.columns))
    [] op = "matrix.row" -> First(Index(a[1], v.rows), Fit(v.columns))
    [] op = "matrix.column" -> First(Index(a[1], v.columns), Fit(v.rows))
    [] OTHER -> "ok"

(* The value it makes.                                                      *)
Made(op, v, a) ==
  CASE op = "array.new" -> Array([i \in 1..a[1] |-> a[2]])
    [] op = "array.from" -> Array(a)
    [] op = "map.new" -> [kind |-> "map", order |-> <<>>, under |-> [k \in {} |-> Nil]]
    [] op = "matrix.new" -> [kind |-> "matrix", rows |-> a[1], columns |-> a[2],
                             at |-> [i \in 1..a[1] |-> [j \in 1..a[2] |-> a[3]]]]
    [] op \in {"array.copy", "map.copy", "matrix.copy"} -> v
    [] op = "map.keys" -> Array(v.order)
    [] op = "map.values" -> Array([i \in DOMAIN v.order |-> v.under[v.order[i]]])
    [] op = "matrix.row" -> Array(v.at[a[1] + 1])
    [] op = "matrix.column" -> Array([i \in 1..v.rows |-> v.at[i][a[1] + 1]])
    [] op = "array.set" -> Array([v.of EXCEPT ![a[1] + 1] = a[2]])
    [] op = "array.push" -> Array(Append(v.of, a[1]))
    [] op = "array.pop" -> Array(Front(v.of))
    [] op = "array.clear" -> Array(<<>>)
    [] op = "map.put" ->
         [v EXCEPT !.order = IF Key(a[1]) \in DOMAIN v.under THEN @ ELSE Append(@, Key(a[1])),
                   !.under = [k \in DOMAIN @ \cup {Key(a[1])} |-> IF k = Key(a[1]) THEN a[2] ELSE @[k]]]
    [] op = "map.remove" ->
         [v EXCEPT !.order = Without(@, {Key(a[1])}),
                   !.under = [k \in DOMAIN @ \ {Key(a[1])} |-> @[k]]]
    [] op = "map.clear" -> [kind |-> "map", order |-> <<>>, under |-> [k \in {} |-> Nil]]
    [] op = "matrix.set" -> [v EXCEPT !.at[a[1] + 1][a[2] + 1] = a[3]]
    [] op = "matrix.fill" -> [v EXCEPT !.at = [i \in 1..v.rows |-> [j \in 1..v.columns |-> a[1]]]]

(* What it is worth.                                                        *)
Worth(op, v, a) ==
  CASE op = "array.size" -> Gives(Len(v.of))
    [] op = "array.get" -> Gives(v.of[a[1] + 1])
    [] op = "array.first" -> Gives(Head(v.of))
    [] op \in {"array.last", "array.pop"} -> Gives(Last(v.of))
    [] op = "map.size" -> Gives(Cardinality(DOMAIN v.under))
    [] op = "map.contains" -> Gives(Key(a[1]) \in DOMAIN v.under)
    [] op \in {"map.get", "map.remove"} -> Gives(IF Key(a[1]) \in DOMAIN v.under THEN v.under[Key(a[1])] ELSE Nil)
    [] op = "matrix.get" -> Gives(v.at[a[1] + 1][a[2] + 1])
    [] op = "matrix.elements_count" -> Gives(v.rows * v.columns)
    [] OTHER -> Silent

-----------------------------------------------------------------------------
Got(place) ==
  IF place[1] = "name" THEN content[place[2]]
  ELSE IF owners[place[2]] = Nil THEN Nil ELSE fields[owners[place[2]]]
Writable(place) == place[1] = "name" \/ owners[place[2]] # Nil

Becomes(place, v) ==
  IF place[1] = "name" THEN content' = [content EXCEPT ![place[2]] = v] /\ UNCHANGED fields
  ELSE fields' = [fields EXCEPT ![owners[place[2]]] = v] /\ UNCHANGED content

(* A struct no owner holds is gone.                                         *)
Kept(o, f) == [b \in Structs |-> IF \E s \in Owners : o[s] = b THEN f[b] ELSE Free]

Throw(code) == outcome' = Throws(code) /\ UNCHANGED <<content, owners, fields>>

(* place := an operation of v.                                              *)
Put(place, op, v, a) ==
  IF ~Writable(place) THEN Throw("NA_STRUCT_WRITE")
  ELSE IF Refused(op, v, a) # "ok" THEN Throw(Refused(op, v, a))
  ELSE Becomes(place, Made(op, v, a)) /\ outcome' = Worth(op, v, a) /\ UNCHANGED owners

Set(place, v) ==
  IF ~Writable(place) THEN Throw("NA_STRUCT_WRITE")
  ELSE Becomes(place, v) /\ outcome' = Silent /\ UNCHANGED owners

Ask(op, v, a) ==
  IF Refused(op, v, a) # "ok" THEN Throw(Refused(op, v, a))
  ELSE outcome' = Worth(op, v, a) /\ UNCHANGED <<content, owners, fields>>

(* place.op(other.pop()): both start from what there was; the receiver is   *)
(* written last, so when they are one place the pop leaves no trace.        *)
PutPopped(place, op, a, other) ==
  IF ~Writable(place) \/ ~Writable(other) THEN Throw("NA_STRUCT_WRITE")
  ELSE IF Refused("array.pop", Got(other), <<>>) # "ok" THEN Throw(Refused("array.pop", Got(other), <<>>))
  ELSE LET b == Append(a, Last(Got(other).of)) IN
       IF Refused(op, Got(place), b) # "ok" THEN Throw(Refused(op, Got(place), b))
       ELSE LET after(where) ==    (* where: <<"name", n>> or <<"body", b>>    *)
                  LET is(p) == IF p[1] = "name" THEN p = where ELSE <<"body", owners[p[2]]>> = where
                  IN IF is(place) THEN Made(op, Got(place), b)
                     ELSE IF is(other) THEN Made("array.pop", Got(other), <<>>)
                     ELSE IF where[1] = "name" THEN content[where[2]] ELSE fields[where[2]]
            IN /\ content' = [n \in Names |-> after(<<"name", n>>)]
               /\ fields' = [s \in Structs |-> after(<<"body", s>>)]
               /\ outcome' = Worth(op, Got(place), b) /\ UNCHANGED owners

(* place.op(block that rebinds owner s to t's struct, then a value): the    *)
(* struct that was captured is written, whoever still holds it.             *)
PutRebinding(place, op, a, s, t) ==
  IF ~Writable(place) THEN Throw("NA_STRUCT_WRITE")
  ELSE IF Refused(op, Got(place), a) # "ok" THEN Throw(Refused(op, Got(place), a))
  ELSE LET written == Made(op, Got(place), a)
           all == IF place[1] = "name" THEN fields ELSE [fields EXCEPT ![owners[place[2]]] = written]
       IN /\ owners' = [owners EXCEPT ![s] = owners[t]]
          /\ fields' = Kept(owners', all)
          /\ content' = IF place[1] = "name" THEN [content EXCEPT ![place[2]] = written] ELSE content
          /\ outcome' = Worth(op, Got(place), a)

(* for x in from: place.push(x)  and  for [k, v] in from: place.remove(k).  *)
Loop(from, place) ==
  IF Got(from) = Nil THEN Throw("NA_COLLECTION")
  ELSE LET n == IF Got(from).kind = "map" THEN Len(Got(from).order) ELSE Len(Got(from).of) IN
  IF n = 0 THEN outcome' = Silent /\ UNCHANGED <<content, owners, fields>>
  ELSE IF ~Writable(place) THEN Throw("NA_STRUCT_WRITE")
  ELSE IF Got(place) = Nil THEN Throw("NA_COLLECTION")
  ELSE IF Got(from).kind = "map"
  THEN LET gone == DOMAIN Got(from).under IN
       /\ Becomes(place, [Got(place) EXCEPT !.order = Without(@, gone),
                                            !.under = [k \in DOMAIN @ \ gone |-> @[k]]])
       /\ outcome' = Silent /\ UNCHANGED owners
  ELSE LET all == Got(place).of \o Got(from).of IN
       IF Fit(Len(all)) # "ok" THEN Throw(Fit(Len(all)))
       ELSE Becomes(place, Array(all)) /\ outcome' = Silent /\ UNCHANGED owners

NewStruct(s, v) ==
  \E b \in {x \in Structs : fields[x] = Free} :
    /\ owners' = [owners EXCEPT ![s] = b]
    /\ fields' = Kept(owners', [fields EXCEPT ![b] = v])
    /\ outcome' = Silent /\ UNCHANGED content

Rebind(s, t) ==
  /\ owners' = [owners EXCEPT ![s] = owners[t]]
  /\ fields' = Kept(owners', fields) /\ outcome' = Silent /\ UNCHANGED content

Fresh == [kind |-> "fresh"]        (* a constructor has no receiver           *)

Means(s) ==
  CASE s[1] = "assign" -> Set(s[2], Got(s[3]))
    [] s[1] = "make" -> Put(s[2], s[3], Fresh, s[4])
    [] s[1] = "ask" -> Ask(s[2], Got(s[3]), s[4])
    [] s[1] = "project" -> Put(s[2], s[3], Got(s[4]), s[5])
    [] s[1] = "plain" -> Put(s[2], s[3], Got(s[2]), s[4])
    [] s[1] = "change" /\ s[5][1] = "value" -> Put(s[2], s[3], Got(s[2]), Append(s[4], s[5][2]))
    [] s[1] = "change" /\ s[5][1] = "pop" -> PutPopped(s[2], s[3], s[4], s[5][2])
    [] s[1] = "change" /\ s[5][1] = "rebind" ->
         PutRebinding(s[2], s[3], Append(s[4], s[5][4]), s[5][2], s[5][3])
    [] s[1] = "foreach" -> Loop(s[2], s[3])
    [] s[1] = "new" -> NewStruct(s[2], Got(s[3]))
    [] s[1] = "rebind" -> Rebind(s[2], s[3])

Next ==
  /\ statements < MaxStatements
  /\ statements' = statements + 1 /\ UNCHANGED scope
  /\ \E s \in scope :
       /\ ran' = s
       /\ Means(s) \/ Throw("HEAP_LIMIT_EXCEEDED")

Spec == Init /\ [][Next]_<<statements, scope, content, owners, fields, ran, outcome>>
=============================================================================
