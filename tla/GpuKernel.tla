----------------------------- MODULE GpuKernel -----------------------------
(***************************************************************************)
(* What one invocation of a compiled kernel does to the memory of its      *)
(* execution (codegen/wgsl/lower.ts, frames.ts): the layout of the state   *)
(* words, and one row of a chunk: reset, body and commit of every frame,   *)
(* with histories as rings addressed by the absolute row.                  *)
(*                                                                         *)
(* A value takes one word and 0 is the empty value, the all-zero words of  *)
(* an invalid TeaFloat.  The program is a tree of call sites, each with a  *)
(* frame of its own.  A row's series value decides which frames it calls;  *)
(* a call assigns that value to the per-bar locals of the frame and counts *)
(* its persistent locals up from it.                                       *)
(***************************************************************************)
EXTENDS Integers, SequencesExt

CONSTANTS
  FrameOrder,       (* the frames in preorder, the program's own first     *)
  LocalsOf,         (* [frame -> the sequence of its locals]               *)
  Storage,          (* [local -> "perBar" or "var"]                        *)
  Depth,            (* [local -> rows of history a read may reach]         *)
  Calls             (* [series value -> frames a row of that value calls]  *)

Frames == Range(FrameOrder)
Root == FrameOrder[1]
LocalOrder == FlattenSeq([i \in DOMAIN FrameOrder |-> LocalsOf[FrameOrder[i]]])
Locals == Range(LocalOrder)

(* The program is called by every row; a call site other than the program's *)
(* own reports the first local of its frame (Appended), so it has one.      *)
ASSUME KernelAssumption ==
  /\ FrameOrder \in Seq(Frames) /\ FrameOrder # <<>>
  /\ \A f \in Frames : LocalsOf[f] \in Seq(Locals) /\ (f # Root => LocalsOf[f] # <<>>)
  /\ \A f, g \in Frames : f # g => Range(LocalsOf[f]) \cap Range(LocalsOf[g]) = {}
  /\ \A l \in Locals : Storage[l] \in {"perBar", "var"} /\ Depth[l] \in Nat
  /\ DOMAIN Calls \subseteq Int
  /\ \A value \in DOMAIN Calls : Root \in Calls[value] /\ Calls[value] \subseteq Frames

FrameOf == [l \in Locals |-> CHOOSE f \in Frames : l \in Range(LocalsOf[f])]

-----------------------------------------------------------------------------
(***************************************************************************)
(* The layout: the words of an execution are listed by name, and the       *)
(* offset of a word is its place in the list.                              *)
(***************************************************************************)

Persistent(l) == Storage[l] = "var"
Retains(l) == Persistent(l) \/ Depth[l] > 0

LocalWords(l) ==
  <<<<"scratch", l>>>>
    \o (IF Persistent(l) THEN <<<<"committedInit", l>>, <<"tentativeInit", l>>>> ELSE <<>>)
    \o (IF Retains(l) THEN <<<<"historyBase", l>>, <<"historyCapacity", l>>>> ELSE <<>>)

FrameWords(f) ==
  <<<<"committed", f>>, <<"tentative", f>>>>
    \o FlattenSeq([i \in DOMAIN LocalsOf[f] |-> LocalWords(LocalsOf[f][i])])

Header == <<<<"initialized">>, <<"nextRow">>>>

Fixed == Header \o FlattenSeq([i \in DOMAIN FrameOrder |-> FrameWords(FrameOrder[i])])

WordOffset == [w \in Range(Fixed) |-> (CHOOSE i \in DOMAIN Fixed : Fixed[i] = w) - 1]

Smaller(m, n) == IF m < n THEN m ELSE n
Larger(m, n) == IF m < n THEN n ELSE m

(* Mutated form: a persistent local without reads keeps nothing. *)
CapacityRead(l, rows) == Smaller(Depth[l], rows)

(* The extent caps a history; a persistent local keeps its last value.     *)
Capacity(l, rows) == Larger(Smaller(Depth[l], rows), IF Persistent(l) THEN 1 ELSE 0)

Retained == {l \in Locals : Retains(l)}

(* The words of the histories, which follow the fixed ones; a local that    *)
(* is not retained has a capacity of none.                                  *)
HistoryWords(rows) ==
  FlattenSeq([i \in DOMAIN LocalOrder |->
               [k \in 1..Capacity(LocalOrder[i], rows) |-> <<LocalOrder[i], k - 1>>]])

StateWords(rows) == Len(Fixed) + Len(HistoryWords(rows))

HistoryBase(l, rows) ==
  IF Capacity(l, rows) = 0 THEN 0
  ELSE Len(Fixed) + (CHOOSE i \in DOMAIN HistoryWords(rows) : HistoryWords(rows)[i] = <<l, 0>>) - 1

(* packInitialExecutionStates: zero but for the descriptors. *)
InitialState(rows) ==
  [w \in 0..StateWords(rows) - 1 |->
     IF \E l \in Retained : w = WordOffset[<<"historyBase", l>>]
     THEN HistoryBase(CHOOSE l \in Retained : w = WordOffset[<<"historyBase", l>>], rows)
     ELSE IF \E l \in Retained : w = WordOffset[<<"historyCapacity", l>>]
     THEN Capacity(CHOOSE l \in Retained : w = WordOffset[<<"historyCapacity", l>>], rows)
     ELSE 0]

-----------------------------------------------------------------------------
(***************************************************************************)
(* The workgroup cache: whole segments, the most accessed first, as many   *)
(* as the workgroup storage of the device holds.                           *)
(***************************************************************************)

LocalAccesses(l) == IF Persistent(l) THEN 8 ELSE IF Retains(l) THEN 4 ELSE 2

Segments ==
  <<[words |-> Header, accesses |-> 2]>>
    \o FlattenSeq([i \in DOMAIN FrameOrder |->
         LET f == FrameOrder[i]
         IN <<[words |-> <<<<"committed", f>>, <<"tentative", f>>>>, accesses |-> 4]>>
              \o [j \in DOMAIN LocalsOf[f] |->
                   [words |-> LocalWords(LocalsOf[f][j]), accesses |-> LocalAccesses(LocalsOf[f][j])]]])

Ahead(s, t) ==
  \/ s.accesses > t.accesses
  \/ s.accesses = t.accesses /\ Len(s.words) < Len(t.words)
  \/ s.accesses = t.accesses /\ Len(s.words) = Len(t.words)
       /\ WordOffset[s.words[1]] < WordOffset[t.words[1]]

(* The segments up to i in that order, and the words they take.             *)
Ranked(i) == {j \in DOMAIN Segments : j = i \/ Ahead(Segments[j], Segments[i])}

CacheEnd == [i \in DOMAIN Segments |-> Cardinality(UNION {Range(Segments[j].words) : j \in Ranked(i)})]

(* planPipeline: the offsets an invocation keeps in workgroup memory.      *)
CachedWords(storage) ==
  {WordOffset[w] : w \in UNION {Range(Segments[i].words) :
                                  i \in {j \in DOMAIN Segments : CacheEnd[j] <= storage}}}

-----------------------------------------------------------------------------
(***************************************************************************)
(* The kernel, on memory m as an invocation sees it, its execution's words *)
(* starting at base.                                                       *)
(***************************************************************************)

At(base, kind, x) == base + WordOffset[<<kind, x>>]

RingWord(m, base, l, row) ==
  base + m[At(base, "historyBase", l)] + (row % m[At(base, "historyCapacity", l)])

(* The memory with new values for the named words of the execution.        *)
Named(base, w, names) == w - base + 1 \in DOMAIN Fixed /\ Fixed[w - base + 1] \in names
Written(m, base, names, new) ==
  [w \in DOMAIN m |-> IF Named(base, w, names) THEN new[Fixed[w - base + 1]] ELSE m[w]]

Words(kind, X) == {kind} \X X
LocalsIn(F) == {l \in Locals : FrameOf[l] \in F}
PersistentIn(F) == {l \in LocalsIn(F) : Persistent(l)}

(* The last value of a persistent local, once there is one.                *)
Carried(m, base, l, row) ==
  IF /\ m[At(base, "committedInit", l)] # 0 /\ row > 0
     /\ m[At(base, "historyCapacity", l)] > 0
  THEN m[RingWord(m, base, l, row - 1)] ELSE 0

(* tea_reset_frame: the activation of every frame, the locals of those     *)
(* that are active.                                                        *)
Reset(m, base, row) ==
  LET active == {f \in Frames : m[At(base, "committed", f)] # 0}
      names == Words("tentative", Frames) \cup Words("scratch", LocalsIn(active))
                 \cup Words("tentativeInit", PersistentIn(active))
  IN Written(m, base, names, [name \in names |->
       CASE name[1] = "tentative"     -> m[At(base, "committed", name[2])]
         [] name[1] = "tentativeInit" -> m[At(base, "committedInit", name[2])]
         [] name[1] = "scratch"       -> IF Persistent(name[2])
                                         THEN Carried(m, base, name[2], row) ELSE 0])

(* The calls of a row: a frame's activation, then its assignments; a       *)
(* persistent local is initialized once.                                   *)
Body(m, base, row, value) ==
  LET names == Words("tentative", Calls[value]) \cup Words("scratch", LocalsIn(Calls[value]))
                 \cup Words("tentativeInit", PersistentIn(Calls[value]))
  IN Written(m, base, names, [name \in names |->
       CASE name[1] = "tentative" ->
              IF m[At(base, "tentative", name[2])] = 0 THEN row + 1
              ELSE m[At(base, "tentative", name[2])]
         [] name[1] = "tentativeInit" -> 1
         [] name[1] = "scratch" ->
              IF ~Persistent(name[2]) THEN value
              ELSE IF m[At(base, "tentativeInit", name[2])] = 0 THEN value + 1
              ELSE m[At(base, "scratch", name[2])] + 1])

(* The call sites of a row, the program's own apart. *)
CallSites == [value \in DOMAIN Calls |->
  FlattenSeq([i \in DOMAIN FrameOrder |->
               IF FrameOrder[i] \in Calls[value] \ {Root} THEN <<FrameOrder[i]>> ELSE <<>>])]

(* tea_commit_frame, of the frames that are active by now: their locals go *)
(* to the ring slot of the row.                                            *)
Commit(m, base, row) ==
  LET active == {f \in Frames : m[At(base, "tentative", f)] # 0}
      kept == {l \in LocalsIn(active) : Retains(l) /\ m[At(base, "historyCapacity", l)] > 0}
      at == {RingWord(m, base, l, row) : l \in kept}
      names == Words("committed", active) \cup Words("committedInit", PersistentIn(active))
      named == Written(m, base, names, [name \in names |->
                 IF name[1] = "committed" THEN m[At(base, "tentative", name[2])]
                 ELSE m[At(base, "tentativeInit", name[2])]])
  IN [w \in DOMAIN m |->
       IF w \in at THEN m[At(base, "scratch", CHOOSE l \in kept : RingWord(m, base, l, row) = w)]
       ELSE named[w]]

Available(m, base, l, row, back) == row + 1 >= m[At(base, "committed", FrameOf[l])] + back

(* A read `back` rows ago. *)
HistRead(m, base, l, row, back) ==
  IF back = 0 THEN m[At(base, "scratch", l)]
  ELSE IF /\ Retains(l)
          /\ back <= m[At(base, "historyCapacity", l)]
          /\ m[At(base, "committed", FrameOf[l])] # 0
          /\ Available(m, base, l, row, back)
       THEN m[RingWord(m, base, l, row - back)]
       ELSE 0

(* Everything a row of that value can read: its result. *)
Reads(value) ==
  UNION {{<<l, back>> : back \in 0..Depth[l]} : l \in {x \in Locals : FrameOf[x] \in Calls[value]}}

RowResult(m, base, row, value) ==
  [r \in Reads(value) |-> HistRead(m, base, r[1], row, r[2])]

(* EffectBound.analyze: every call site appends at most once. *)
EffectBound == Cardinality(Frames \ {Root})

-----------------------------------------------------------------------------
(***************************************************************************)
(* The same reads told from the rows themselves, without memory.           *)
(***************************************************************************)

CalledAt(series, l, row) == FrameOf[l] \in Calls[series[row + 1]]

CalledRows(series, l, row) == {r \in 0..row : CalledAt(series, l, r)}

(* The value a local holds when a row is over; 0 before its frame is alive. *)
RowValue(series, l, row) ==
  IF CalledRows(series, l, row) = {} THEN 0
  ELSE IF Persistent(l)
       THEN series[Min(CalledRows(series, l, row)) + 1] + Cardinality(CalledRows(series, l, row))
       ELSE IF CalledAt(series, l, row) THEN series[row + 1] ELSE 0

Meaning(series, row) ==
  [r \in Reads(series[row + 1]) |->
     IF r[2] > row THEN 0 ELSE RowValue(series, r[1], row - r[2])]

=============================================================================
