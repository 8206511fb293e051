------------------------------- MODULE MCGpu -------------------------------
(***************************************************************************)
(* Two bindings of a program that calls "outer", which calls "inner": a    *)
(* row of value 1 calls nothing, of value 2 outer, of value 3 both.  The   *)
(* device admits chunks of one, two or three rows, or none.                *)
(***************************************************************************)
EXTENDS GpuSession

CONSTANTS main, outer, inner, price, count, bars

MCFrameOrder == <<main, outer, inner>>
MCLocalsOf == [f \in {main, outer, inner} |->
  CASE f = main -> <<price>> [] f = outer -> <<count>> [] f = inner -> <<bars>>]
MCStorage == [l \in {price, count, bars} |-> IF l = count THEN "var" ELSE "perBar"]
MCDepth == [l \in {price, count, bars} |->
  CASE l = price -> 2 [] l = count -> 0 [] l = bars -> 1]
MCCalls == [v \in 1..3 |->
  CASE v = 1 -> {main} [] v = 2 -> {main, outer} [] v = 3 -> {main, outer, inner}]

(* A long binding, whose last row may have a bad timestamp, beside a short  *)
(* one, whose only row may, or an empty one; or nothing to run at all.      *)
MCSeries ==
  {<<<<>>, <<>>>>} \cup {<<s, t>> : s \in {<<3, 1, 3>>, <<1, 3, 2>>, <<2, 3, 2>>}, t \in {<<>>, <<2>>}}

MCInit ==
  /\ SessionInit
  /\ series \in MCSeries
  /\ maximumRows = Len(series[1])
  /\ badTimes \in {<<{}, {}>>, <<{2}, {}>>, <<{}, {i - 1 : i \in DOMAIN series[2]}>>}
  /\ \E d \in {<<3, 0>>, <<5, 4>>, <<8, 4>>, <<12, 99>>} : limit = d[1] /\ storage = d[2]
  /\ plan = "search" /\ low = 2 /\ high = maximumRows /\ chunkRows = 0
  /\ SessionGiven

MCSpec == MCInit /\ [][Next]_vars /\ Fairness
=============================================================================
