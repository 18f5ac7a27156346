--------------------------- MODULE MCMeasurements ---------------------------
(* Small instances of Measurements.  Each number is twice as large here as *)
(* the number that is meant, so that there are bounds between the floats.  *)
EXTENDS Measurements

Bits == {"0", "1"}
Ints == Column("int", {})
MCNum == [x \in {"0", "1", "inf"} |->
            CASE x = "0" -> -2 [] x = "1" -> 6 [] OTHER -> 100]

Input(s, m, d) == [schema |-> s, metric |-> m, apart |-> d]
Grouped == [g |-> Ints, v |-> Ints]
Floats == [g |-> Ints, v |-> Column("float", {})]
Infinities == [v |-> Column("float", {"inf"})]

MCInputs ==
  {Input(Grouped, SymmetricDifference, 4),
   Input(Grouped, HammingDistance, 1),
   Input(Grouped, IfGroupedByAgg({"g"}, "l2", {}), 2),
   Input(Floats, SymmetricDifference, 1),
   Input(Floats, IfGroupedByAgg({"g"}, "sum", {}), 1),
   Input(Floats, IfGroupedByAgg({"g"}, "l2", {}), 1),
   Input(Infinities, SymmetricDifference, 1)}

MCBounds == {<<2, 4>>, <<-3, 5>>, <<-2, 6>>}
MCBudgets == {Zero, Ratio(3, 2), Infinity}
MCScales == {Ratio(1, 2), Infinity}
MCQuantiles == {<<0, 1>>, <<1, 4>>, <<1, 2>>}
MCRanks == [int |-> {0, 1}, float |-> 1 .. 3]
MCFractions == {<<1, 2>>, <<19, 20>>}
MCDeltas == {Ratio(1, 10), Ratio(9, 10)}
NoRowsOf(t, r) == << >>      \* there are no transformers
PureOver == {"sum"}

(* Pure quantiles are also asked for of groups under RootSumOfSquared.     *)
PureOverAll == {"sum", "l2"}
WideBounds == {<<-4, 8>>}
OneBudget == {Whole(1)}
Median == {<<1, 2>>}
RootOfSquares == {Input(Grouped, IfGroupedByAgg({"g"}, "l2", {}), 2)}
=============================================================================
