----------------------------- MODULE MCSamplers -----------------------------
(* Floats of three bits; 1 is four floats apart from 2.                    *)
EXTENDS Samplers

(* Scales on either side of 2, integers and fractions.                     *)
MCScales == {<<1, 2>>, <<3, 2>>, <<2, 1>>, <<3, 1>>, <<5, 2>>, <<7, 3>>}
MCVariances == {<<1, 4>>, <<1, 1>>, <<3, 1>>, <<4, 1>>, <<7, 2>>}
=============================================================================
