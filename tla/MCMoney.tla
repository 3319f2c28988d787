-------------------------------- MODULE MCMoney --------------------------------
(***************************************************************************)
(* Instances of Money for TLC: two decimals and 11-bit integers, so that   *)
(* the numbers go from -10.24 to 10.23.                                    *)
(***************************************************************************)
EXTENDS Money

Text(sign, whole, parts) == [sign |-> sign, whole |-> whole, parts |-> parts]

\* Digits before the dot, up to both ends of the range and beyond.
Wholes == {<<>>, <<0>>, <<1>>, <<9>>, <<0, 3>>, <<1, 0>>, <<1, 1>>, <<1, Other>>}

\* What follows: nothing, a dot alone, one to three digits, or two dots.
Rests ==
  {<<>>, << <<>> >>, << <<2>> >>, << <<5>> >>, << <<0, 5>> >>, << <<2, 3>> >>, << <<2, 4>> >>,
   << <<2, 5>> >>, << <<5, 0>> >>, << <<0, 0, 0>> >>, << <<Other>> >>, << <<1>>, <<2>> >>}

Prices == {Text(s, w, r) : s \in Signs, w \in Wholes, r \in Rests}

\* Some of them against each price: a cost may be inexact or too large.
Quantities ==
  {Text("", <<0>>, <<>>), Text("", <<1>>, <<>>), Text("-", <<1>>, <<>>), Text("", <<2>>, <<>>),
   Text("", <<>>, << <<0, 1>> >>), Text("", <<>>, << <<5>> >>), Text("+", <<3>>, << <<0, 4>> >>),
   Text("-", <<1, 0>>, << <<2, 4>> >>), Text("-", <<>>, <<>>), Text("", <<Other>>, <<>>)}

MCRequests == {[price |-> p, quantity |-> q] : p \in Prices, q \in Quantities}
=============================================================================
