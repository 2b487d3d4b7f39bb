------------------------------- MODULE MCJson -------------------------------
(***************************************************************************)
(* Keys that are prefixes of each other, spelled in two ways, on both      *)
(* sides of the surrogates, and left out of the hash; numbers on both      *)
(* sides of each threshold of the writers.                                 *)
(***************************************************************************)
EXTENDS JsonContract

CONSTANTS SA, SAEscaped, SAB, SHalfwidth, SEmoji, SSignature, SEntryHash, SEngine

(* a, a, ab, U+FF5E, U+1F600; the reserved names stand as one letter each. *)
MCUnquote ==
    SA :> <<97>> @@ SAEscaped :> <<97>> @@ SAB :> <<97, 98>>
        @@ SHalfwidth :> <<65374>> @@ SEmoji :> <<128512>>
        @@ SSignature :> <<115>> @@ SEntryHash :> <<104>> @@ SEngine :> <<118>>

MCSignatureKey     == <<115>>
MCEntryHashKey     == <<104>>
MCEngineVersionKey == <<118>>

Num(neg, int, frac, exp) == [neg |-> neg, int |-> int, frac |-> frac, exp |-> exp]

MCLiteral ==
    { Num(FALSE, <<0>>, <<>>, NoExponent),             \* 0
      Num(TRUE, <<0>>, <<>>, NoExponent),              \* -0
      Num(TRUE, <<1, 2, 0>>, <<>>, NoExponent),        \* -120
      Num(FALSE, <<1>>, <<5, 0>>, NoExponent),         \* 1.50
      Num(FALSE, <<1>>, <<>>, 20),                     \* 1e20
      Num(FALSE, <<1, 2>>, <<>>, 20),                  \* 12e20
      Num(FALSE, <<1>> \o Zeros(20), <<>>, NoExponent),
      Num(FALSE, <<1>> \o Zeros(21), <<>>, NoExponent),
      Num(FALSE, <<0>>, Zeros(5) \o <<1>>, NoExponent),
      Num(TRUE, <<0>>, Zeros(6) \o <<1, 2>>, NoExponent),
      Num(FALSE, <<3>>, <<>>, 400),                    \* beyond float64
      Num(FALSE, <<3>>, <<>>, -400) }                  \* below it
=============================================================================
