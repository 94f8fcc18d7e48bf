--------------------------- MODULE MCReputation ---------------------------
(* The instance of Reputation that TLC checks. *)
EXTENDS Reputation

MCSpellings == Domains \cup {"Sci", " "}

MCNormalise ==
    [s \in MCSpellings |-> CASE s = "Sci" -> "sci" [] s = " " -> "" [] OTHER -> s]

\* A thousand days beyond the threshold, the threshold itself, and
\* a value validateDecayInput refuses.
MCInactiveDays == {-1, 30, 1030}

\* 0.999^1000 = 0.36769, truncated to units of 1/One.
MCDecayPower == [n \in EffectiveDays |-> 3676]
=============================================================================
