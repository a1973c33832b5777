------------------------------ MODULE LogBuffer ------------------------------
(***************************************************************************)
(* tools/log/LogBuffer: a fixed array that is filled from the front.  A     *)
(* buffer is the sequence of the characters written so far, those between   *)
(* m_data and m_current.                                                    *)
(***************************************************************************)
EXTENDS Integers, Sequences

CONSTANT Capacity        \* m_capacity

ASSUME CapacityAssumption == Capacity \in Nat \ {0}

\* end() - m_data: the last byte stays '\0'.
End == Capacity - 1

available(b) == End > Len(b)

\* append: what does not fit is cut off.
append(b, s) == b \o (IF Len(b) + Len(s) < End THEN s ELSE SubSeq(s, 1, End - Len(b)))

\* append_char: nothing happens when it does not fit.
append_char(b, ch) == IF available(b) THEN Append(b, ch) ELSE b
=============================================================================
