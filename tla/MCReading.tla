----------------------------- MODULE MCReading -----------------------------
\* A recording behind a photograph, a written memory of the same display name,
\* and a photograph by a participant without a name.
EXTENDS Reading

CONSTANTS m1, m2, tom

MCNameOf == [m \in Memory |-> IF m \in {m1, m2} THEN tom ELSE Null]
MCLinksOf == [m \in Memory |->
  IF m = m1 THEN <<"photo", "audio", "video">> ELSE IF m = m2 THEN << >> ELSE <<"photo">>]
=============================================================================
