---------------------------- MODULE MCAivenator ----------------------------
EXTENDS Aivenator

OneSpec     == <<"A">>
TwoSpecs    == <<"A", "B">>
Reverted    == <<"A", "B", "A">>

\* Every spec asks for one Secret, the same one.
WantsOne == [spec \in Specs |-> <<"s1">>]

\* Every spec asks for two Secrets, of different services.
WantsBoth == [spec \in Specs |-> <<"s1", "s2">>]

\* The services the Secrets are for, in the order of the handlers.
KafkaThenValkey == [s \in Secrets |-> IF s = "s1" THEN "kafka" ELSE "valkey"]
=============================================================================
