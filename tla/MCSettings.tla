----------------------------- MODULE MCSettings -----------------------------
(* A bank file with one voice more than the built-in bank, in use, and no sounds in either. *)
EXTENDS Settings

A == <<"a">>
B == <<"b">>

MCIds == {A, B}
MCNumbers == {1, 2}

MCLoaded ==
  [voices   |-> <<[id |-> A, rate |-> 1], [id |-> B, rate |-> 1]>>,
   sounds   |-> <<>>,
   bindings |-> <<[id |-> B, voice_id |-> B, sound_id |-> None]>>]

MCDefaults ==
  [voices   |-> <<[id |-> A, rate |-> 2]>>,
   sounds   |-> <<>>,
   bindings |-> <<[id |-> B, voice_id |-> A, sound_id |-> None]>>]

MCTyped == [id |-> {A}, rate |-> {2}, volume |-> {}, voice_id |-> {None}, sound_id |-> {}]
=============================================================================
