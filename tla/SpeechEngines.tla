--------------------------- MODULE SpeechEngines ---------------------------
(***************************************************************************)
(* Which engine speaks, tts_registry.py, and the :tts command that changes *)
(* it while the program runs, app.py.  An engine is its id and the         *)
(* parameters it was built with; what it makes of a text is reduced to     *)
(* whether it makes anything (tts.py).                                     *)
(***************************************************************************)
EXTENDS Integers, Sequences

CONSTANTS Priority,    \* DEFAULT_PRIORITY
          Installed,   \* the engines whose available() holds on this host
          Accepts,     \* for each engine, the parameters its constructor takes
          Parameters,  \* bound: the parameters a user types
          Override     \* ASAT_TTS_ENGINE, "" if it is not set

Registered == {Priority[i] : i \in 1..Len(Priority)}

\* The tone engine is always available, and its factory ignores parameters.
ASSUME EnginesAssumption ==
  /\ "tone" \in Registered \cap Installed
  /\ Installed \subseteq Registered
  /\ Accepts \in [Registered -> SUBSET Parameters]
  /\ Accepts["tone"] = Parameters
  /\ Override \in Registered \cup {""}

VARIABLE
  tts   \* the engine in use, SoundEngine._tts, which is also the one that
        \* :tts list names, Application._tts_engine_id and _tts_parameters

resolve_default_id ==
  IF Override # "" THEN Override
  ELSE Priority[CHOOSE i \in 1..Len(Priority) :
                  /\ Priority[i] \in Installed
                  /\ \A j \in 1..(i - 1) : Priority[j] \notin Installed]

SpeechInit == tts = [id |-> resolve_default_id, params |-> {}]

\* An engine that is not installed makes nothing, and an installed one may
\* fail: it exits with an error, times out, returns an empty file or one that
\* cannot be decoded, or was given a parameter that is not a number.
CanSpeak == tts.id \in Installed

CannotSpeak == tts.id # "tone"

\* :tts use <id>.  An id the registry does not know is refused, one that is
\* not installed is not.
UseEngine(id) ==
  IF id \in Registered THEN tts' = [id |-> id, params |-> {}] ELSE UNCHANGED tts

\* :tts set <param> <value> builds the engine anew with one more parameter.
SetParameter(param) == tts' = [tts EXCEPT !.params = @ \cup {param}]

\* A parameter the constructor does not take raises out of the command.
Takes(param) == param \in Accepts[tts.id]
=============================================================================
