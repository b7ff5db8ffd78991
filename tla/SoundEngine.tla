---------------------------- MODULE SoundEngine ----------------------------
(***************************************************************************)
(* The sound engine, sound_engine.py: it subscribes to the events the bank *)
(* has bindings for, renders the bindings of each event that is published  *)
(* and survives a speech engine or a sink that fails.  With it come the    *)
(* three copies of the bank, the engine's, the settings controller's and   *)
(* the file, and what changes each of them: the settings editor, its save, *)
(* :reload-bank, :verbosity and the quick edit of the event log.           *)
(*                                                                         *)
(* The bus lock is held from the publication of an event to the end of its *)
(* last handler; a job is an event on its way through the engine.  Only    *)
(* the quick edit works outside the lock.                                  *)
(***************************************************************************)
EXTENDS SpeechEngines, FiniteSets

CONSTANTS Bindings,      \* the bindings of every bank, as DefaultBank makes them
          Events,        \* bound: what the others publish
          Editable,      \* bound: ids of the bindings a user switches on and off
          Levels,        \* bound: the ceilings a user sets
          OnDisk,        \* bound: what the bank file is replaced by
          MaxFailures,   \* MAX_CONSECUTIVE_SINK_FAILURES
          MayRaise,      \* whether a subscriber of the engine's own events raises
          NoBank, Corrupt, NoJob, NoPhrase

VERBOSITY_RANK == [minimal |-> 0, normal |-> 1, verbose |-> 2]

\* What distinguishes two banks: the bindings that are not enabled and the
\* ceiling.
Banks == [off : SUBSET Editable, level : Levels]

ASSUME EngineAssumption ==
  /\ MaxFailures \in Nat \ {0}
  /\ MayRaise \in BOOLEAN
  /\ Levels \subseteq DOMAIN VERBOSITY_RANK
  /\ NoBank \notin Banks /\ Corrupt \notin Banks
  /\ NoPhrase \notin Bindings \X Events
  /\ OnDisk \subseteq Banks \cup {NoBank, Corrupt}

VARIABLES
  bank,         \* SoundEngine._bank
  cached,       \* SettingsController._bank
  editor,       \* the bank in the open settings editor, NoBank if it is closed
  file,         \* the bank file: NoBank if it is missing, Corrupt if unreadable
  subscribed,   \* _subscribed_types
  swapping,     \* the quick edit has set the bank and not yet the subscriptions
  job,          \* the event being rendered, what is left of it and what spoke
  latest,       \* the newest entry of _history: the binding and its event
  failures,     \* _sink_failure_count
  sink,         \* "live" until it is given up for a "memory" sink
  lastSpoken,   \* history: the phrase that last reached the sink
  deaf,         \* history: how many error tones in a row did not sound
  told          \* history: what the last step published, as far as it matters

banks == <<bank, cached, editor, file>>
audio == <<latest, failures, sink, lastSpoken, deaf>>
vars == <<banks, subscribed, swapping, job, audio, told, tts>>

Subscribable == {b.on : b \in Bindings}

----------------------------------------------------------------------------
(* Which bindings an event has, and whether they can be heard. *)

enabled(b, bk) == b.id \notin bk.off

Wanted(bk) == {b.on : b \in {c \in Bindings : enabled(c, bk)}}

bindings_for(type, bk) ==
  {b \in Bindings : /\ b.on = type
                    /\ enabled(b, bk)
                    /\ VERBOSITY_RANK[b.verbosity] <= VERBOSITY_RANK[bk.level]}

\* payload.get(key), with None for a key that is missing.
Get(payload, key) == IF key \in DOMAIN payload THEN payload[key] ELSE "None"

Holds(clause, payload) ==
  \/ clause.op = "==" /\ Get(payload, clause.key) = clause.value
  \/ clause.op = "!=" /\ Get(payload, clause.key) # clause.value

Readable(clause) == clause.op \in {"==", "!="}

\* The clauses are read in order until one does not hold.
matches(b, payload) == \A i \in 1..Len(b.when) : Holds(b.when[i], payload)

Unreadable(b, payload) ==
  \E i \in 1..Len(b.when) :
    /\ ~Readable(b.when[i])
    /\ \A j \in 1..(i - 1) : Holds(b.when[j], payload)

\* _render_template: a key that is missing renders as nothing.
HasText(b, payload) ==
  \/ b.says = "words"
  \/ b.says \in DOMAIN payload /\ payload[b.says] # ""

Speaks(b, payload) == b.voice # "none" /\ HasText(b, payload)

Audible(b, payload) == Speaks(b, payload) \/ b.sound # "none"

\* The bindings that come first: bindings_for sorts by descending priority.
First(left) == {b \in left : \A c \in left : c.priority <= b.priority}

----------------------------------------------------------------------------
(* Publishing.  The engine ignores the events it published itself. *)

Publish(event, subs, bk) ==
  LET left == IF event.source # "sound_engine" /\ event.type \in subs
              THEN bindings_for(event.type, bk) ELSE {}
  IN  job' = IF left = {} THEN NoJob
             ELSE [event |-> event, left |-> left, spoke |-> {}]

\* What the keyboard thread publishes here has words of its own.
FromApp(type) == [type |-> type, source |-> "app", payload |-> [lines |-> "help"]]

Published == Events \cup {FromApp(type) : type \in Subscribable}

\* Nothing is underway in the lock, and the keyboard thread is free.
LockFree == job = NoJob
Keyboard == LockFree /\ ~swapping

OtherPublishes(event) ==
  /\ LockFree
  /\ Publish(event, subscribed, bank)
  /\ told' = "nothing"
  /\ UNCHANGED <<banks, subscribed, swapping, audio, tts>>

----------------------------------------------------------------------------
(* _dispatch and _render: one binding of the job at a time. *)

Leave(b, spoke) ==
  job' = IF job.left = {b} THEN NoJob
         ELSE [job EXCEPT !.left = @ \ {b}, !.spoke = @ \cup spoke]

Skip(b) ==
  /\ ~Unreadable(b, job.event.payload)
  /\ \/ ~matches(b, job.event.payload)
     \/ ~Audible(b, job.event.payload)
  /\ Leave(b, {})
  /\ UNCHANGED audio

\* Mutant: a binding is rendered whatever its predicate says of the event.
RenderableUnasked(b) ==
  ~Unreadable(b, job.event.payload) /\ Audible(b, job.event.payload)

Renderable(b) ==
  /\ ~Unreadable(b, job.event.payload)
  /\ matches(b, job.event.payload)
  /\ Audible(b, job.event.payload)

\* _play_error_tone_best_effort: the third failure in a row gives the sink up.
\* What it publishes then, and what a subscriber raises on that, goes no further.
ToneSounds == failures' = 0 /\ deaf' = 0 /\ UNCHANGED sink

ToneFails(count, before) ==
  /\ sink = "live"
  /\ deaf' = before + 1
  /\ IF count + 1 < MaxFailures
     THEN failures' = count + 1 /\ UNCHANGED sink
     ELSE failures' = 0 /\ sink' = "memory"

\* _handle_render_failure: the predicate cannot be read, the speech engine or
\* the sink fails.
Fail(b) ==
  /\ \/ Unreadable(b, job.event.payload)
     \/ Renderable(b) /\ Speaks(b, job.event.payload) /\ CannotSpeak
     \/ Renderable(b) /\ sink = "live"
  /\ Leave(b, {})
  /\ ToneSounds \/ ToneFails(failures, deaf)
  /\ UNCHANGED <<latest, lastSpoken>>

\* Mutant: a render that sounds does not start the count of failures anew.
RenderedUncounted == deaf' = 0 /\ UNCHANGED <<failures, sink>>

Rendered == failures' = 0 /\ deaf' = 0 /\ UNCHANGED sink

Remember(phrase) == latest' = phrase /\ lastSpoken' = phrase

\* The play succeeds, and then AUDIO_SPOKEN is published: a subscriber that
\* raises on it makes a failure of the render.
Sound(b) ==
  LET speech == Speaks(b, job.event.payload)
  IN  /\ Renderable(b)
      /\ speech => CanSpeak
      /\ Leave(b, IF speech THEN {b} ELSE {})
      /\ IF speech THEN Remember(<<b, job.event>>) ELSE UNCHANGED <<latest, lastSpoken>>
      /\ \/ Rendered
         \/ MayRaise /\ (ToneSounds \/ ToneFails(0, 0))

Render ==
  /\ job # NoJob
  /\ \E b \in First(job.left) : Skip(b) \/ Sound(b) \/ Fail(b)
  /\ told' = "nothing"
  /\ UNCHANGED <<banks, subscribed, swapping, tts>>

----------------------------------------------------------------------------
(* The keyboard thread: replay, :tts, :verbosity, the settings editor. *)

\* replay_last_narration.  What the speech engine or the sink raises leaves the
\* command; a replay that sounds does not reset the count of failures.
ReplayNarration ==
  /\ Keyboard /\ latest # NoPhrase
  /\ \/ CanSpeak /\ lastSpoken' = latest /\ told' = "replayed"
     \/ (CannotSpeak \/ sink = "live") /\ told' = "nothing" /\ UNCHANGED lastSpoken
  /\ UNCHANGED <<banks, subscribed, swapping, job, latest, failures, sink, deaf, tts>>

Says(type, subs, bk) == Publish(FromApp(type), subs, bk) /\ told' = type

Help == Says("help.requested", subscribed, bank)

TtsUse(id) ==
  /\ Keyboard
  /\ UseEngine(id)
  /\ Help
  /\ UNCHANGED <<banks, subscribed, swapping, audio>>

TtsSet(param) ==
  /\ Keyboard
  /\ IF Takes(param) THEN SetParameter(param) /\ Help
     ELSE told' = "nothing" /\ UNCHANGED <<tts, job>>
  /\ UNCHANGED <<banks, subscribed, swapping, audio>>

\* Mutant: the subscriptions stay as they are.
SetBankOnly(bk) == bank' = bk /\ UNCHANGED subscribed

set_bank(bk) == bank' = bk /\ subscribed' = Wanted(bk)

\* VERBOSITY_CHANGED carries the engine's own source.
SetVerbosity(level) ==
  /\ Keyboard
  /\ level # bank.level
  /\ set_bank([bank EXCEPT !.level = level])
  /\ Publish([FromApp("verbosity.changed") EXCEPT !.source = "sound_engine"], subscribed', bank')
  /\ told' = "verbosity.changed"
  /\ UNCHANGED <<cached, editor, file, swapping, audio, tts>>

OpenSettings ==
  /\ Keyboard /\ editor = NoBank
  /\ editor' = cached
  /\ Says("settings.opened", subscribed, bank)
  /\ UNCHANGED <<bank, cached, file, subscribed, swapping, audio, tts>>

Toggle(bk, id) ==
  [bk EXCEPT !.off = IF id \in @ THEN @ \ {id} ELSE @ \cup {id}]

EditSettings(id) ==
  /\ Keyboard /\ editor # NoBank
  /\ editor' = Toggle(editor, id)
  /\ Says("settings.value.edited", subscribed, bank)
  /\ UNCHANGED <<bank, cached, file, subscribed, swapping, audio, tts>>

SaveSettings ==
  /\ Keyboard /\ editor # NoBank
  /\ file' = editor
  /\ Says("settings.saved", subscribed, bank)
  /\ UNCHANGED <<bank, cached, editor, subscribed, swapping, audio, tts>>

CloseSettings ==
  /\ Keyboard /\ editor # NoBank
  /\ cached' = editor /\ editor' = NoBank
  /\ Says("settings.closed", subscribed, bank)
  /\ UNCHANGED <<bank, file, subscribed, swapping, audio, tts>>

\* The file is edited with something else, damaged or removed.
FileChanges ==
  /\ file' \in OnDisk
  /\ told' = "nothing"
  /\ UNCHANGED <<bank, cached, editor, subscribed, swapping, job, audio, tts>>

reload_from_disk ==
  /\ set_bank(file)
  /\ cached' = file
  /\ Says("bank.reloaded", subscribed', bank')
  /\ UNCHANGED <<editor, file>>

\* :reload-bank.  A file that cannot be read or a settings editor that is open
\* is told and changes nothing.
ReloadBank ==
  /\ Keyboard
  /\ IF file \in {NoBank, Corrupt} \/ editor # NoBank
     THEN Help /\ UNCHANGED <<banks, subscribed>>
     ELSE reload_from_disk
  /\ UNCHANGED <<swapping, audio, tts>>

----------------------------------------------------------------------------
(* The quick edit of the event log, which sets the bank outside the bus    *)
(* lock and takes it for the subscriptions and for the announcement.       *)

CommitQuickEdit(id) ==
  /\ ~swapping
  /\ job # NoJob => job.event.source # "app"
  /\ bank' = Toggle(bank, id)
  /\ swapping' = TRUE
  /\ told' = "nothing"
  /\ UNCHANGED <<cached, editor, file, subscribed, job, audio, tts>>

Resubscribe ==
  /\ swapping /\ LockFree
  /\ subscribed' = Wanted(bank)
  /\ swapping' = FALSE
  /\ Says("event_log.quick_edit.committed", subscribed', bank)
  /\ UNCHANGED <<banks, audio, tts>>

----------------------------------------------------------------------------

Init ==
  /\ bank \in Banks \cap OnDisk
  /\ cached = bank
  /\ editor = NoBank
  /\ file \in {bank, NoBank}
  /\ subscribed = Wanted(bank)
  /\ swapping = FALSE
  /\ job = NoJob
  /\ latest = NoPhrase /\ lastSpoken = NoPhrase
  /\ failures = 0 /\ deaf = 0
  /\ sink \in {"live", "memory"}
  /\ told = "nothing"
  /\ SpeechInit

Next ==
  \/ Render
  \/ \E event \in Events : OtherPublishes(event)
  \/ ReplayNarration
  \/ \E id \in Registered \cup {"unknown"} : TtsUse(id)
  \/ \E param \in Parameters : TtsSet(param)
  \/ \E level \in Levels : SetVerbosity(level)
  \/ OpenSettings \/ SaveSettings \/ CloseSettings
  \/ \E id \in Editable : EditSettings(id) \/ CommitQuickEdit(id)
  \/ Resubscribe
  \/ FileChanges
  \/ ReloadBank

Spec == Init /\ [][Next]_vars

----------------------------------------------------------------------------

\* Type invariant.  A job has a binding left to render.
TypeOK ==
  /\ bank \in Banks /\ cached \in Banks
  /\ editor \in Banks \cup {NoBank}
  /\ file \in Banks \cup {NoBank, Corrupt}
  /\ subscribed \subseteq Subscribable
  /\ swapping \in BOOLEAN
  /\ job = NoJob \/ (/\ job.event \in Published
                     /\ job.left \subseteq Bindings /\ job.left # {}
                     /\ job.spoke \subseteq Bindings)
  /\ {latest, lastSpoken} \subseteq (Bindings \X Published) \cup {NoPhrase}
  /\ failures \in 0..(MaxFailures - 1) /\ deaf \in 0..MaxFailures
  /\ sink \in {"live", "memory"}

\* No event of a binding that is switched on goes past the engine, and none is
\* still heard of a binding that is off: but for the moment in which a quick
\* edit waits for the bus, the engine is subscribed to exactly the events of
\* the enabled bindings of its bank, whichever way the bank was changed
\* (docs/AUDIO.md: "exactly the event types the new bank wants").
Unmissed == ~swapping => subscribed = Wanted(bank)

\* The predicates of the bindings of one event tell its payloads apart: no
\* event is spoken by two bindings one over the other.
OneVoice == job # NoJob => Cardinality(job.spoke) <= 1

\* What that takes of the bindings: of two that speak for the same event one
\* has a predicate that does not hold.
SpeaksFor(b, event) ==
  b.on = event.type /\ matches(b, event.payload) /\ Speaks(b, event.payload)

Exclusive ==
  \A event \in Published : \A b, c \in Bindings :
    SpeaksFor(b, event) /\ SpeaksFor(c, event) => b = c

\* Ctrl+R repeats the phrase that was last heard, although a phrase is only
\* remembered after it was played and before it is announced.
ReplaySaysTheLast == [][told' = "replayed" => lastSpoken' = lastSpoken]_vars

\* The sink is given up when as many error tones in a row as MaxFailures did
\* not sound, with no render that did between them, and at no other time.
GivenUpWhenDeaf ==
  [][sink' # sink <=> deaf' = MaxFailures /\ deaf' # deaf]_vars

=============================================================================
