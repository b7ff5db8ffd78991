------------------------- MODULE SoundEngineProofs -------------------------
(***************************************************************************)
(* Proofs about SoundEngine, for any bindings, events and engines: what    *)
(* the engine is subscribed to, when it gives its sink up, what a replay   *)
(* repeats and what a reload agrees with.                                  *)
(***************************************************************************)
EXTENDS SoundEngine, FiniteSetTheorems, TLAPS

Jobs == [event : Published, left : SUBSET Bindings, spoke : SUBSET Bindings]

JobInv == job \in Jobs \cup {NoJob} /\ (job # NoJob => job.left # {})

BanksInv ==
  /\ bank \in Banks /\ cached \in Banks
  /\ editor \in Banks \cup {NoBank}
  /\ file \in Banks \cup {NoBank, Corrupt}
  /\ subscribed \subseteq Subscribable
  /\ swapping \in BOOLEAN

\* A phrase is remembered in the moment it is heard.
PhraseInv ==
  /\ latest \in (Bindings \X Published) \cup {NoPhrase}
  /\ lastSpoken = latest

\* While there is a sink its failures are the error tones that did not sound.
SinkInv ==
  /\ failures \in 0..(MaxFailures - 1) /\ deaf \in 0..MaxFailures
  /\ sink \in {"live", "memory"}
  /\ sink = "live" => failures = deaf

IInv == JobInv /\ BanksInv /\ PhraseInv /\ SinkInv /\ Unmissed
-----------------------------------------------------------------------------
(* Lemmas about the operators. *)

\* Only events somebody has a binding for are subscribed to.
LEMMA WantedIsSubscribable ==
  ASSUME NEW bk PROVE Wanted(bk) \subseteq Subscribable
BY DEF Wanted, Subscribable

\* Switching a binding makes a bank of a bank.
LEMMA ToggleIsBank ==
  ASSUME NEW bk \in Banks, NEW id \in Editable PROVE Toggle(bk, id) \in Banks
BY DEF Toggle, Banks

\* A publication leaves no job, or one with bindings to render.
LEMMA PublishMakesJob ==
  ASSUME NEW event, NEW subs \in SUBSET Subscribable, NEW bk, Publish(event, subs, bk),
         event.source # "sound_engine" /\ event.type \in subs => event \in Published
  PROVE  JobInv'
<1> DEFINE left == IF event.source # "sound_engine" /\ event.type \in subs
                   THEN bindings_for(event.type, bk) ELSE {}
<1>1. job' = IF left = {} THEN NoJob ELSE [event |-> event, left |-> left, spoke |-> {}]
  BY DEF Publish
<1>2. left \subseteq Bindings
  BY DEF bindings_for
<1>3. CASE left = {}
  BY <1>1, <1>3 DEF JobInv
<1>4. CASE left # {}
  <2>1. event \in Published
    BY <1>4
  <2>2. job' = [event |-> event, left |-> left, spoke |-> {}]
    BY <1>1, <1>4
  <2>3. job' \in Jobs /\ job'.left # {}
    BY <1>2, <1>4, <2>1, <2>2 DEF Jobs
  <2> QED
    BY <2>3 DEF JobInv
<1> QED
  BY <1>3, <1>4

\* What the keyboard thread says is among what is published.
LEMMA SaysMakesJob ==
  ASSUME NEW type, NEW subs \in SUBSET Subscribable, NEW bk, Says(type, subs, bk)
  PROVE  JobInv' /\ told' = type
<1>1. Publish(FromApp(type), subs, bk) /\ told' = type
  BY DEF Says
<1>2. FromApp(type).type = type
  BY DEF FromApp
<1>3. type \in subs => FromApp(type) \in Published
  BY DEF Published
<1> QED
  BY <1>1, <1>2, <1>3, PublishMakesJob

\* A binding that is done leaves the job, and the job with it if it is the last.
LEMMA LeaveKeepsJob ==
  ASSUME JobInv, job # NoJob, NEW b \in job.left, NEW spoke \in SUBSET Bindings,
         Leave(b, spoke)
  PROVE  JobInv'
<1>1. job \in Jobs
  BY DEF JobInv
<1>2. CASE job.left = {b}
  BY <1>2 DEF Leave, JobInv
<1>3. CASE job.left # {b}
  <2>1. job' = [job EXCEPT !.left = @ \ {b}, !.spoke = @ \cup spoke]
    BY <1>3 DEF Leave
  <2>2. job' \in Jobs /\ job'.left = job.left \ {b}
    BY <1>1, <2>1 DEF Jobs
  <2>3. job.left \ {b} # {}
    BY <1>3
  <2> QED
    BY <2>2, <2>3 DEF JobInv
<1> QED
  BY <1>2, <1>3
-----------------------------------------------------------------------------
(* The sink. *)

\* What an error tone does to the sink, for a count of failures that agrees
\* with the tones that did not sound.
LEMMA ToneKeepsSink ==
  ASSUME SinkInv, NEW count \in 0..(MaxFailures - 1), NEW before \in 0..MaxFailures,
         sink = "live" => count = before,
         ToneSounds \/ ToneFails(count, before)
  PROVE  SinkInv'
BY EngineAssumption DEF SinkInv, ToneSounds, ToneFails

\* A render does one of four things to the sink.
LEMMA RenderOnSink ==
  ASSUME Render
  PROVE  \/ UNCHANGED <<failures, sink, deaf>>
         \/ ToneSounds
         \/ ToneFails(failures, deaf)
         \/ ToneFails(0, 0)
<1>1. PICK b \in First(job.left) : Skip(b) \/ Sound(b) \/ Fail(b)
  BY DEF Render
<1>2. CASE Skip(b)
  BY <1>2 DEF Skip, audio
<1>3. CASE Sound(b)
  BY <1>3 DEF Sound, Rendered, ToneSounds
<1>4. CASE Fail(b)
  BY <1>4 DEF Fail
<1> QED
  BY <1>1, <1>2, <1>3, <1>4

\* Rendering keeps the agreement of the sink with the tones.
LEMMA RenderKeepsSink == SinkInv /\ Render => SinkInv'
<1> SUFFICES ASSUME SinkInv, Render PROVE SinkInv'
  OBVIOUS
<1>1. CASE UNCHANGED <<failures, sink, deaf>>
  BY <1>1 DEF SinkInv
<1>2. /\ failures \in 0..(MaxFailures - 1) /\ deaf \in 0..MaxFailures
      /\ 0 \in 0..(MaxFailures - 1) /\ 0 \in 0..MaxFailures
      /\ sink = "live" => failures = deaf
  BY EngineAssumption DEF SinkInv
<1>3. CASE ToneSounds \/ ToneFails(failures, deaf)
  BY <1>2, <1>3, ToneKeepsSink
<1>4. CASE ToneFails(0, 0)
  BY <1>2, <1>4, ToneKeepsSink
<1> QED
  BY <1>1, <1>3, <1>4, RenderOnSink

\* A phrase is remembered together with its being heard.
LEMMA RenderKeepsPhrase == PhraseInv /\ JobInv /\ Render => PhraseInv'
<1> SUFFICES ASSUME PhraseInv, JobInv, Render PROVE PhraseInv'
  OBVIOUS
<1>1. PICK b \in First(job.left) : Skip(b) \/ Sound(b) \/ Fail(b)
  BY DEF Render
<1>2. b \in Bindings /\ job.event \in Published
  BY DEF First, JobInv, Jobs, Render
<1>3. CASE Skip(b) \/ Fail(b)
  BY <1>3 DEF Skip, Fail, audio, PhraseInv
<1>4. CASE Sound(b)
  BY <1>2, <1>4 DEF Sound, Remember, PhraseInv
<1> QED
  BY <1>1, <1>3, <1>4

\* Rendering keeps the shape of the job.
LEMMA RenderKeepsJob == JobInv /\ Render => JobInv'
<1> SUFFICES ASSUME JobInv, Render PROVE JobInv'
  OBVIOUS
<1>1. PICK b \in First(job.left) : Skip(b) \/ Sound(b) \/ Fail(b)
  BY DEF Render
<1>2. b \in job.left /\ job # NoJob /\ b \in Bindings
  BY DEF First, Render, JobInv, Jobs
<1>3. Leave(b, {}) \/ Leave(b, {b})
  BY <1>1 DEF Skip, Sound, Fail
<1> QED
  BY <1>2, <1>3, LeaveKeepsJob
-----------------------------------------------------------------------------
(* The invariant. *)

\* It holds at first.
LEMMA InitInv == Init => IInv
<1> SUFFICES ASSUME Init PROVE IInv
  OBVIOUS
<1>1. JobInv /\ PhraseInv
  BY DEF Init, JobInv, PhraseInv
<1>2. BanksInv /\ Unmissed
  BY WantedIsSubscribable DEF Init, BanksInv, Unmissed
<1>3. SinkInv
  BY EngineAssumption DEF Init, SinkInv
<1> QED
  BY <1>1, <1>2, <1>3 DEF IInv

\* A step that leaves what is heard alone needs to be looked at for the job and
\* the banks only.
LEMMA SilentStep ==
  ASSUME IInv, UNCHANGED audio, JobInv', BanksInv', Unmissed'
  PROVE  IInv'
BY DEF IInv, audio, PhraseInv, SinkInv

\* A step that publishes from the keyboard thread and changes no bank.
LEMMA SayingStep ==
  ASSUME IInv, UNCHANGED <<banks, subscribed, swapping, audio>>, NEW type,
         Says(type, subscribed, bank)
  PROVE  IInv'
<1>1. BanksInv' /\ Unmissed'
  BY DEF IInv, BanksInv, Unmissed, banks
<1>2. JobInv'
  BY SaysMakesJob DEF IInv, BanksInv
<1> QED
  BY <1>1, <1>2, SilentStep

\* A step of the settings editor, which changes its own copy and the file.
LEMMA EditorStep ==
  ASSUME IInv, UNCHANGED <<bank, subscribed, swapping, audio>>, NEW type,
         cached' \in Banks, editor' \in Banks \cup {NoBank},
         file' \in Banks \cup {NoBank, Corrupt},
         Says(type, subscribed, bank)
  PROVE  IInv'
<1>1. BanksInv' /\ Unmissed'
  BY DEF IInv, BanksInv, Unmissed
<1>2. JobInv'
  BY SaysMakesJob DEF IInv, BanksInv
<1> QED
  BY <1>1, <1>2, SilentStep

\* The engine is given another bank and subscribes to what it wants.
LEMMA RebindingStep ==
  ASSUME IInv, NEW bk \in Banks, set_bank(bk), UNCHANGED <<swapping, audio>>,
         cached' \in Banks, editor' \in Banks \cup {NoBank},
         file' \in Banks \cup {NoBank, Corrupt}, JobInv'
  PROVE  IInv'
<1>1. bank' = bk /\ subscribed' = Wanted(bk)
  BY DEF set_bank
<1>2. BanksInv' /\ Unmissed'
  BY <1>1, WantedIsSubscribable DEF IInv, BanksInv, Unmissed, Wanted, enabled
<1> QED
  BY <1>2, SilentStep

\* Every step keeps it.
LEMMA NextInv == IInv /\ [Next]_vars => IInv'
<1> SUFFICES ASSUME IInv, [Next]_vars PROVE IInv'
  OBVIOUS
<1>0. JobInv /\ BanksInv /\ PhraseInv /\ SinkInv /\ Unmissed
  BY DEF IInv
<1>1. CASE Render
  <2>1. BanksInv' /\ Unmissed'
    BY <1>0, <1>1 DEF Render, BanksInv, Unmissed, banks
  <2> QED
    BY <1>0, <1>1, <2>1, RenderKeepsJob, RenderKeepsPhrase, RenderKeepsSink DEF IInv
<1>2. ASSUME NEW event \in Events, OtherPublishes(event) PROVE IInv'
  <2>1. event \in Published /\ subscribed \in SUBSET Subscribable
    BY <1>0 DEF Published, BanksInv
  <2>2. JobInv'
    BY <1>2, <2>1, PublishMakesJob DEF OtherPublishes
  <2>3. BanksInv' /\ Unmissed' /\ UNCHANGED audio
    BY <1>0, <1>2 DEF OtherPublishes, BanksInv, Unmissed, banks
  <2> QED
    BY <2>2, <2>3, SilentStep
<1>3. CASE ReplayNarration
  BY <1>0, <1>3 DEF ReplayNarration, IInv, JobInv, BanksInv, PhraseInv, SinkInv, Unmissed,
                    banks
<1>4. ASSUME NEW id, TtsUse(id) PROVE IInv'
  BY <1>4, SayingStep DEF TtsUse, Help
<1>5. ASSUME NEW param, TtsSet(param) PROVE IInv'
  <2>1. CASE Takes(param)
    BY <1>5, <2>1, SayingStep DEF TtsSet, Help
  <2>2. CASE ~Takes(param)
    <3>1. UNCHANGED <<banks, subscribed, swapping, job, audio>>
      BY <1>5, <2>2 DEF TtsSet
    <3>2. JobInv' /\ BanksInv' /\ Unmissed'
      BY <1>0, <3>1 DEF JobInv, BanksInv, Unmissed, banks
    <3> QED
      BY <3>1, <3>2, SilentStep
  <2> QED
    BY <2>1, <2>2
<1>6. ASSUME NEW level \in Levels, SetVerbosity(level) PROVE IInv'
  <2> DEFINE event == [FromApp("verbosity.changed") EXCEPT !.source = "sound_engine"]
  <2>1. [bank EXCEPT !.level = level] \in Banks
    BY <1>0 DEF BanksInv, Banks
  <2>2. event.source = "sound_engine"
    BY DEF FromApp
  <2>3. JobInv'
    <3>1. subscribed' \in SUBSET Subscribable
      BY <1>6, WantedIsSubscribable DEF SetVerbosity, set_bank
    <3>2. Publish(event, subscribed', bank')
      BY <1>6 DEF SetVerbosity
    <3> HIDE DEF event
    <3> QED
      BY <2>2, <3>1, <3>2, PublishMakesJob
  <2> QED
    BY <1>0, <1>6, <2>1, <2>3, RebindingStep DEF SetVerbosity, BanksInv
<1>7. CASE OpenSettings
  BY <1>0, <1>7, EditorStep DEF OpenSettings, BanksInv
<1>8. CASE SaveSettings
  BY <1>0, <1>8, EditorStep DEF SaveSettings, BanksInv
<1>9. CASE CloseSettings
  BY <1>0, <1>9, EditorStep DEF CloseSettings, BanksInv
<1>10. ASSUME NEW id \in Editable, EditSettings(id) PROVE IInv'
  BY <1>0, <1>10, EditorStep, ToggleIsBank DEF EditSettings, BanksInv
<1>11. ASSUME NEW id \in Editable, CommitQuickEdit(id) PROVE IInv'
  <2>1. BanksInv' /\ Unmissed' /\ UNCHANGED audio
    BY <1>0, <1>11, ToggleIsBank DEF CommitQuickEdit, BanksInv, Unmissed
  <2>2. JobInv'
    BY <1>0, <1>11 DEF CommitQuickEdit, JobInv
  <2> QED
    BY <2>1, <2>2, SilentStep
<1>12. CASE Resubscribe
  <2>1. BanksInv' /\ Unmissed' /\ UNCHANGED audio
    BY <1>0, <1>12, WantedIsSubscribable DEF Resubscribe, BanksInv, Unmissed, banks, Wanted,
                                             enabled
  <2>2. JobInv'
    BY <1>12, <2>1, SaysMakesJob DEF Resubscribe, BanksInv
  <2> QED
    BY <2>1, <2>2, SilentStep
<1>13. CASE FileChanges
  <2>1. BanksInv' /\ Unmissed' /\ UNCHANGED audio
    BY <1>0, <1>13, EngineAssumption DEF FileChanges, BanksInv, Unmissed
  <2>2. JobInv'
    BY <1>0, <1>13 DEF FileChanges, JobInv
  <2> QED
    BY <2>1, <2>2, SilentStep
<1>14. CASE ReloadBank
  <2>1. CASE file \in {NoBank, Corrupt} \/ editor # NoBank
    BY <1>14, <2>1, SayingStep DEF ReloadBank, Help
  <2>2. CASE ~(file \in {NoBank, Corrupt} \/ editor # NoBank)
    <3>1. reload_from_disk /\ UNCHANGED <<swapping, audio>>
      BY <1>14, <2>2 DEF ReloadBank
    <3>2. file \in Banks
      BY <1>0, <2>2 DEF BanksInv
    <3>3. JobInv'
      <4>1. subscribed' \in SUBSET Subscribable
        BY <3>1, WantedIsSubscribable DEF reload_from_disk, set_bank
      <4> QED
        BY <3>1, <4>1, SaysMakesJob DEF reload_from_disk
    <3> QED
      BY <1>0, <3>1, <3>2, <3>3, RebindingStep DEF reload_from_disk, BanksInv
  <2> QED
    BY <2>1, <2>2
<1>15. CASE UNCHANGED vars
  BY <1>0, <1>15 DEF vars, banks, audio, IInv, JobInv, BanksInv, PhraseInv, SinkInv, Unmissed
<1> QED
  BY <1>1, <1>2, <1>3, <1>4, <1>5, <1>6, <1>7, <1>8, <1>9, <1>10, <1>11, <1>12, <1>13,
     <1>14, <1>15 DEF Next

\* The shape of the job, the types of the banks and the agreements of the
\* phrases, the sink and the subscriptions are an invariant.
THEOREM Invariance == Spec => []IInv
  BY InitInv, NextInv, PTL DEF Spec
-----------------------------------------------------------------------------
(* What follows. *)

\* The type invariant of the sound engine holds.
THEOREM TypeCorrect == Spec => []TypeOK
<1>1. IInv => TypeOK
  BY DEF IInv, JobInv, BanksInv, PhraseInv, SinkInv, Jobs, TypeOK
<1> QED
  BY <1>1, Invariance, PTL

\* Whichever way the bank was changed, the engine is subscribed to exactly the
\* events of its enabled bindings.
THEOREM NothingMissed == Spec => []Unmissed
<1>1. IInv => Unmissed
  BY DEF IInv
<1> QED
  BY <1>1, Invariance, PTL

\* Ctrl+R repeats the phrase that was last heard.
THEOREM ReplayIsTheLast == Spec => ReplaySaysTheLast
<1>1. IInv /\ [Next]_vars => [told' = "replayed" => lastSpoken' = lastSpoken]_vars
  <2> SUFFICES ASSUME IInv, [Next]_vars, told' = "replayed", vars' # vars
               PROVE  lastSpoken' = lastSpoken
    OBVIOUS
  <2>1. CASE Render
    BY <2>1 DEF Render
  <2>2. CASE ReplayNarration
    BY <2>2 DEF ReplayNarration, IInv, PhraseInv
  <2>3. CASE UNCHANGED audio
    BY <2>3 DEF audio
  <2> QED
    BY <2>1, <2>2, <2>3 DEF Next, OtherPublishes, TtsUse, TtsSet, SetVerbosity, OpenSettings,
       SaveSettings, CloseSettings, EditSettings, CommitQuickEdit, Resubscribe, FileChanges,
       ReloadBank
<1> QED
  BY <1>1, Invariance, PTL DEF Spec, ReplaySaysTheLast

\* The sink is given up exactly when as many error tones in a row as the limit
\* did not sound.
THEOREM GivesUpWhenDeaf == Spec => GivenUpWhenDeaf
<1>1. IInv /\ [Next]_vars => [sink' # sink <=> deaf' = MaxFailures /\ deaf' # deaf]_vars
  <2> SUFFICES ASSUME IInv, [Next]_vars
               PROVE  sink' # sink <=> deaf' = MaxFailures /\ deaf' # deaf
    OBVIOUS
  <2>1. CASE UNCHANGED <<failures, sink, deaf>>
    BY <2>1
  <2>2. CASE Render
    <3>1. CASE ToneSounds
      BY <3>1, EngineAssumption DEF ToneSounds
    <3>2. CASE ToneFails(failures, deaf)
      BY <3>2, EngineAssumption DEF ToneFails, IInv, SinkInv
    <3>3. CASE ToneFails(0, 0)
      BY <3>3, EngineAssumption DEF ToneFails, IInv, SinkInv
    <3> QED
      BY <2>1, <2>2, <3>1, <3>2, <3>3, RenderOnSink
  <2>3. CASE UNCHANGED <<audio>> \/ UNCHANGED vars \/ ReplayNarration
    BY <2>1, <2>3 DEF audio, vars, ReplayNarration
  <2> QED
    BY <2>2, <2>3 DEF Next, OtherPublishes, TtsUse, TtsSet, SetVerbosity, OpenSettings,
       SaveSettings, CloseSettings, EditSettings, CommitQuickEdit, Resubscribe, FileChanges,
       ReloadBank
<1> QED
  BY <1>1, Invariance, PTL DEF Spec, GivenUpWhenDeaf

\* What has spoken of a job are bindings that speak for its event, and what is
\* left of it are bindings of its type.
SpokeInv ==
  job # NoJob =>
    /\ \A b \in job.left : b.on = job.event.type
    /\ \A b \in job.spoke : b \in Bindings /\ SpeaksFor(b, job.event)

\* A publication begins with nothing spoken.
LEMMA PublishSpeaksNothing ==
  ASSUME NEW event, NEW subs, NEW bk, Publish(event, subs, bk)
  PROVE  SpokeInv'
BY DEF Publish, bindings_for, SpokeInv

\* What a render adds to what has spoken speaks for the event.
LEMMA LeaveKeepsSpoken ==
  ASSUME JobInv, SpokeInv, job # NoJob, NEW b \in job.left, NEW spoke \in SUBSET {b},
         spoke # {} => SpeaksFor(b, job.event), Leave(b, spoke)
  PROVE  SpokeInv'
<1>1. job \in Jobs /\ b \in Bindings
  BY DEF JobInv, Jobs
<1>2. CASE job.left = {b}
  BY <1>2 DEF Leave, SpokeInv
<1>3. CASE job.left # {b}
  <2>1. job' = [job EXCEPT !.left = @ \ {b}, !.spoke = @ \cup spoke]
    BY <1>3 DEF Leave
  <2>2. /\ job'.event = job.event /\ job'.left = job.left \ {b}
        /\ job'.spoke = job.spoke \cup spoke
    BY <1>1, <2>1 DEF Jobs
  <2>3. \A c \in job'.spoke : c \in Bindings /\ SpeaksFor(c, job.event)
    BY <1>1, <2>2 DEF SpokeInv
  <2>4. \A c \in job'.left : c.on = job.event.type
    BY <2>2 DEF SpokeInv
  <2> HIDE DEF SpeaksFor
  <2> QED
    BY <2>2, <2>3, <2>4 DEF SpokeInv
<1> QED
  BY <1>2, <1>3

\* Every step keeps it.
LEMMA SpokenStep == IInv /\ SpokeInv /\ [Next]_vars => SpokeInv'
<1> SUFFICES ASSUME IInv, SpokeInv, [Next]_vars PROVE SpokeInv'
  OBVIOUS
<1>1. ASSUME job' = job PROVE SpokeInv'
  BY <1>1 DEF SpokeInv, SpeaksFor, matches, Holds, Get, Speaks, HasText
<1>2. CASE Render
  <2>1. PICK b \in First(job.left) : Skip(b) \/ Sound(b) \/ Fail(b)
    BY <1>2 DEF Render
  <2>2. job # NoJob /\ b \in job.left /\ JobInv
    BY <1>2 DEF Render, First, IInv
  <2>3. CASE Skip(b) \/ Fail(b)
    <3>1. Leave(b, {})
      BY <2>3 DEF Skip, Fail
    <3> QED
      BY <2>2, <3>1, LeaveKeepsSpoken
  <2>4. CASE Sound(b)
    <3>1. CASE Speaks(b, job.event.payload)
      <4>1. Leave(b, {b}) /\ SpeaksFor(b, job.event)
        BY <2>2, <2>4, <3>1 DEF Sound, Renderable, SpeaksFor, SpokeInv
      <4> QED
        BY <2>2, <4>1, LeaveKeepsSpoken
    <3>2. CASE ~Speaks(b, job.event.payload)
      <4>1. Leave(b, {})
        BY <2>4, <3>2 DEF Sound
      <4> QED
        BY <2>2, <4>1, LeaveKeepsSpoken
    <3> QED
      BY <3>1, <3>2
  <2> QED
    BY <2>1, <2>3, <2>4
<1>3. CASE \E event \in Events : OtherPublishes(event)
  BY <1>3, PublishSpeaksNothing DEF OtherPublishes
<1>4. CASE \E id \in Registered \cup {"unknown"} : TtsUse(id)
  BY <1>4, PublishSpeaksNothing DEF TtsUse, Help, Says
<1>5. ASSUME NEW param, TtsSet(param) PROVE SpokeInv'
  <2>1. CASE Takes(param)
    BY <1>5, <2>1, PublishSpeaksNothing DEF TtsSet, Help, Says
  <2>2. CASE ~Takes(param)
    BY <1>1, <1>5, <2>2 DEF TtsSet
  <2> QED
    BY <2>1, <2>2
<1>6. ASSUME NEW level, SetVerbosity(level) PROVE SpokeInv'
  BY <1>6, PublishSpeaksNothing DEF SetVerbosity
<1>7. CASE OpenSettings \/ SaveSettings \/ CloseSettings \/ \E id \in Editable : EditSettings(id)
  BY <1>7, PublishSpeaksNothing DEF OpenSettings, SaveSettings, CloseSettings, EditSettings, Says
<1>8. CASE Resubscribe
  BY <1>8, PublishSpeaksNothing DEF Resubscribe, Says
<1>9. CASE ReloadBank
  <2>1. CASE file \in {NoBank, Corrupt} \/ editor # NoBank
    BY <1>9, <2>1, PublishSpeaksNothing DEF ReloadBank, Help, Says
  <2>2. CASE ~(file \in {NoBank, Corrupt} \/ editor # NoBank)
    <3>1. Says("bank.reloaded", subscribed', bank')
      BY <1>9, <2>2 DEF ReloadBank, reload_from_disk
    <3> QED
      BY <3>1, PublishSpeaksNothing DEF Says
  <2> QED
    BY <2>1, <2>2
<1>10. CASE ReplayNarration \/ FileChanges \/ \E id \in Editable : CommitQuickEdit(id)
  BY <1>1, <1>10 DEF ReplayNarration, FileChanges, CommitQuickEdit
<1>11. CASE UNCHANGED vars
  BY <1>1, <1>11 DEF vars
<1> QED
  BY <1>2, <1>3, <1>4, <1>5, <1>6, <1>7, <1>8, <1>9, <1>10, <1>11 DEF Next

\* If the bindings that speak for one event exclude each other, then no event is
\* spoken twice, however the bank, the ceiling and the speech engine are changed
\* while its bindings are rendered, and whichever of them fail.
THEOREM SpokenOnce ==
  ASSUME Exclusive PROVE Spec => []OneVoice
<1>1. Init => SpokeInv
  BY DEF Init, SpokeInv
<1>2. IInv /\ SpokeInv /\ [Next]_vars => SpokeInv'
  BY SpokenStep
<1>3. IInv /\ SpokeInv => OneVoice
  <2> SUFFICES ASSUME IInv, SpokeInv, job # NoJob PROVE Cardinality(job.spoke) <= 1
    BY DEF OneVoice
  <2>1. job.event \in Published
    BY DEF IInv, JobInv, Jobs
  <2>2. \A b, c \in job.spoke : b = c
    BY <2>1 DEF SpokeInv, Exclusive
  <2>3. CASE job.spoke = {}
    BY <2>3, FS_EmptySet
  <2>4. CASE job.spoke # {}
    <3>1. PICK b : job.spoke = {b}
      BY <2>2, <2>4
    <3>2. Cardinality({b}) = 1
      BY FS_Singleton
    <3> QED
      BY <3>1, <3>2
  <2> QED
    BY <2>3, <2>4
<1> QED
  BY <1>1, <1>2, <1>3, Invariance, PTL DEF Spec
=============================================================================
