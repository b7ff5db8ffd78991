--------------------------- MODULE MCSoundEngine ---------------------------
EXTENDS SoundEngine, DefaultBank, TLC

\* Of the default bank the bindings of a few events, and a binding of the
\* user's with a predicate the grammar does not have.
MCTypes == {"command.completed", "command.failed", "output.chunk", "command.queued",
            "bank.reloaded", "verbosity.changed", "event_log.quick_edit.committed"}

MCBindings ==
  {b \in DefaultBindings : b.on \in MCTypes} \cup
    {When(Binding("mine", "command.failed", "alert", None, "words", 10),
          Only("exit_code", "<", "2"))}

Other(type, payload) == [type |-> type, source |-> "other", payload |-> payload]

MCEvents ==
  {Other("command.completed", [exit_code |-> code]) : code \in {"0", "1"}}
    \cup {Other("command.failed", [timed_out |-> t]) : t \in {"True", "False"}}
    \cup {Other("output.chunk", [line |-> l]) : l \in {"", "text"}}
    \cup {Other("command.queued", [cell_id |-> "c1"])}

MCPriority == <<"espeak-ng", "tone">>

MCAccepts == ("espeak-ng" :> {"speed"}) @@ ("tone" :> {"rate", "speed"})

MCOnDisk == {[off |-> {}, level |-> "normal"], [off |-> {"output_chunk"}, level |-> "minimal"],
             NoBank, Corrupt}

\* The default bank speaks each of these events with one binding at most.
ASSUME DefaultIsExclusive == Exclusive
=============================================================================
