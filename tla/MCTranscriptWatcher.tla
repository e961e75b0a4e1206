------------------------ MODULE MCTranscriptWatcher ------------------------
(* Model-checking instances of TranscriptWatcher. *)
EXTENDS TranscriptWatcher

Adapter(h, c, z) == [headerCwd |-> h, cumulative |-> c, zstd |-> z]

\* claude and qwen repeat the cwd in every record; copilot and codex write it in
\* a session header, and codex's counters are cumulative; dsh compresses.
LineAdapters   == {Adapter(FALSE, FALSE, FALSE), Adapter(FALSE, TRUE, FALSE)}
HeaderAdapters == {Adapter(TRUE, FALSE, FALSE), Adapter(TRUE, TRUE, FALSE)}
FrameAdapters  == {Adapter(TRUE, FALSE, TRUE)}
AllAdapters    == LineAdapters \cup HeaderAdapters \cup FrameAdapters
=============================================================================
