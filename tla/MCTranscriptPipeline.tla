------------------------ MODULE MCTranscriptPipeline ------------------------
(* TranscriptPipeline for TLC: a text of two chunks and one of one chunk. *)
EXTENDS TranscriptPipeline

Long == {<<0, "long">>, <<1, "long">>}
Short == {<<0, "short">>}

MCTexts == {Long, Short}

MCSubmissions == {[text |-> Long, source |-> "platform"], [text |-> Short, source |-> "stt"],
                  [text |-> EmptyText, source |-> "platform"]}
=============================================================================
