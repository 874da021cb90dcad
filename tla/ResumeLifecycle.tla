--------------------------- MODULE ResumeLifecycle ---------------------------
(***************************************************************************)
(* What the resume pipeline promises about the COMMITTED columns of the    *)
(* table resumes, whatever workers, retries, crashes and duplicates do:    *)
(* the intermediate values `parsing` and `embedding` are never visible, a  *)
(* parse outcome touches only the parse columns, an embedding outcome      *)
(* touches only the embedding columns, and no resume gets an embedding     *)
(* outcome before some parse of it has succeeded.                          *)
(***************************************************************************)

CONSTANT Resumes

VARIABLES
  row,        \* the committed row of each resume
  everParsed  \* the resumes a parse of which has been committed as parsed

vars == <<row, everParsed>>

\* ResumeStatus and EmbeddingStatus; "absent" before the row is committed.
ResumeStatus == {"absent", "uploaded", "parsing", "parsed", "parse_failed"}
EmbeddingStatus == {"not_embedded", "embedding", "embedded", "embed_failed"}

\* The nullable columns, up to what the pipeline tells apart: null is None
\* (SQL NULL or JSON null), empty a falsy extraction ({} or []).
Data == {"null", "empty", "fields"}
Error == {"null", "text"}

Row == [status : ResumeStatus, parsed_data : Data, parse_error : Error,
        embedding_status : EmbeddingStatus, embedding_error : Error]

Absent == [status |-> "absent", parsed_data |-> "null", parse_error |-> "null",
           embedding_status |-> "not_embedded", embedding_error |-> "null"]

Uploaded == [Absent EXCEPT !.status = "uploaded"]

\* The columns each of the two tasks writes.
ParseOutcome(resume, status, data, error) ==
  [resume EXCEPT !.status = status, !.parsed_data = data, !.parse_error = error]
EmbedOutcome(resume, status, error) ==
  [resume EXCEPT !.embedding_status = status, !.embedding_error = error]

Init ==
  /\ row = [r \in Resumes |-> Absent]
  /\ everParsed = {}

Submit(r) ==
  /\ row[r] = Absent
  /\ row' = [row EXCEPT ![r] = Uploaded]
  /\ UNCHANGED everParsed

Parse(r) ==
  /\ row[r].status # "absent"
  /\ \E status \in {"parsed", "parse_failed"}, data \in Data, error \in Error :
       /\ row' = [row EXCEPT ![r] = ParseOutcome(row[r], status, data, error)]
       /\ status = "parse_failed" => data = row[r].parsed_data
       /\ everParsed' = IF status = "parsed" THEN everParsed \cup {r} ELSE everParsed

Embed(r) ==
  /\ r \in everParsed
  /\ \E status \in {"embedded", "embed_failed"}, error \in Error :
       row' = [row EXCEPT ![r] = EmbedOutcome(row[r], status, error)]
  /\ UNCHANGED everParsed

Next == \E r \in Resumes : Submit(r) \/ Parse(r) \/ Embed(r)

Spec == Init /\ [][Next]_vars
=============================================================================
