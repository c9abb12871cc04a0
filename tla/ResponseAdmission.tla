-------------------------- MODULE ResponseAdmission --------------------------
(***************************************************************************)
(* core/response_admission.py and core/content_sniffing.py: what the       *)
(* headers of a response, and then the bytes read of it, must look like.   *)
(*                                                                         *)
(* A body is a sequence of these symbols:                                  *)
(*   "a"            a printable character of one byte                      *)
(*   "blank"        what _strip_leading_text_whitespace takes off; as text *)
(*                  it is a control character of those allowed, or a space *)
(*   "lead" "cont"  the two bytes of a character outside ASCII             *)
(*   "nul"          any other control character                            *)
(*   "html"         <html                                                  *)
(*   "mark"         what else a document of the declared type begins with: *)
(*                  %PDF- or another of the HTML prefixes                  *)
(* The 512 bytes within which <html may come late are not counted.         *)
(***************************************************************************)
EXTENDS Integers, Sequences, SequencesExt

Symbols == {"a", "blank", "lead", "cont", "nul", "html", "mark"}
MediaTypes == {"application/pdf", "text/html", "text/plain"}

\* normalize_content_type: parameters and letter case do not matter, and a header
\* that says nothing is no header.
ContentTypes == MediaTypes \cup {"image/png", "missing"}

\* parse_content_length: -1 stands for a length that is absent, negative or no number.
NoLength == -1

\* validate_declared_content_length, then (parsed previews) validate_allowed_content_type.
DeclaresTooMuch(declared, limit) == declared # NoLength /\ declared > limit
TypeRefused(type, allowed) == type \notin allowed

-----------------------------------------------------------------------------
Stripped(body) ==
    LET solid == {i \in DOMAIN body : body[i] # "blank"}
    IN  IF solid = {} THEN <<>> ELSE SubSeq(body, Min(solid), Len(body))

StartsWithMark(body) == Stripped(body) # <<>> /\ Head(Stripped(body)) = "mark"

LooksLikePdf(body) == StartsWithMark(body)

LooksLikeHtml(body) == StartsWithMark(body) \/ \E i \in DOMAIN body : body[i] = "html"

\* content.decode("utf-8") succeeds: every character has both its bytes.
Decodes(body) ==
    \A i \in DOMAIN body :
        /\ body[i] = "lead" => i < Len(body) /\ body[i + 1] = "cont"
        /\ body[i] = "cont" => i > 1 /\ body[i - 1] = "lead"

\* A slip that takes the line ends for control characters.
TextWithoutControls(body) ==
    Decodes(body) /\ \A i \in DOMAIN body : body[i] \notin {"nul", "blank"}

LooksLikeText(body) ==
    Decodes(body) /\ \A i \in DOMAIN body : body[i] # "nul"

\* validate_content_matches_declared_type.
MatchesType(body, type) ==
    CASE type = "application/pdf" -> LooksLikePdf(body)
      [] type = "text/html" -> LooksLikeHtml(body)
      [] type = "text/plain" -> LooksLikeText(body)
      [] OTHER -> TRUE

=============================================================================
