------------------------------ MODULE Excerpt -----------------------------
(***************************************************************************)
(* The end of what a command wrote to stderr, as the check-in carries it   *)
(* (cli/stderr-tail.ts, ping/body.ts).  The output arrives in chunks of    *)
(* bytes that part characters wherever the pipe parts them; a ring keeps   *)
(* as much of its end as may be needed, with secrets replaced.  No state.  *)
(*                                                                         *)
(* A byte is the number of bytes of the character it leads, or 0 if it     *)
(* continues one; or it is a character of a secret or of what replaces it, *)
(* all of one byte.  One pattern stands for all of them: an anchor and the *)
(* material behind it, as far as that goes, replaced together.            *)
(***************************************************************************)
EXTENDS Integers, SequencesExt

CONSTANTS
  BodyCap, Marker,  \* PING_BODY_CAP_BYTES, the bytes of the truncation marker
  Reach, Slack,     \* REDACTION_REACH_BYTES, COMPACTION_SLACK_BYTES
  Redaction         \* the bytes of what replaces a secret

ASSUME ExcerptAssumption ==
  {BodyCap, Marker, Reach, Slack, Redaction} \subseteq Nat /\ Marker < BodyCap

Anchor   == 5
Material == 6
Hidden   == 7  \* a byte of the replacement

Width(lead) == IF lead \in 1..4 THEN lead ELSE 1

Continues(byte) == byte = 0

\* The last character is dropped if the bytes end before it does.
WithoutTrailingPartial(bytes) ==
  LET leads == {i \in DOMAIN bytes : ~Continues(bytes[i])}
      start == CHOOSE i \in leads : \A k \in leads : k <= i
  IN  IF leads # {} /\ start + Width(bytes[start]) - 1 > Len(bytes)
        THEN SubSeq(bytes, 1, start - 1)
        ELSE bytes

\* So is what is left of the first, if its lead was cut off.
WithoutLeadingPartial(bytes) ==
  LET cut == Cardinality({i \in DOMAIN bytes : \A k \in 1..i : Continues(bytes[k])})
  IN  SubSeq(bytes, cut + 1, Len(bytes))

LastBytes(bytes, n) == IF Len(bytes) <= n THEN bytes ELSE SubSeq(bytes, Len(bytes) - n + 1, Len(bytes))

\* truncateBody: <<bytes, whether the marker was put to it>>.
TruncateBody(body, mode) ==
  LET budget == BodyCap - Marker
  IN  IF Len(body) <= BodyCap THEN <<body, FALSE>>
      ELSE IF mode = "tail" THEN <<WithoutLeadingPartial(LastBytes(body, budget)), TRUE>>
      ELSE <<WithoutTrailingPartial(SubSeq(body, 1, budget)), TRUE>>

-----------------------------------------------------------------------------
(* The replacement of secrets.                                              *)

\* Where a pattern matches: an anchor and all the material behind it.
Secrets(bytes) ==
  LET At(char) == {i \in DOMAIN bytes : bytes[i] = char}
  IN  {m \in At(Anchor) \X At(Material) :
         /\ m[1] < m[2]
         /\ \A k \in m[1] + 1..m[2] : bytes[k] = Material
         /\ m[2] < Len(bytes) => bytes[m[2] + 1] # Material}

Replaced(bytes, matches) ==
  FlattenSeq([i \in DOMAIN bytes |->
    CASE \E m \in matches : m[1] = i          -> [k \in 1..Redaction |-> Hidden]
      [] \E m \in matches : i \in m[1] + 1..m[2] -> <<>>
      [] OTHER                               -> <<bytes[i]>>])

RedactSecrets(bytes) == Replaced(bytes, Secrets(bytes))

\* The body of a check-in: redacted first, then cut.
WireBody(body, mode) == TruncateBody(RedactSecrets(body), mode)

\* The length of what is decoded, in units of UTF-16: a character of four bytes
\* is two, and each byte of a first one whose lead is missing is decoded alone.
Units(bytes) ==
  LET Leads(S) == Cardinality({i \in DOMAIN bytes : bytes[i] \in S})
  IN  Leads(1..Hidden) + Leads({4}) + Len(bytes) - Len(WithoutLeadingPartial(bytes))

\* Mutant: a secret is replaced before all of it has been written.
RedactAtOnce(bytes, live) == RedactSecrets(bytes)

\* A match that ends in the last `live` units is left: it may not be over.
RedactSettled(bytes, live) ==
  Replaced(bytes, {m \in Secrets(bytes) : Units(SubSeq(bytes, 1, m[2])) <= Units(bytes) - live})

-----------------------------------------------------------------------------
(* The ring.                                                                *)

KeepBytes(budget) == budget + Reach
Ceiling(budget)   == KeepBytes(budget) + Slack

\* compact: of the whole characters the settled secrets are replaced and the end
\* kept, the bytes of the one still arriving put back behind them.
Compact(held, budget) ==
  LET complete == WithoutTrailingPartial(held)
      pending  == SubSeq(held, Len(complete) + 1, Len(held))
      done     == RedactSettled(complete, Units(LastBytes(complete, Reach)) + 4)
  IN  WithoutLeadingPartial(LastBytes(done, KeepBytes(budget))) \o pending

Push(held, chunk, budget) ==
  LET now == held \o chunk
  IN  IF budget = 0 THEN held
      ELSE IF Len(now) > Ceiling(budget) THEN Compact(now, budget) ELSE now

\* What the ring holds when the chunks have been pushed.
Held(chunks, budget) == FoldLeft(LAMBDA held, chunk : Push(held, chunk, budget), <<>>, chunks)

\* text()
TextOf(held, budget) ==
  IF budget = 0 THEN <<>>
  ELSE WithoutLeadingPartial(LastBytes(RedactSecrets(WithoutTrailingPartial(held)), budget))

=============================================================================
