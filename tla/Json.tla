-------------------------------- MODULE Json --------------------------------
(***************************************************************************)
(* bowst-venue: the JSON pull reader of the venue decoders (json.rs).  A   *)
(* caller walks a document: it skips a value, reads it as the type it      *)
(* wants, or opens it and loops over its members.  skip itself is such a   *)
(* caller, so `inside`, the containers whose loops are running, stands for *)
(* its recursion as well as for the loops of a decoder.                    *)
(*                                                                         *)
(* A document is a sequence of tokens; white space is left out.  A string  *)
(* is plain ("str") or has a backslash ("esc"), before whatever byte;      *)
(* "uint" fits a u64, "other" is any other number or null, and "run" is    *)
(* what the reader takes for a number though JSON does not: a run of the   *)
(* characters of numbers, like 1-2, 01 or a lone minus.  "bad" is anything *)
(* else: an unknown byte, a control character in a string.  The reader     *)
(* never looks past the token at hand, so the document is written as it is *)
(* read.                                                                   *)
(***************************************************************************)
EXTENDS Integers, Sequences, SequencesExt

CONSTANTS
  MaxDepth,     \* MAX_DEPTH
  MaxTokens     \* bound on a document

ASSUME JsonAssumption == {MaxDepth, MaxTokens} \subseteq Nat

VARIABLES
  document,    \* Reader::buf, as far as it was looked at
  whole,       \* no token follows
  pos,         \* Reader::pos, in tokens
  depth,       \* Reader::depth
  afterValue,  \* Reader::after_value
  inside,      \* the containers the caller is in
  expects,     \* what the caller reads next: "value", "member", "key", "colon" or "end"
  outcome      \* "", "ok", or the error that ended the walk

jsonVars == <<document, whole, pos, depth, afterValue, inside, expects, outcome>>

\* What skip_string, literal and skip_number find an end of.  Only that: neither the
\* escape nor the shape of the number is looked at.
Scalars == {"str", "esc", "uint", "bool", "other", "run"}
Tokens == Scalars \cup {"{", "}", "[", "]", ",", ":", "bad"}

\* Reader::new
JsonInit ==
  /\ document = <<>> /\ whole = FALSE
  /\ pos = 0 /\ depth = 0 /\ afterValue = FALSE
  /\ inside = <<>> /\ expects = "value" /\ outcome = ""

\* The document goes on, or ends, where the reader is.
WriteNext ==
  /\ outcome = "" /\ ~ whole /\ pos = Len(document)
  /\ \/ /\ Len(document) < MaxTokens
        /\ \E t \in Tokens : document' = Append(document, t)
        /\ UNCHANGED whole
     \/ whole' = TRUE /\ UNCHANGED document
  /\ UNCHANGED <<pos, depth, afterValue, inside, expects, outcome>>

Reading(what) == outcome = "" /\ (whole \/ pos < Len(document)) /\ expects = what

\* peek, "" at the end
Peek == IF pos < Len(document) THEN document[pos + 1] ELSE ""

\* Every error ends the walk; unexpected() tells the end of the input from a wrong byte.
Fail(error) ==
  /\ outcome' = IF Peek = "" THEN "UnexpectedEnd" ELSE error
  /\ UNCHANGED <<document, whole, pos, depth, afterValue, inside, expects>>

Advance(then) ==
  /\ pos' = pos + 1
  /\ expects' = then
  /\ UNCHANGED <<document, whole, outcome>>

\* What the caller reads after a value in these containers.
AfterValueIn(containers) == IF containers = <<>> THEN "end" ELSE "member"

-----------------------------------------------------------------------------
(* Values *)

\* begin_object and begin_array, by a decoder or by skip
Enter ==
  /\ Reading("value") /\ Peek \in {"{", "["}
  /\ IF depth >= MaxDepth
     THEN Fail("TooDeep")
     ELSE /\ Advance("member")
          /\ depth' = depth + 1
          /\ afterValue' = FALSE
          /\ inside' = Append(inside, Peek)

\* A value that str, str_bytes, u64, bool, or skip with skip_string, literal and
\* skip_number, has read
ValueRead ==
  /\ Advance(AfterValueIn(inside))
  /\ afterValue' = TRUE
  /\ UNCHANGED <<depth, inside>>

\* skip of a value that is not a container
Skip ==
  /\ Reading("value") /\ Peek \notin {"{", "["}
  /\ IF Peek \in Scalars THEN ValueRead ELSE Fail("Unexpected")

\* The caller wants a string, an integer or a boolean.
ReadStr ==
  /\ Reading("value")
  /\ IF Peek = "str" THEN ValueRead
     ELSE Fail(IF Peek = "esc" THEN "EscapedString" ELSE "NotThisType")

ReadU64 ==
  /\ Reading("value")
  /\ IF Peek = "uint" THEN ValueRead
     ELSE /\ outcome' = "NotThisType"
          /\ UNCHANGED <<document, whole, pos, depth, afterValue, inside, expects>>

ReadBool ==
  /\ Reading("value")
  /\ IF Peek = "bool" THEN ValueRead ELSE Fail("NotThisType")

-----------------------------------------------------------------------------
(* Members: next_key and next_element, which begin with next_member *)

Closing == IF Last(inside) = "{" THEN "}" ELSE "]"

\* Mutant: a closed container does not count as a value.
LeaveUnmarked ==
  /\ Reading("member") /\ Peek = Closing
  /\ Advance(AfterValueIn(Front(inside)))
  /\ depth' = depth - 1
  /\ inside' = Front(inside)
  /\ UNCHANGED afterValue

\* leave
Leave ==
  /\ Reading("member") /\ Peek = Closing
  /\ Advance(AfterValueIn(Front(inside)))
  /\ depth' = depth - 1
  /\ inside' = Front(inside)
  /\ afterValue' = TRUE

\* next_member: a comma comes before every member but the first.
NextMember ==
  /\ Reading("member") /\ Peek # Closing
  /\ LET then == IF Last(inside) = "{" THEN "key" ELSE "value"
     IN  IF ~ afterValue
           THEN expects' = then /\ UNCHANGED <<document, whole, pos, outcome>>
         ELSE IF Peek = "," THEN Advance(then)
         ELSE Fail("Unexpected")
  /\ UNCHANGED <<depth, afterValue, inside>>

\* next_key: the key, with str
ReadKey ==
  /\ Reading("key")
  /\ IF Peek = "str"
     THEN Advance("colon") /\ afterValue' = FALSE /\ UNCHANGED <<depth, inside>>
     ELSE Fail(IF Peek = "esc" THEN "EscapedString" ELSE "Unexpected")

ReadColon ==
  /\ Reading("colon")
  /\ IF Peek = ":"
     THEN Advance("value") /\ UNCHANGED <<depth, afterValue, inside>>
     ELSE Fail("Unexpected")

\* finish
Finish ==
  /\ Reading("end")
  /\ outcome' = IF depth # 0 THEN "UnexpectedEnd" ELSE IF Peek # "" THEN "Unexpected" ELSE "ok"
  /\ UNCHANGED <<document, whole, pos, depth, afterValue, inside, expects>>

JsonNext ==
  \/ WriteNext \/ Enter \/ Skip \/ ReadStr \/ ReadU64 \/ ReadBool
  \/ Leave \/ NextMember \/ ReadKey \/ ReadColon \/ Finish

-----------------------------------------------------------------------------

\* The structure of JSON, with plain keys: the values, the comma-separated elements and
\* the comma-separated members of n tokens that nest at most d deep.
Grammar[what \in {"value", "elements", "members"}, n \in 0 .. MaxTokens, d \in 0 .. MaxDepth] ==
  CASE what = "value" ->
         (IF n = 1 THEN {<<t>> : t \in Scalars} ELSE {})
           \cup (IF n = 2 /\ d > 0 THEN {<<"{", "}">>, <<"[", "]">>} ELSE {})
           \cup (IF n > 2 /\ d > 0
                 THEN {<<"{">> \o m \o <<"}">> : m \in Grammar["members", n - 2, d - 1]}
                        \cup {<<"[">> \o e \o <<"]">> : e \in Grammar["elements", n - 2, d - 1]}
                 ELSE {})
    [] what = "elements" ->
         Grammar["value", n, d] \cup
           UNION {{a \o <<",">> \o b : a \in Grammar["value", k, d],
                                       b \in Grammar["elements", n - 1 - k, d]} : k \in 1 .. n - 2}
    [] what = "members" ->
         (IF n > 2 THEN {<<"str", ":">> \o v : v \in Grammar["value", n - 2, d]} ELSE {}) \cup
           UNION {{<<"str", ":">> \o a \o <<",">> \o b : a \in Grammar["value", k, d],
                                                         b \in Grammar["members", n - 3 - k, d]} :
                  k \in 1 .. n - 4}

Documents == UNION {Grammar["value", n, MaxDepth] : n \in 1 .. MaxTokens}

Beginnings == UNION {{SubSeq(g, 1, n) : n \in 0 .. Len(g)} : g \in Documents}

\* The reader validates "commas, colons, nesting and string termination" (json.rs:7-8)
\* exactly, though it keeps one flag for all containers and no stack: a walk that ends
\* well has seen a document of JSON's structure, and one that ends badly has seen the
\* beginning of none, but for the keys, types and depth it does not take.  It is the
\* structure only: a skipped value may be a number or have an escape that JSON does not
\* know (json.rs:351-381).
AcceptsTheGrammar ==
  /\ outcome = "ok" => document \in Documents
  /\ outcome = "Unexpected" => document \notin Beginnings
  /\ outcome = "UnexpectedEnd" => document \notin Documents
  /\ outcome = "TooDeep" => document \notin Beginnings

=============================================================================
