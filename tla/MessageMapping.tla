--------------------------- MODULE MessageMapping ---------------------------
(***************************************************************************)
(* From A2A messages to Codex (src/internal/service/executor.go): the      *)
(* input of a turn and the answer to a question.  A message is a sequence  *)
(* of parts.  A word stands for itself in any case and with any space      *)
(* around it; formatting of data as JSON is left out.                      *)
(***************************************************************************)
EXTENDS Integers, Sequences, FiniteSets, FiniteSetsExt

NilPart == [type |-> "nil"]
Text(words) == [type |-> "text", text |-> words]
Data(fields) == [type |-> "data", value |-> "object", fields |-> fields]
OtherData(value) == [type |-> "data", value |-> value]     \* a list, a string, null
File(url, media) == [type |-> "url", url |-> url, media |-> media]
Raw == [type |-> "raw"]

Blank == {"", " "}

----------------------------------------------------------------------------
(* The input of a turn.                                                    *)

Skipped(part) == part.type = "nil" \/ (part.type = "text" /\ part.text \in Blank)
IsText(part) == part.type = "data" \/ (part.type = "text" /\ part.text \notin Blank)
IsImage(part) == part.type = "url" /\ part.url # "" /\ part.media \in {"", "image"}

Image(part) == [type |-> "image", url |-> part.url]

(* The elements of a sequence at some of its places, in their order.       *)
Rank(places, n) == Cardinality({m \in places : m <= n})
Selected(seq, places) ==
  [k \in 1 .. Cardinality(places) |-> seq[CHOOSE n \in places : Rank(places, n) = k]]

Texts(msg) == {n \in DOMAIN msg : IsText(msg[n])}
Images(msg) == {n \in DOMAIN msg : IsImage(msg[n])}

(* All text and data, joined, in front of the images.                      *)
TextInput(msg) ==
  IF Texts(msg) = {} THEN <<>> ELSE <<[type |-> "text", parts |-> Selected(msg, Texts(msg))]>>
ImageInputs(msg) ==
  [k \in 1 .. Cardinality(Images(msg)) |-> Image(Selected(msg, Images(msg))[k])]

(* Mutant: a text makes the message a text message.                        *)
CodexInputsTextOnly(msg) ==
  IF TextInput(msg) # <<>> THEN TextInput(msg) ELSE ImageInputs(msg)

CodexInputs(msg) == TextInput(msg) \o ImageInputs(msg)

(* One part that is not understood spoils the message, and so does a       *)
(* message that says nothing.                                              *)
Understood(msg) ==
  /\ \A i \in DOMAIN msg : Skipped(msg[i]) \/ IsText(msg[i]) \/ IsImage(msg[i])
  /\ CodexInputs(msg) # <<>>

----------------------------------------------------------------------------
(* The answer to a question: a set that is empty when the reply is refused.*)

Approvals == {"command", "file"}
QuestionKinds == Approvals \cup {"elicitation"}

Answer(verdict, content) == [verdict |-> verdict, content |-> content]
NoContent == "null"

(* A structured reply decides alone: a text beside it is not looked at.    *)
DataResponse(fields, kind) ==
  LET field == IF kind \in Approvals THEN "decision" ELSE "action"
      content == IF kind = "elicitation" /\ "content" \in DOMAIN fields
                   THEN fields["content"] ELSE NoContent
  IN  IF field \in DOMAIN fields THEN {Answer(fields[field], content)} ELSE {}

Words(kind) ==
  IF kind \in Approvals
    THEN [accept  |-> {"accept", "approve", "approved", "yes", "y"},
          decline |-> {"decline", "deny", "reject", "no", "n"},
          cancel  |-> {"cancel"}]
    ELSE [decline |-> {"decline"}, cancel |-> {"cancel"}]
TextResponse(word, kind) ==
  {Answer(v, NoContent) : v \in {v \in DOMAIN Words(kind) : word \in Words(kind)[v]}}

Objects(msg) == {i \in DOMAIN msg : msg[i].type = "data" /\ msg[i].value = "object"}
Spoken(msg) == {i \in DOMAIN msg : msg[i].type = "text" /\ msg[i].text \notin Blank}

(* Texts are joined, so that two of them are no word anybody knows.        *)
SpokenResponse(msg, kind) ==
  UNION {TextResponse(msg[i].text, kind) : i \in {i \in Spoken(msg) : Spoken(msg) = {i}}}

(* Mutant: only the first part of the reply is looked at for a structure.  *)
ResponseToFirstPart(msg, kind) ==
  IF msg # <<>> /\ msg[1].type = "data" /\ msg[1].value = "object" THEN {}
  ELSE SpokenResponse(msg, kind)

ResponseForPending(msg, kind) ==
  IF Objects(msg) # {} THEN DataResponse(msg[Min(Objects(msg))].fields, kind)
  ELSE SpokenResponse(msg, kind)

----------------------------------------------------------------------------
(* What the two functions are for, said without them.                      *)

(* Every part that says something is in the input exactly once, and parts  *)
(* of one type keep their order (executor.go:366-413).                     *)
Unfolded(input) ==
  LET first == input[1] IN
    IF first.type = "image" THEN input
    ELSE first.parts \o SubSeq(input, 2, Len(input))
Carries(input, msg) ==
  LET says == {i \in DOMAIN msg : ~ Skipped(msg[i])}
      all == Unfolded(input)
      Carried(part) == IF part.type = "url" THEN Image(part) ELSE part
  IN  \E at \in [says -> DOMAIN all] :
        /\ {at[i] : i \in says} = DOMAIN all /\ Cardinality(says) = Len(all)
        /\ \A i \in says : all[at[i]] = Carried(msg[i])
        /\ \A i, j \in says :
             i < j /\ (msg[i].type = "url" <=> msg[j].type = "url") => at[i] < at[j]

(* The replies README.md:174-176 tells users to send, with what they mean. *)
DocumentedWords ==
  [command |-> {"accept", "decline", "cancel"}, file |-> {"accept", "decline"},
   elicitation |-> {"decline", "cancel"}]
Documented(msg, kind) ==
  IF Len(msg) # 1 THEN {}
  ELSE IF msg[1].type = "text"
         THEN {Answer(w, NoContent) : w \in DocumentedWords[kind] \cap {msg[1].text}}
  ELSE IF Objects(msg) = {} THEN {}
  ELSE LET fields == msg[1].fields IN
         IF kind \in Approvals /\ DOMAIN fields = {"decision"}
           THEN {Answer(fields["decision"], NoContent)}
         ELSE IF kind = "elicitation" /\ DOMAIN fields = {"action", "content"}
           THEN {Answer(fields["action"], fields["content"])}
         ELSE {}
=============================================================================
