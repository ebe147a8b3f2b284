-------------------------- MODULE TurnContentProofs --------------------------
(* Theorems about the turns of a task, for any items, questions, messages,   *)
(* command lines, numbers of pieces and turns: the input of a turn is what   *)
(* the user said, artifacts show what Codex has streamed, and questions are  *)
(* answered with what the user was told to reply.                            *)
EXTENDS TurnContent, SettingsProofs, FiniteSetTheorems

----------------------------------------------------------------------------
(* The inductive invariant.                                                  *)

ItemNotices == {"started", "delta", "completed"}
Notices ==
  [type : {"started"}, item : Items] \cup [type : {"delta"}, item : Items, piece : Nat]
    \cup [type : {"completed"}, item : Items, whole : Seq(Nat)]
    \cup [type : {"question"}, id : Questions]
    \cup [type : {"ended"}, how : {"completed", "interrupted", "failed"}]
Stages == {"new", "running", "done"}
CodexTypes ==
  /\ item \in [Items -> [kind : Kinds \cup {"none"}, stage : Stages, pieces : 0 .. MaxPieces,
                         whole : Seq(Nat)]]
  /\ turn \in [running : BOOLEAN, number : 0 .. MaxTurns]
  /\ question \in [Questions -> [kind : QuestionKinds \cup {"none", "other"},
                                 stage : {"new", "open", "answered"}]]
QueueTypes == inbox \in Seq(Notices) /\ Len(inbox) <= InboxCap
ArtifactTypes == artifact \in [Items -> [stage : {"none", "running", "done"}, text : Seq(Nat)]]
TaskTypes ==
  /\ flags \in FlagChoices /\ serving \in BOOLEAN
  /\ buffer \in [Items -> Seq(Nat)]
  /\ ArtifactTypes
  /\ pending \in Questions \cup {Nothing}
  /\ status \in {"none", "working", "input-required", "failed", "canceled"}
ContentTypes == CodexTypes /\ QueueTypes /\ TaskTypes

(* A server that has started has a configuration that is valid.              *)
ServingInv == serving => Valid(ConfigOf(flags))

(* A question, once asked, is in one place at a time: unread, held by the    *)
(* runtime, or answered; while the task is alive none is anywhere else.      *)
AsksFor(notice, q) == notice.type = "question" /\ notice.id = q
QuestionInv ==
  /\ \A q \in Questions, n \in DOMAIN inbox : AsksFor(inbox[n], q) =>
       /\ question[q].stage = "open" /\ q # pending
       /\ \A m \in DOMAIN inbox : AsksFor(inbox[m], q) => m = n
  /\ status \in {"none", "working", "input-required"} =>
       \A q \in Open : q = pending \/ \E n \in DOMAIN inbox : AsksFor(inbox[n], q)
  /\ pending # Nothing =>
       /\ status = "input-required"
       /\ question[pending].stage = "open" /\ question[pending].kind \in QuestionKinds
       /\ userInput.id = pending /\ userInput.kind = question[pending].kind

ExchangeInv ==
  exchange # Nothing =>
    /\ exchange.type = "turn" =>
         /\ Carries(exchange.input, exchange.said)
         /\ Obeys(exchange.thread, flags) /\ Obeys(exchange.turn, flags)
    /\ exchange.type = "reply" =>
         /\ Documented(exchange.said, exchange.kind) \subseteq exchange.answers
         /\ exchange.answers = {} => pending # Nothing /\ userInput.note

(* The notices about one item are on their way in the order of its life, and *)
(* its pieces after the first b of them, which have been read, each once.    *)
Tells(notice, i) == notice.type \in ItemNotices /\ notice.item = i
IsStart(notice, i) == notice.type = "started" /\ notice.item = i
IsDelta(notice, i) == notice.type = "delta" /\ notice.item = i
IsEnd(notice, i) == notice.type = "completed" /\ notice.item = i
StartFirst(p, i, b) ==
  \A n \in DOMAIN p : IsStart(p[n], i) =>
    b = 0 /\ \A m \in DOMAIN p : Tells(p[m], i) => n <= m
EndLast(p, i, it) ==
  \A n \in DOMAIN p : IsEnd(p[n], i) =>
    /\ it.stage = "done" /\ p[n].whole = it.whole
    /\ \A m \in DOMAIN p : Tells(p[m], i) => m <= n
PiecesBetween(p, i, b, to) ==
  /\ \A n \in DOMAIN p : IsDelta(p[n], i) => p[n].piece \in b + 1 .. to
  /\ \A m, n \in DOMAIN p : m < n /\ IsDelta(p[m], i) /\ IsDelta(p[n], i) => p[m].piece < p[n].piece
  /\ \A k \in b + 1 .. to : \E n \in DOMAIN p : IsDelta(p[n], i) /\ p[n].piece = k
Silent(p, i) == \A n \in DOMAIN p : ~ Tells(p[n], i)
EndIn(p, i) == \E n \in DOMAIN p : IsEnd(p[n], i)
InOrder(p, i, it, b) ==
  /\ StartFirst(p, i, b) /\ EndLast(p, i, it) /\ PiecesBetween(p, i, b, it.pieces)
  /\ it.stage = "new" => Silent(p, i)
  /\ it.stage = "done" => Silent(p, i) \/ EndIn(p, i)

Count(b) == [n \in 1 .. b |-> n]
LifeOf(it) ==
  /\ it.stage = "new" => it.pieces = 0
  /\ it.stage # "new" => it.kind \in Kinds
  /\ it.stage # "done" => it.whole = <<>>
  /\ it.kind = "mcpToolCall" => it.pieces = 0
  /\ it.whole # <<>> => it.kind \in {"commandExecution", "agentMessage"}
  /\ Len(it.whole) <= MaxPieces + 1
OutputOf(p, i, it, buf, text) ==
  /\ LifeOf(it)
  /\ Len(buf) <= it.pieces /\ buf = Count(Len(buf))
  /\ InOrder(p, i, it, Len(buf))
  /\ text = IF it.stage = "done" /\ ~ EndIn(p, i) THEN FirstNonEmpty(it.whole, Count(it.pieces)) ELSE buf
OutputInv(i) == OutputOf(inbox, i, item[i], buffer[i], artifact[i].text)

ContentInv ==
  ContentTypes /\ ServingInv /\ QuestionInv /\ ExchangeInv /\ \A i \in Items : OutputInv(i)

----------------------------------------------------------------------------
(* The elements of a sequence at some of its places, in their order.         *)

(* Rank numbers the members of a finite set of places upwards from 1.        *)
LEMMA RankCounts ==
  ASSUME NEW places \in SUBSET Nat, IsFiniteSet(places)
  PROVE  /\ \A n \in places : Rank(places, n) \in 1 .. Cardinality(places)
         /\ \A m, n \in places : m < n => Rank(places, m) < Rank(places, n)
         /\ \A k \in 1 .. Cardinality(places) : \E n \in places : Rank(places, n) = k
<1> DEFINE UpTo(n) == {m \in places : m <= n}
<1>1. \A n \in places : IsFiniteSet(UpTo(n)) /\ Cardinality(UpTo(n)) \in 1 .. Cardinality(places)
  <2>1. TAKE n \in places
  <2>2. UpTo(n) \in SUBSET places /\ n \in UpTo(n)
    OBVIOUS
  <2>3. /\ IsFiniteSet(UpTo(n)) /\ Cardinality(UpTo(n)) <= Cardinality(places)
        /\ Cardinality(UpTo(n)) \in Nat /\ Cardinality(places) \in Nat
    BY <2>2, FS_Subset, FS_CardinalityType
  <2>4. Cardinality(UpTo(n)) # 0
    BY <2>2, <2>3, FS_EmptySet
  <2> QED
    BY <2>3, <2>4
<1>2. \A m, n \in places : m < n => Cardinality(UpTo(m)) < Cardinality(UpTo(n))
  <2>1. SUFFICES ASSUME NEW m \in places, NEW n \in places, m < n
                 PROVE  Cardinality(UpTo(m)) < Cardinality(UpTo(n))
    OBVIOUS
  <2> HIDE DEF UpTo
  <2>2. m \in Nat /\ n \in Nat /\ places \subseteq Nat
    OBVIOUS
  <2>3. ~ (n <= m) /\ n <= n /\ \A p \in places : p <= m => p <= n
    BY <2>1, <2>2
  <2>4. UpTo(m) \in SUBSET UpTo(n) /\ UpTo(m) # UpTo(n)
    BY <2>3 DEF UpTo
  <2>5. Cardinality(UpTo(m)) <= Cardinality(UpTo(n)) /\ Cardinality(UpTo(m)) # Cardinality(UpTo(n))
    BY <1>1, <2>4, FS_Subset
  <2> QED
    BY <1>1, <2>5
<1> DEFINE rank == [n \in places |-> Cardinality(UpTo(n))]
           all == 1 .. Cardinality(places)
<1> HIDE DEF UpTo
<1>3. Cardinality(places) \in Nat
  BY FS_CardinalityType
<1>4. rank \in Injection(places, all)
  <2>1. rank \in [places -> all]
    BY <1>1
  <2>2. \A m, n \in places : m # n => rank[m] # rank[n]
    <3>1. TAKE m, n \in places
    <3>2. rank[m] \in all /\ rank[n] \in all /\ (m < n => rank[m] < rank[n]) /\ (n < m => rank[n] < rank[m])
      BY <1>1, <1>2
    <3> QED
      BY <3>2, <1>3
  <2> QED
    BY <2>1, <2>2 DEF Injection, IsInjective
<1>5. IsFiniteSet(all) /\ Cardinality(all) = Cardinality(places)
  BY <1>3, FS_Interval
<1>6. rank \in Surjection(places, all)
  BY <1>4, <1>5, FS_Injection
<1>7. \A k \in all : \E n \in places : rank[n] = k
  BY <1>6 DEF Surjection
<1>8. \A n \in places : Rank(places, n) = rank[n]
  BY DEF Rank, UpTo
<1> QED
  BY <1>1, <1>2, <1>7, <1>8

(* The element that was at a place is now at its rank.                       *)
LEMMA SelectedAtRank ==
  ASSUME NEW seq, NEW places \in SUBSET Nat, IsFiniteSet(places)
  PROVE  /\ DOMAIN Selected(seq, places) = 1 .. Cardinality(places)
         /\ Selected(seq, places) \in Seq({seq[n] : n \in places})
         /\ Len(Selected(seq, places)) = Cardinality(places)
         /\ \A n \in places : Selected(seq, places)[Rank(places, n)] = seq[n]
<1> DEFINE At(k) == CHOOSE n \in places : Rank(places, n) = k
<1>1. Cardinality(places) \in Nat
  BY FS_CardinalityType
<1>2. \A k \in 1 .. Cardinality(places) : At(k) \in places /\ Rank(places, At(k)) = k
  BY RankCounts
<1>3. \A n \in places : At(Rank(places, n)) = n
  <2>1. TAKE n \in places
  <2>2. Rank(places, n) \in 1 .. Cardinality(places)
    BY RankCounts
  <2>3. At(Rank(places, n)) \in places /\ Rank(places, At(Rank(places, n))) = Rank(places, n)
    BY <1>2, <2>2
  <2>4. \A m \in places : Rank(places, m) = Rank(places, n) => m = n
    <3>1. TAKE m \in places
    <3>2. /\ Rank(places, m) \in Nat /\ Rank(places, n) \in Nat
          /\ m < n => Rank(places, m) < Rank(places, n)
          /\ n < m => Rank(places, n) < Rank(places, m)
      BY RankCounts, <1>1
    <3> QED
      BY <3>2
  <2> QED
    BY <2>3, <2>4
<1>4. Selected(seq, places) = [k \in 1 .. Cardinality(places) |-> seq[At(k)]]
  BY DEF Selected
<1> HIDE DEF At
<1>5. \A n \in places : Selected(seq, places)[Rank(places, n)] = seq[n]
  BY <1>3, <1>4, RankCounts
<1>6. /\ Selected(seq, places) \in Seq({seq[n] : n \in places})
      /\ Len(Selected(seq, places)) = Cardinality(places)
  BY <1>1, <1>2, <1>4
<1> QED
  BY <1>4, <1>5, <1>6

LEMMA ConcatFacts ==
  ASSUME NEW S, NEW s \in Seq(S), NEW t \in Seq(S)
  PROVE  /\ s \o t \in Seq(S)
         /\ Len(s \o t) = Len(s) + Len(t) /\ DOMAIN (s \o t) = 1 .. Len(s \o t)
         /\ \A k \in 1 .. Len(s) : (s \o t)[k] = s[k]
         /\ \A k \in 1 .. Len(t) : (s \o t)[Len(s) + k] = t[k]
OBVIOUS

----------------------------------------------------------------------------
(* The input of a turn and the answer to a question.                         *)

(* Text and data, joined, then the images: what a message that is understood *)
(* says is in the input, each part once, in order (executor.go:366-413).     *)
LEMMA InputCarriesMessage ==
  ASSUME NEW msg, Len(msg) \in Nat, DOMAIN msg = 1 .. Len(msg), Understood(msg)
  PROVE  Carries(CodexInputs(msg), msg)
<1> DEFINE texts == Texts(msg)
           images == Images(msg)
           said == Selected(msg, texts)
           seen == Selected(msg, images)
           all == said \o ImageInputs(msg)
           says == {i \in DOMAIN msg : ~ Skipped(msg[i])}
           Carried(part) == IF part.type = "url" THEN Image(part) ELSE part
<1>1. /\ texts \in SUBSET Nat /\ images \in SUBSET Nat
      /\ IsFiniteSet(texts) /\ IsFiniteSet(images)
      /\ Cardinality(texts) \in Nat /\ Cardinality(images) \in Nat
  <2>1. IsFiniteSet(1 .. Len(msg))
    BY FS_Interval
  <2>2. texts \in SUBSET (1 .. Len(msg)) /\ images \in SUBSET (1 .. Len(msg))
    BY DEF Texts, Images
  <2>3. (1 .. Len(msg)) \subseteq Nat
    OBVIOUS
  <2> QED
    BY ONLY <2>1, <2>2, <2>3, FS_Subset, FS_CardinalityType
<1>2. \A part : /\ IsText(part) => part.type # "url" /\ ~ Skipped(part)
                /\ IsImage(part) => part.type = "url" /\ ~ Skipped(part)
  BY DEF IsText, IsImage, Skipped
<1>3. /\ says = texts \cup images /\ texts \cap images = {}
      /\ \A i \in texts : msg[i].type # "url"
      /\ \A i \in images : msg[i].type = "url"
  <2>1. /\ \A i : i \in says <=> i \in DOMAIN msg /\ ~ Skipped(msg[i])
        /\ \A i : i \in texts <=> i \in DOMAIN msg /\ IsText(msg[i])
        /\ \A i : i \in images <=> i \in DOMAIN msg /\ IsImage(msg[i])
        /\ \A i \in DOMAIN msg : Skipped(msg[i]) \/ IsText(msg[i]) \/ IsImage(msg[i])
    BY DEF Texts, Images, Understood
  <2> HIDE DEF says, texts, images
  <2>2. says \subseteq texts \cup images
    BY <2>1
  <2>3. texts \subseteq says /\ images \subseteq says
    BY <1>2, <2>1, Zenon
  <2>4. (\A i \in texts : msg[i].type # "url") /\ (\A i \in images : msg[i].type = "url")
    BY <1>2, <2>1, Zenon
  <2> QED
    BY <2>2, <2>3, <2>4
<1>4. Cardinality(says) = Cardinality(texts) + Cardinality(images)
  <2> HIDE DEF texts, images, says
  <2>1. Cardinality(texts \cup images) = Cardinality(texts) + Cardinality(images) - Cardinality(texts \cap images)
    BY <1>1, FS_Union
  <2>2. Cardinality(texts \cap images) = 0
    BY <1>3, FS_EmptySet
  <2> QED
    BY <1>1, <1>3, <2>1, <2>2
<1>5. /\ said \in Seq({msg[n] : n \in texts}) /\ Len(said) = Cardinality(texts)
      /\ \A n \in texts : said[Rank(texts, n)] = msg[n]
      /\ \A n \in images : seen[Rank(images, n)] = msg[n]
  BY <1>1, SelectedAtRank
<1>6. /\ ImageInputs(msg) \in Seq({Image(seen[k]) : k \in 1 .. Cardinality(images)})
      /\ Len(ImageInputs(msg)) = Cardinality(images)
      /\ \A k \in 1 .. Cardinality(images) : ImageInputs(msg)[k] = Image(seen[k])
  BY <1>1 DEF ImageInputs
<1>7. /\ Len(all) = Cardinality(texts) + Cardinality(images) /\ DOMAIN all = 1 .. Len(all)
      /\ \A k \in 1 .. Cardinality(texts) : all[k] = said[k]
      /\ \A k \in 1 .. Cardinality(images) : all[Cardinality(texts) + k] = ImageInputs(msg)[k]
  <2> DEFINE parts == {msg[n] : n \in texts} \cup {Image(seen[k]) : k \in 1 .. Cardinality(images)}
  <2> HIDE DEF said, texts, images, seen
  <2>1. said \in Seq(parts) /\ ImageInputs(msg) \in Seq(parts)
    BY <1>5, <1>6
  <2> HIDE DEF parts
  <2>2. /\ Len(all) = Len(said) + Len(ImageInputs(msg)) /\ DOMAIN all = 1 .. Len(all)
        /\ \A k \in 1 .. Len(said) : all[k] = said[k]
        /\ \A k \in 1 .. Len(ImageInputs(msg)) : all[Len(said) + k] = ImageInputs(msg)[k]
    BY <2>1, ConcatFacts
  <2> QED
    BY <2>2, <1>5, <1>6
<1>8. Unfolded(CodexInputs(msg)) = all
  <2>1. CASE texts = {}
    <3>1. Cardinality(texts) = 0
      BY <1>1, <2>1, FS_EmptySet
    <3>2. CodexInputs(msg) = ImageInputs(msg)
      BY <2>1, <1>6 DEF CodexInputs, TextInput
    <3>3. ImageInputs(msg) # <<>>
      BY <3>2 DEF Understood
    <3>4. Cardinality(images) >= 1
      <4> HIDE DEF images, seen
      <4> QED
        BY <1>1, <1>6, <3>3
    <3>5. ImageInputs(msg)[1].type = "image"
      <4> HIDE DEF images, seen
      <4> QED
        BY <1>1, <1>6, <3>4 DEF Image
    <3>6. all = ImageInputs(msg)
      <4> HIDE DEF said, texts, images, seen
      <4> QED
        BY <1>5, <1>6, <3>1
    <3> QED
      BY <3>2, <3>5, <3>6 DEF Unfolded
  <2>2. CASE texts # {}
    <3> DEFINE first == [type |-> "text", parts |-> said]
    <3>1. CodexInputs(msg) = <<first>> \o ImageInputs(msg)
      BY <2>2 DEF CodexInputs, TextInput
    <3> HIDE DEF first, said, texts, images, seen
    <3>2. /\ CodexInputs(msg)[1] = first
          /\ SubSeq(CodexInputs(msg), 2, Len(CodexInputs(msg))) = ImageInputs(msg)
      BY <3>1, <1>1, <1>6
    <3>3. first.type = "text" /\ first.parts = said
      BY DEF first
    <3> QED
      BY <3>2, <3>3 DEF Unfolded
  <2> QED
    BY <2>1, <2>2
<1> DEFINE at == [i \in says |-> IF i \in texts THEN Rank(texts, i)
                                 ELSE Cardinality(texts) + Rank(images, i)]
<1> HIDE DEF said, texts, images, seen, all, says
<1>9. /\ \A i \in texts : Rank(texts, i) \in 1 .. Cardinality(texts)
      /\ \A i \in images : Rank(images, i) \in 1 .. Cardinality(images)
      /\ \A i, j \in texts : i < j => Rank(texts, i) < Rank(texts, j)
      /\ \A i, j \in images : i < j => Rank(images, i) < Rank(images, j)
      /\ \A k \in 1 .. Cardinality(texts) : \E i \in texts : Rank(texts, i) = k
      /\ \A k \in 1 .. Cardinality(images) : \E i \in images : Rank(images, i) = k
  BY <1>1, RankCounts
<1>10. /\ \A i \in texts : i \in says /\ at[i] = Rank(texts, i)
       /\ \A i \in images : i \in says /\ at[i] = Cardinality(texts) + Rank(images, i)
  BY <1>3
<1>11. at \in [says -> DOMAIN all]
  <2>1. \A i \in says : at[i] \in 1 .. Cardinality(texts) + Cardinality(images)
    BY <1>1, <1>3, <1>9, <1>10
  <2> QED
    BY <2>1, <1>7
<1>12. {at[i] : i \in says} = DOMAIN all
  <2>1. ASSUME NEW k \in DOMAIN all
        PROVE  \E i \in says : at[i] = k
    <3>1. CASE k \in 1 .. Cardinality(texts)
      BY <3>1, <1>9, <1>10
    <3>2. CASE k \notin 1 .. Cardinality(texts)
      <4>1. /\ k - Cardinality(texts) \in 1 .. Cardinality(images)
            /\ Cardinality(texts) + (k - Cardinality(texts)) = k
        BY <3>2, <1>1, <1>7
      <4>2. PICK i \in images : Rank(images, i) = k - Cardinality(texts)
        BY <4>1, <1>9
      <4>3. i \in says /\ at[i] = k
        BY <4>1, <4>2, <1>10
      <4> QED
        BY <4>3
    <3> QED
      BY <3>1, <3>2
  <2> HIDE DEF at
  <2> QED
    BY <2>1, <1>11
<1>13. \A i \in says : all[at[i]] = Carried(msg[i])
  <2> HIDE DEF at
  <2>1. \A i \in texts : all[at[i]] = Carried(msg[i])
    BY <1>3, <1>5, <1>7, <1>9, <1>10
  <2>2. \A i \in images : all[at[i]] = Carried(msg[i])
    BY <1>3, <1>5, <1>6, <1>7, <1>9, <1>10
  <2> QED
    BY <2>1, <2>2, <1>3
<1>14. ASSUME NEW i \in says, NEW j \in says, i < j, msg[i].type = "url" <=> msg[j].type = "url"
       PROVE  at[i] < at[j]
  <2> HIDE DEF at
  <2>1. (i \in texts /\ j \in texts) \/ (i \in images /\ j \in images)
    BY <1>3, <1>14
  <2>2. CASE i \in texts /\ j \in texts
    BY <2>2, <1>9, <1>10, <1>14
  <2>3. CASE i \in images /\ j \in images
    <3>1. Rank(images, i) \in Nat /\ Rank(images, j) \in Nat /\ Rank(images, i) < Rank(images, j)
      BY <2>3, <1>1, <1>9, <1>14
    <3> QED
      BY <2>3, <3>1, <1>1, <1>10
  <2> QED
    BY <2>1, <2>2, <2>3
<1> HIDE DEF at
<1>15. Cardinality(says) = Len(all)
  BY <1>4, <1>7
<1> QED
  BY <1>8, <1>11, <1>12, <1>13, <1>14, <1>15 DEF Carries, says

(* A reply the documentation tells users to send is understood, as what it   *)
(* says (executor.go:425-473).                                               *)
LEMMA DocumentedRepliesAreUnderstood ==
  ASSUME NEW msg, Len(msg) \in Nat, DOMAIN msg = 1 .. Len(msg), NEW kind \in QuestionKinds
  PROVE  Documented(msg, kind) \subseteq ResponseForPending(msg, kind)
<1>1. SUFFICES ASSUME Len(msg) = 1
               PROVE  Documented(msg, kind) \subseteq ResponseForPending(msg, kind)
  BY DEF Documented
<1>2. DOMAIN msg = {1}
  BY <1>1
<1>3. CASE msg[1].type = "text"
  <2>1. Objects(msg) = {}
    BY <1>2, <1>3 DEF Objects
  <2>2. SUFFICES ASSUME NEW w \in DocumentedWords[kind], w = msg[1].text
                 PROVE  Answer(w, NoContent) \in SpokenResponse(msg, kind)
    BY <1>1, <1>3, <2>1 DEF Documented, ResponseForPending
  <2>3. w \in {"accept", "decline", "cancel"} /\ (kind \notin Approvals => w # "accept")
    BY <2>2 DEF DocumentedWords, QuestionKinds, Approvals
  <2>4. Spoken(msg) = {1}
    BY <1>2, <1>3, <2>2, <2>3 DEF Spoken, Blank
  <2>5. w \in DOMAIN Words(kind) /\ w \in Words(kind)[w]
    BY <2>3 DEF Words
  <2>6. Answer(w, NoContent) \in TextResponse(msg[1].text, kind)
    BY <2>2, <2>5 DEF TextResponse
  <2> QED
    BY <2>4, <2>6 DEF SpokenResponse
<1>4. CASE msg[1].type # "text" /\ Objects(msg) # {}
  <2>1. Objects(msg) = {1}
    BY <1>2, <1>4 DEF Objects
  <2>2. Min(Objects(msg)) = 1
    BY <2>1 DEF Min
  <2>3. ResponseForPending(msg, kind) = DataResponse(msg[1].fields, kind)
    BY <1>4, <2>2 DEF ResponseForPending
  <2> DEFINE fields == msg[1].fields
  <2>4. "elicitation" \notin Approvals
    BY DEF Approvals
  <2>5. Documented(msg, kind) = IF kind \in Approvals /\ DOMAIN fields = {"decision"}
           THEN {Answer(fields["decision"], NoContent)}
         ELSE IF kind = "elicitation" /\ DOMAIN fields = {"action", "content"}
           THEN {Answer(fields["action"], fields["content"])}
         ELSE {}
    BY <1>1, <1>4 DEF Documented
  <2> HIDE DEF fields
  <2>6. CASE kind \in Approvals /\ DOMAIN fields = {"decision"}
    <3>1. DataResponse(fields, kind) = {Answer(fields["decision"], NoContent)}
      BY <2>4, <2>6 DEF DataResponse
    <3> QED
      BY <2>3, <2>5, <2>6, <3>1 DEF fields
  <2>7. CASE kind = "elicitation" /\ DOMAIN fields = {"action", "content"}
    <3>1. DataResponse(fields, kind) = {Answer(fields["action"], fields["content"])}
      BY <2>4, <2>7 DEF DataResponse
    <3> QED
      BY <2>3, <2>4, <2>5, <2>7, <3>1 DEF fields
  <2> QED
    BY <2>5, <2>6, <2>7
<1>5. CASE msg[1].type # "text" /\ Objects(msg) = {}
  BY <1>5 DEF Documented
<1> QED
  BY <1>3, <1>4, <1>5

----------------------------------------------------------------------------
(* Types.                                                                    *)

LEMMA NoticeKinds ==
  /\ \A i \in Items : [type |-> "started", item |-> i] \in Notices
  /\ \A i \in Items, k \in Nat : [type |-> "delta", item |-> i, piece |-> k] \in Notices
  /\ \A i \in Items, w \in Seq(Nat) : [type |-> "completed", item |-> i, whole |-> w] \in Notices
  /\ \A q \in Questions : [type |-> "question", id |-> q] \in Notices
  /\ \A h \in {"completed", "interrupted", "failed"} : [type |-> "ended", how |-> h] \in Notices
  /\ \A x \in Notices :
       /\ x.type \in ItemNotices \cup {"question", "ended"}
       /\ x.type \in ItemNotices => x.item \in Items
       /\ x.type = "delta" => x.piece \in Nat
       /\ x.type = "completed" => x.whole \in Seq(Nat)
       /\ x.type = "question" => x.id \in Questions
BY DEF Notices, ItemNotices

LEMMA AppendFacts ==
  ASSUME NEW S, NEW p \in Seq(S), NEW x \in S
  PROVE  /\ Append(p, x) \in Seq(S) /\ Len(Append(p, x)) = Len(p) + 1
         /\ Len(p) \in Nat /\ DOMAIN p = 1 .. Len(p)
         /\ DOMAIN Append(p, x) = 1 .. Len(p) + 1
         /\ \A n \in DOMAIN p : Append(p, x)[n] = p[n]
         /\ Append(p, x)[Len(p) + 1] = x
OBVIOUS

LEMMA TailFacts ==
  ASSUME NEW S, NEW p \in Seq(S), p # <<>>
  PROVE  /\ Head(p) \in S /\ Head(p) = p[1] /\ 1 \in DOMAIN p
         /\ Tail(p) \in Seq(S) /\ Len(Tail(p)) = Len(p) - 1
         /\ Len(p) \in Nat \ {0} /\ DOMAIN p = 1 .. Len(p)
         /\ DOMAIN Tail(p) = 1 .. Len(p) - 1
         /\ \A n \in DOMAIN Tail(p) : n + 1 \in DOMAIN p /\ Tail(p)[n] = p[n + 1]
         /\ \A n \in DOMAIN p \ {1} : n - 1 \in DOMAIN Tail(p) /\ Tail(p)[n - 1] = p[n]
<1>1. Len(p) \in Nat \ {0} /\ DOMAIN p = 1 .. Len(p) /\ \A n \in DOMAIN p : p[n] \in S
  OBVIOUS
<1>2. Tail(p) \in Seq(S) /\ Len(Tail(p)) = Len(p) - 1 /\ DOMAIN Tail(p) = 1 .. Len(Tail(p))
  OBVIOUS
<1>3. \A n \in 1 .. Len(p) - 1 : Tail(p)[n] = p[n + 1]
  OBVIOUS
<1>4. Head(p) = p[1]
  OBVIOUS
<1>5. \A n \in DOMAIN p \ {1} : n - 1 \in 1 .. Len(p) - 1 /\ (n - 1) + 1 = n
  BY <1>1
<1> QED
  BY <1>1, <1>2, <1>3, <1>4, <1>5

LEMMA StreamedType ==
  ASSUME ContentTypes, NEW i \in Items
  PROVE  /\ Streamed(i) \in Seq(Nat) /\ Len(Streamed(i)) = item[i].pieces
         /\ item[i].pieces \in Nat /\ Streamed(i) = Count(item[i].pieces)
<1>1. item[i].pieces \in Nat
  BY ContentAssumption DEF ContentTypes, CodexTypes
<1> QED
  BY <1>1 DEF Streamed, Count

LEMMA InitialTypes == Init => ContentTypes
<1>1. SUFFICES ASSUME Init PROVE ContentTypes
  OBVIOUS
<1>2. CodexTypes
  <2>1. item \in [Items -> [kind : Kinds \cup {"none"}, stage : Stages, pieces : 0 .. MaxPieces,
                           whole : Seq(Nat)]]
    BY <1>1, ContentAssumption DEF Init, Item, Stages
  <2> QED
    BY <1>1, <2>1, ContentAssumption DEF Init, CodexTypes
<1>3. QueueTypes
  BY <1>1, ContentAssumption DEF Init, QueueTypes
<1>4. TaskTypes
  <2>1. /\ buffer \in [Items -> Seq(Nat)]
        /\ ArtifactTypes
    BY <1>1 DEF Init, Empty, ArtifactTypes
  <2> QED
    BY <1>1, <2>1 DEF Init, TaskTypes
<1> QED
  BY <1>2, <1>3, <1>4 DEF ContentTypes

(* A message of Codex joins the inbox; consumeTurn takes the oldest one.     *)
LEMMA SendsType ==
  ASSUME QueueTypes, NEW x \in Notices, Sends(x)
  PROVE  QueueTypes'
<1>1. inbox \in Seq(Notices) /\ inbox' = Append(inbox, x) /\ Len(inbox) < InboxCap
  BY DEF QueueTypes, Sends
<1>2. inbox' \in Seq(Notices) /\ Len(inbox') = Len(inbox) + 1 /\ Len(inbox) \in Nat
  BY <1>1, AppendFacts
<1> QED
  BY <1>1, <1>2, ContentAssumption DEF QueueTypes

LEMMA HandlesType ==
  ASSUME QueueTypes, NEW type, Handles(type)
  PROVE  QueueTypes' /\ Head(inbox) \in Notices /\ Head(inbox).type = type
<1>1. inbox \in Seq(Notices) /\ inbox # <<>> /\ inbox' = Tail(inbox) /\ Len(inbox) <= InboxCap
  BY DEF QueueTypes, Handles
<1>2. /\ inbox' \in Seq(Notices) /\ Len(inbox') = Len(inbox) - 1 /\ Len(inbox) \in Nat
      /\ Head(inbox) \in Notices
  BY <1>1, TailFacts
<1> QED
  BY <1>1, <1>2, ContentAssumption DEF Handles, QueueTypes

(* What Codex sends at each of its steps.                                    *)
LEMMA CodexSends ==
  ASSUME ContentTypes
  PROVE  /\ \A i \in Items, k \in Kinds : CodexStarts(i, k) => \E x \in Notices : Sends(x)
         /\ \A i \in Items : CodexStreams(i) \/ CodexCompletes(i) => \E x \in Notices : Sends(x)
         /\ \A q \in Questions, k \in QuestionKinds \cup {"other"} :
              CodexAsks(q, k) => \E x \in Notices : Sends(x)
         /\ \A h \in {"completed", "interrupted", "failed"} :
              CodexEndsTurn(h) => \E x \in Notices : Sends(x)
<1>1. ASSUME NEW i \in Items, NEW k \in Kinds, CodexStarts(i, k)
      PROVE  \E x \in Notices : Sends(x)
  BY <1>1, NoticeKinds DEF CodexStarts
<1>2. ASSUME NEW i \in Items, CodexStreams(i)
      PROVE  \E x \in Notices : Sends(x)
  <2>1. item'[i].pieces \in Nat
    BY <1>2, ContentAssumption DEF CodexStreams, ContentTypes, CodexTypes
  <2> QED
    BY <1>2, <2>1, NoticeKinds DEF CodexStreams
<1>3. ASSUME NEW i \in Items, CodexCompletes(i)
      PROVE  \E x \in Notices : Sends(x)
  <2>1. PICK whole \in {<<>>, Append(Streamed(i), item[i].pieces + 1)} :
          Sends([type |-> "completed", item |-> i, whole |-> whole])
    BY <1>3 DEF CodexCompletes
  <2>2. Append(Streamed(i), item[i].pieces + 1) \in Seq(Nat) /\ <<>> \in Seq(Nat)
    BY StreamedType
  <2> QED
    BY <2>1, <2>2, NoticeKinds
<1>4. ASSUME NEW q \in Questions, NEW k \in QuestionKinds \cup {"other"}, CodexAsks(q, k)
      PROVE  \E x \in Notices : Sends(x)
  BY <1>4, NoticeKinds DEF CodexAsks
<1>5. ASSUME NEW h \in {"completed", "interrupted", "failed"}, CodexEndsTurn(h)
      PROVE  \E x \in Notices : Sends(x)
  BY <1>5, NoticeKinds DEF CodexEndsTurn
<1> QED
  BY <1>1, <1>2, <1>3, <1>4, <1>5

LEMMA StepQueue == ContentTypes /\ [Next]_vars => QueueTypes'
<1>1. SUFFICES ASSUME ContentTypes, [Next]_vars PROVE QueueTypes'
  OBVIOUS
<1>2. QueueTypes
  BY <1>1 DEF ContentTypes
<1>3. CASE \E x \in Notices : Sends(x)
  BY <1>2, <1>3, SendsType
<1>4. CASE \E type \in ItemNotices \cup {"question", "ended"} : Handles(type)
  BY <1>2, <1>4, HandlesType
<1>5. CASE UNCHANGED inbox
  BY <1>2, <1>5 DEF QueueTypes
<1>6. CASE Codex
  BY <1>1, <1>3, <1>6, CodexSends DEF Codex
<1>7. CASE Handle
  BY <1>4, <1>7 DEF Handle, HandleStarted, HandleDelta, HandleCompleted, HandleQuestion, HandleEnd, ItemNotices
<1>8. CASE Serve \/ User \/ UNCHANGED vars
  BY <1>5, <1>8 DEF Serve, User, StartTurn, RejectMessage, Resume, AskAgain, vars
<1> QED
  BY <1>1, <1>6, <1>7, <1>8 DEF Next

LEMMA StepCodexTypes == ContentTypes /\ [Next]_vars => CodexTypes'
<1>1. SUFFICES ASSUME ContentTypes, [Next]_vars PROVE CodexTypes'
  OBVIOUS
<1>2. CodexTypes
  BY <1>1 DEF ContentTypes
<1>3. ASSUME NEW i \in Items, NEW k \in Kinds, CodexStarts(i, k)
      PROVE  CodexTypes'
  BY <1>2, <1>3, ContentAssumption DEF CodexStarts, Item, CodexTypes, Stages
<1>4. ASSUME NEW i \in Items, CodexStreams(i)
      PROVE  CodexTypes'
  <2>1. item[i].pieces + 1 \in 0 .. MaxPieces
    BY <1>2, <1>4, ContentAssumption DEF CodexStreams, CodexTypes
  <2>2. item' = [item EXCEPT ![i].pieces = @ + 1] /\ UNCHANGED <<turn, question>>
    BY <1>4 DEF CodexStreams
  <2>3. item' \in [Items -> [kind : Kinds \cup {"none"}, stage : Stages, pieces : 0 .. MaxPieces,
                            whole : Seq(Nat)]]
    <3>1. item[i] \in [kind : Kinds \cup {"none"}, stage : Stages, pieces : 0 .. MaxPieces, whole : Seq(Nat)]
      BY <1>2 DEF CodexTypes
    <3>2. [item[i] EXCEPT !.pieces = @ + 1]
            \in [kind : Kinds \cup {"none"}, stage : Stages, pieces : 0 .. MaxPieces, whole : Seq(Nat)]
      BY ONLY <2>1, <3>1
    <3> QED
      BY <1>2, <2>2, <3>2 DEF CodexTypes
  <2> QED
    BY <1>2, <2>2, <2>3 DEF CodexTypes
<1>5. ASSUME NEW i \in Items, CodexCompletes(i)
      PROVE  CodexTypes'
  <2>1. PICK whole \in {<<>>, Append(Streamed(i), item[i].pieces + 1)} :
          item' = [item EXCEPT ![i] = Item(@.kind, "done", @.pieces, whole)]
    BY <1>5 DEF CodexCompletes
  <2>2. whole \in Seq(Nat)
    <3>1. Append(Streamed(i), item[i].pieces + 1) \in Seq(Nat) /\ <<>> \in Seq(Nat)
      BY <1>1, StreamedType
    <3> QED
      BY <2>1, <3>1
  <2> QED
    BY <1>2, <1>5, <2>1, <2>2 DEF CodexCompletes, Item, CodexTypes, Stages
<1>6. ASSUME NEW q \in Questions, NEW k \in QuestionKinds \cup {"other"}, CodexAsks(q, k)
      PROVE  CodexTypes'
  BY <1>2, <1>6 DEF CodexAsks, CodexTypes
<1>7. ASSUME NEW h \in {"completed", "interrupted", "failed"}, CodexEndsTurn(h)
      PROVE  CodexTypes'
  BY <1>2, <1>7 DEF CodexEndsTurn, CodexTypes
<1>8. ASSUME NEW m \in Messages, StartTurn(m)
      PROVE  CodexTypes'
  <2>1. turn.number + 1 \in 0 .. MaxTurns
    BY <1>2, <1>8, ContentAssumption DEF StartTurn, CodexTypes
  <2> QED
    BY <1>2, <1>8, <2>1 DEF StartTurn, CodexTypes
<1>9. ASSUME NEW m \in Messages, Resume(m)
      PROVE  CodexTypes'
  BY <1>2, <1>9 DEF Resume, CodexTypes
<1>10. CASE Handle \/ Serve \/ UNCHANGED vars
  BY <1>2, <1>10 DEF Handle, HandleStarted, HandleDelta, HandleCompleted, HandleQuestion, HandleEnd,
     Handles, Serve, vars, codexVars, CodexTypes
<1>11. ASSUME NEW m \in Messages, RejectMessage(m) \/ AskAgain(m)
       PROVE  CodexTypes'
  BY <1>2, <1>11 DEF RejectMessage, AskAgain, codexVars, CodexTypes
<1> QED
  BY <1>1, <1>3, <1>4, <1>5, <1>6, <1>7, <1>8, <1>9, <1>10, <1>11 DEF Next, Codex, User

(* What a handler may do to the artifacts.                                   *)
LEMMA ArtifactUpdates ==
  ASSUME ArtifactTypes, NEW i \in Items, NEW text \in Seq(Nat)
  PROVE  /\ \A stage \in {"none", "running", "done"} : ReplaceArtifact(i, stage, text) =>
              ArtifactTypes' /\ artifact'[i].text = text
         /\ AppendArtifact(i, text) =>
              ArtifactTypes' /\ artifact'[i].text = artifact[i].text \o text
<1>1. ASSUME NEW stage \in {"none", "running", "done"}, ReplaceArtifact(i, stage, text)
      PROVE  ArtifactTypes' /\ artifact'[i].text = text
  <2>1. [stage |-> stage, text |-> text] \in [stage : {"none", "running", "done"}, text : Seq(Nat)]
    OBVIOUS
  <2> DEFINE new == [stage |-> stage, text |-> text]
  <2>2. new.text = text
    OBVIOUS
  <2>3. artifact' = [artifact EXCEPT ![i] = new]
    BY <1>1 DEF ReplaceArtifact
  <2> HIDE DEF new
  <2> QED
    BY <2>1, <2>2, <2>3 DEF ArtifactTypes, new
<1>2. ASSUME AppendArtifact(i, text)
      PROVE  ArtifactTypes' /\ artifact'[i].text = artifact[i].text \o text
  <2>1. artifact[i].text \o text \in Seq(Nat)
    BY DEF ArtifactTypes
  <2> QED
    BY <1>2, <2>1 DEF AppendArtifact, ArtifactTypes
<1> QED
  BY <1>1, <1>2

LEMMA StepTaskTypes == ContentInv /\ [Next]_vars => TaskTypes'
<1>1. SUFFICES ASSUME ContentInv, [Next]_vars PROVE TaskTypes'
  OBVIOUS
<1>2. TaskTypes /\ QueueTypes /\ CodexTypes
  BY <1>1 DEF ContentInv, ContentTypes
<1>3. CASE Codex
  BY <1>2, <1>3 DEF Codex, CodexStarts, CodexStreams, CodexCompletes, CodexAsks, CodexEndsTurn, Sends,
     runtimeVars, taskVars, TaskTypes, ArtifactTypes
<1>4. CASE HandleStarted
  <2> DEFINE i == Head(inbox).item
  <2>1. i \in Items
    BY <1>2, <1>4, HandlesType, NoticeKinds DEF HandleStarted, ItemNotices
  <2>2. artifact' = artifact \/ ReplaceArtifact(i, "running", <<>>)
    BY <1>4 DEF HandleStarted
  <2> HIDE DEF i
  <2>3. ArtifactTypes'
    <3>1. <<>> \in Seq(Nat)
      OBVIOUS
    <3> QED
      BY <1>2, <2>1, <2>2, <3>1, ArtifactUpdates DEF ArtifactTypes, TaskTypes
  <2> QED
    BY <1>2, <1>4, <2>3 DEF HandleStarted, Handles, runtimeVars, TaskTypes
<1>5. CASE HandleDelta
  <2> DEFINE i == Head(inbox).item
             piece == <<Head(inbox).piece>>
  <2>1. i \in Items /\ piece \in Seq(Nat)
    BY <1>2, <1>5, HandlesType, NoticeKinds DEF HandleDelta, ItemNotices
  <2>2. Accumulate(i, piece) /\ (ReplaceArtifact(i, "none", buffer'[i]) \/ AppendArtifact(i, piece))
    BY <1>5 DEF HandleDelta
  <2> HIDE DEF i, piece
  <2>3. buffer' \in [Items -> Seq(Nat)]
    BY <1>2, <2>1, <2>2 DEF Accumulate, TaskTypes
  <2>4. ArtifactTypes'
    BY <1>2, <2>1, <2>2, <2>3, ArtifactUpdates DEF TaskTypes
  <2> QED
    BY <1>2, <1>5, <2>3, <2>4 DEF HandleDelta, Handles, TaskTypes
<1>6. CASE HandleCompleted
  <2> DEFINE i == Head(inbox).item
             whole == Head(inbox).whole
  <2>1. i \in Items /\ whole \in Seq(Nat) /\ Head(inbox) = inbox[1] /\ 1 \in DOMAIN inbox
    <3>1. inbox # <<>>
      BY <1>6 DEF HandleCompleted, Handles
    <3> QED
      BY <1>2, <1>6, <3>1, HandlesType, NoticeKinds, TailFacts DEF HandleCompleted, ItemNotices, QueueTypes
  <2>2. artifact' = artifact \/ \E stage \in {"none", "done"} : ReplaceArtifact(i, stage, CompletedText(i, whole))
    BY <1>6 DEF HandleCompleted
  <2>3. item[i].kind \in Kinds
    <3>1. IsEnd(inbox[1], i)
      BY <1>2, <1>6, <2>1, HandlesType DEF HandleCompleted, IsEnd
    <3> QED
      BY <1>1, <2>1, <3>1 DEF ContentInv, OutputInv, OutputOf, InOrder, EndLast, LifeOf
  <2> HIDE DEF i, whole
  <2>4. CompletedText(i, whole) \in Seq(Nat)
    BY <1>2, <2>1, <2>3 DEF CompletedText, FirstNonEmpty, Kinds, TaskTypes
  <2>5. ArtifactTypes'
    BY <1>2, <2>1, <2>2, <2>4, ArtifactUpdates DEF ArtifactTypes, TaskTypes
  <2> QED
    BY <1>2, <1>6, <2>5 DEF HandleCompleted, Handles, runtimeVars, TaskTypes
<1>7. CASE HandleQuestion
  <2>1. Head(inbox).id \in Questions
    BY <1>2, <1>7, HandlesType, NoticeKinds DEF HandleQuestion
  <2> QED
    BY <1>2, <1>7, <2>1 DEF HandleQuestion, Asks, Handles, TaskTypes, ArtifactTypes
<1>8. CASE HandleEnd
  BY <1>2, <1>8 DEF HandleEnd, Handles, TaskTypes, ArtifactTypes
<1>9. CASE User
  BY <1>2, <1>9 DEF User, StartTurn, RejectMessage, Resume, AskAgain, Asks, runtimeVars, TaskTypes, ArtifactTypes
<1>10. CASE Serve \/ UNCHANGED vars
  BY <1>2, <1>10 DEF Serve, vars, runtimeVars, taskVars, TaskTypes, ArtifactTypes
<1> QED
  BY <1>1, <1>3, <1>4, <1>5, <1>6, <1>7, <1>8, <1>9, <1>10 DEF Next, Handle

----------------------------------------------------------------------------
(* The notices about one item.                                               *)

(* A notice about something else joins them.                                 *)
LEMMA OtherJoins ==
  ASSUME NEW p \in Seq(Notices), NEW x \in Notices, NEW i, ~ Tells(x, i),
         NEW it, NEW b, InOrder(p, i, it, b)
  PROVE  InOrder(Append(p, x), i, it, b) /\ (EndIn(Append(p, x), i) <=> EndIn(p, i))
<1> DEFINE q == Append(p, x)
<1>1. /\ DOMAIN p \subseteq DOMAIN q
      /\ \A n \in DOMAIN p : q[n] = p[n]
      /\ \A n \in DOMAIN q : n \in DOMAIN p \/ q[n] = x
  BY AppendFacts
<1> HIDE DEF q
<1>2. \A n \in DOMAIN q : Tells(q[n], i) => n \in DOMAIN p
  BY <1>1
<1>3. StartFirst(q, i, b)
  BY <1>1, <1>2 DEF InOrder, StartFirst, IsStart, Tells, ItemNotices
<1>4. EndLast(q, i, it)
  BY <1>1, <1>2 DEF InOrder, EndLast, IsEnd, Tells, ItemNotices
<1>5. PiecesBetween(q, i, b, it.pieces)
  BY <1>1, <1>2 DEF InOrder, PiecesBetween, IsDelta, Tells, ItemNotices
<1>6. Silent(p, i) => Silent(q, i)
  BY <1>1, <1>2 DEF Silent
<1>7. EndIn(q, i) <=> EndIn(p, i)
  BY <1>1, <1>2 DEF EndIn, IsEnd, Tells, ItemNotices
<1> QED
  BY <1>3, <1>4, <1>5, <1>6, <1>7 DEF InOrder, q

(* What is left when the oldest notice has been taken.                       *)
LEMMA OthersStay ==
  ASSUME NEW p \in Seq(Notices), p # <<>>, NEW i, NEW it, NEW b, InOrder(p, i, it, b)
  PROVE  /\ \A n \in DOMAIN Tail(p) : Tells(Tail(p)[n], i) =>
              ~ (Tail(p)[n].type = "started" /\ Tells(Head(p), i))
         /\ StartFirst(Tail(p), i, b) /\ EndLast(Tail(p), i, it)
         /\ ~ IsEnd(Head(p), i) => (EndIn(Tail(p), i) <=> EndIn(p, i))
         /\ Silent(p, i) => Silent(Tail(p), i)
<1> DEFINE q == Tail(p)
<1>1. /\ 1 \in DOMAIN p /\ Head(p) = p[1] /\ DOMAIN p \subseteq Nat \ {0} /\ DOMAIN q \subseteq Nat \ {0}
      /\ \A n \in DOMAIN q : n + 1 \in DOMAIN p /\ q[n] = p[n + 1]
      /\ \A n \in DOMAIN p \ {1} : n - 1 \in DOMAIN q /\ q[n - 1] = p[n]
  BY TailFacts
<1> HIDE DEF q
<1>2. ASSUME NEW n \in DOMAIN q, Tells(q[n], i), q[n].type = "started", Tells(Head(p), i)
      PROVE  FALSE
  <2>1. n + 1 \in DOMAIN p /\ p[n + 1].type = "started" /\ p[n + 1].item = i /\ n + 1 > 1
    BY <1>1, <1>2 DEF Tells
  <2> QED
    BY <1>1, <1>2, <2>1 DEF InOrder, StartFirst, IsStart
<1>3. StartFirst(q, i, b)
  <2>1. SUFFICES ASSUME NEW n \in DOMAIN q, q[n].type = "started", q[n].item = i
                 PROVE  b = 0 /\ \A m \in DOMAIN q : Tells(q[m], i) => n <= m
    BY DEF StartFirst, IsStart
  <2>2. b = 0 /\ \A m \in DOMAIN p : Tells(p[m], i) => n + 1 <= m
    BY <1>1, <2>1 DEF InOrder, StartFirst, IsStart
  <2>3. ASSUME NEW m \in DOMAIN q, Tells(q[m], i)
        PROVE  n <= m
    <3>1. n + 1 <= m + 1 /\ m \in Nat /\ n \in Nat
      BY <1>1, <2>1, <2>2, <2>3
    <3> QED
      BY <3>1
  <2> QED
    BY <2>2, <2>3
<1>4. EndLast(q, i, it)
  <2>1. SUFFICES ASSUME NEW n \in DOMAIN q, IsEnd(q[n], i)
                 PROVE  it.stage = "done" /\ q[n].whole = it.whole /\ \A m \in DOMAIN q : Tells(q[m], i) => m <= n
    BY DEF EndLast
  <2>2. it.stage = "done" /\ q[n].whole = it.whole /\ \A m \in DOMAIN p : Tells(p[m], i) => m <= n + 1
    BY <1>1, <2>1 DEF InOrder, EndLast
  <2>3. ASSUME NEW m \in DOMAIN q, Tells(q[m], i)
        PROVE  m <= n
    <3>1. m + 1 <= n + 1 /\ m \in Nat /\ n \in Nat
      BY <1>1, <2>1, <2>2, <2>3
    <3> QED
      BY <3>1
  <2> QED
    BY <2>2, <2>3
<1>5. ASSUME ~ IsEnd(Head(p), i)
      PROVE  EndIn(q, i) <=> EndIn(p, i)
  <2>1. ASSUME NEW n \in DOMAIN p, IsEnd(p[n], i)
        PROVE  n - 1 \in DOMAIN q /\ IsEnd(q[n - 1], i)
    BY <1>1, <1>5, <2>1
  <2>2. ASSUME NEW n \in DOMAIN q, IsEnd(q[n], i)
        PROVE  n + 1 \in DOMAIN p /\ IsEnd(p[n + 1], i)
    BY <1>1, <2>2
  <2> QED
    BY <2>1, <2>2 DEF EndIn
<1>6. Silent(p, i) => Silent(q, i)
  BY <1>1 DEF Silent
<1> QED
  BY <1>2, <1>3, <1>4, <1>5, <1>6 DEF q

(* consumeTurn has taken a notice about something else.                      *)
LEMMA OtherTaken ==
  ASSUME NEW p \in Seq(Notices), p # <<>>, NEW i, ~ Tells(Head(p), i),
         NEW it, NEW b, InOrder(p, i, it, b)
  PROVE  InOrder(Tail(p), i, it, b) /\ (EndIn(Tail(p), i) <=> EndIn(p, i))
<1> DEFINE q == Tail(p)
<1>1. /\ 1 \in DOMAIN p /\ Head(p) = p[1] /\ DOMAIN p \subseteq Nat \ {0} /\ DOMAIN q \subseteq Nat \ {0}
      /\ \A n \in DOMAIN q : n + 1 \in DOMAIN p /\ q[n] = p[n + 1]
      /\ \A n \in DOMAIN p \ {1} : n - 1 \in DOMAIN q /\ q[n - 1] = p[n]
  BY TailFacts
<1>2. /\ StartFirst(q, i, b) /\ EndLast(q, i, it)
      /\ ~ IsEnd(Head(p), i) => (EndIn(q, i) <=> EndIn(p, i))
      /\ Silent(p, i) => Silent(q, i)
  BY OthersStay
<1>3. EndIn(q, i) <=> EndIn(p, i)
  BY <1>2 DEF IsEnd, Tells, ItemNotices
<1> HIDE DEF q
<1>4. PiecesBetween(q, i, b, it.pieces)
  <2>1. \A n \in DOMAIN q : IsDelta(q[n], i) => q[n].piece \in b + 1 .. it.pieces
    BY <1>1 DEF InOrder, PiecesBetween
  <2>2. ASSUME NEW m \in DOMAIN q, NEW n \in DOMAIN q, m < n, IsDelta(q[m], i), IsDelta(q[n], i)
        PROVE  q[m].piece < q[n].piece
    <3>1. m + 1 \in DOMAIN p /\ n + 1 \in DOMAIN p /\ m + 1 < n + 1 /\ q[m] = p[m + 1] /\ q[n] = p[n + 1]
      BY <1>1, <2>2
    <3> QED
      BY <2>2, <3>1 DEF InOrder, PiecesBetween
  <2>3. ASSUME NEW k \in b + 1 .. it.pieces
        PROVE  \E n \in DOMAIN q : IsDelta(q[n], i) /\ q[n].piece = k
    <3>1. PICK n \in DOMAIN p : IsDelta(p[n], i) /\ p[n].piece = k
      BY DEF InOrder, PiecesBetween
    <3>2. n # 1
      BY <1>1, <3>1 DEF IsDelta, Tells, ItemNotices
    <3> QED
      BY <1>1, <3>1, <3>2
  <2> QED
    BY <2>1, <2>2, <2>3 DEF PiecesBetween
<1> QED
  BY <1>2, <1>3, <1>4 DEF InOrder, q

(* The notices Codex sends about an item.                                    *)
LEMMA StartJoins ==
  ASSUME NEW p \in Seq(Notices), NEW i \in Items, NEW it, NEW new,
         it.stage = "new", it.pieces = 0, InOrder(p, i, it, 0), new.stage = "running", new.pieces = 0
  PROVE  InOrder(Append(p, [type |-> "started", item |-> i]), i, new, 0)
<1> DEFINE x == [type |-> "started", item |-> i]
           q == Append(p, x)
<1>1. /\ DOMAIN p \subseteq DOMAIN q
      /\ \A n \in DOMAIN p : q[n] = p[n]
      /\ \A n \in DOMAIN q : n \in DOMAIN p \/ n = Len(p) + 1
      /\ q[Len(p) + 1] = x /\ Len(p) \in Nat /\ DOMAIN q = 1 .. Len(p) + 1
  BY NoticeKinds, AppendFacts
<1>2. x.type = "started" /\ x.item = i
  OBVIOUS
<1> HIDE DEF q, x
<1>3. \A n \in DOMAIN p : ~ Tells(p[n], i)
  BY DEF InOrder, Silent
<1>4. \A n \in DOMAIN q : Tells(q[n], i) => n = Len(p) + 1 /\ q[n].type = "started"
  BY <1>1, <1>2, <1>3
<1>5. StartFirst(q, i, 0)
  <2>1. ASSUME NEW n \in DOMAIN q, NEW m \in DOMAIN q, q[n].type = "started", q[n].item = i, Tells(q[m], i)
        PROVE  n <= m
    <3>1. n = Len(p) + 1 /\ m = Len(p) + 1
      BY <1>4, <2>1 DEF Tells, ItemNotices
    <3> QED
      BY <1>1, <3>1
  <2> QED
    BY <2>1 DEF StartFirst, IsStart
<1>6. EndLast(q, i, new) /\ PiecesBetween(q, i, 0, 0)
  BY <1>4 DEF EndLast, PiecesBetween, IsEnd, IsDelta, Tells, ItemNotices
<1> QED
  BY <1>5, <1>6 DEF InOrder, q, x

LEMMA DeltaJoins ==
  ASSUME NEW p \in Seq(Notices), NEW i \in Items, NEW it, NEW new, NEW b \in Nat,
         it.stage = "running", it.pieces \in Nat, b <= it.pieces, InOrder(p, i, it, b),
         new.stage = "running", new.pieces = it.pieces + 1
  PROVE  InOrder(Append(p, [type |-> "delta", item |-> i, piece |-> new.pieces]), i, new, b)
<1> DEFINE x == [type |-> "delta", item |-> i, piece |-> new.pieces]
           q == Append(p, x)
<1>1. /\ DOMAIN p \subseteq DOMAIN q /\ DOMAIN p = 1 .. Len(p)
      /\ \A n \in DOMAIN p : q[n] = p[n]
      /\ \A n \in DOMAIN q : n \in DOMAIN p \/ n = Len(p) + 1
      /\ q[Len(p) + 1] = x /\ Len(p) \in Nat /\ DOMAIN q = 1 .. Len(p) + 1
  BY NoticeKinds, AppendFacts
<1>2. x.type = "delta" /\ x.item = i /\ x.piece = it.pieces + 1
  OBVIOUS
<1> HIDE DEF q, x
<1>3. StartFirst(q, i, b)
  <2>1. ASSUME NEW n \in DOMAIN q, q[n].type = "started", q[n].item = i
        PROVE  n \in DOMAIN p /\ p[n] = q[n] /\ n <= Len(p) + 1
    BY <1>1, <1>2, <2>1
  <2> QED
    BY <1>1, <2>1 DEF InOrder, StartFirst, IsStart
<1>4. EndLast(q, i, new)
  BY <1>1, <1>2 DEF InOrder, EndLast, IsEnd
<1>5. \A n \in DOMAIN p : IsDelta(q[n], i) => q[n].piece \in b + 1 .. it.pieces
  BY <1>1 DEF InOrder, PiecesBetween
<1>6. PiecesBetween(q, i, b, new.pieces)
  <2>1. \A n \in DOMAIN q : IsDelta(q[n], i) => q[n].piece \in b + 1 .. new.pieces
    BY <1>1, <1>2, <1>5
  <2>2. ASSUME NEW m \in DOMAIN q, NEW n \in DOMAIN q, m < n, IsDelta(q[m], i), IsDelta(q[n], i)
        PROVE  q[m].piece < q[n].piece
    <3>1. m \in DOMAIN p
      BY <1>1, <2>2
    <3>2. CASE n \in DOMAIN p
      BY <1>1, <2>2, <3>1, <3>2 DEF InOrder, PiecesBetween
    <3>3. CASE n = Len(p) + 1
      BY <1>1, <1>2, <1>5, <2>2, <3>1, <3>3
    <3> QED
      BY <1>1, <3>2, <3>3
  <2>3. ASSUME NEW k \in b + 1 .. new.pieces
        PROVE  \E n \in DOMAIN q : IsDelta(q[n], i) /\ q[n].piece = k
    <3>1. CASE k = new.pieces
      BY <1>1, <1>2, <3>1 DEF IsDelta
    <3>2. CASE k \in b + 1 .. it.pieces
      BY <1>1, <3>2 DEF InOrder, PiecesBetween
    <3> QED
      BY <3>1, <3>2
  <2> QED
    BY <2>1, <2>2, <2>3 DEF PiecesBetween
<1> QED
  BY <1>3, <1>4, <1>6 DEF InOrder, q, x

LEMMA EndJoins ==
  ASSUME NEW p \in Seq(Notices), NEW i \in Items, NEW it, NEW new, NEW b, NEW whole \in Seq(Nat),
         it.stage = "running", InOrder(p, i, it, b),
         new.stage = "done", new.pieces = it.pieces, new.whole = whole
  PROVE  LET q == Append(p, [type |-> "completed", item |-> i, whole |-> whole]) IN
           InOrder(q, i, new, b) /\ EndIn(q, i)
<1> DEFINE x == [type |-> "completed", item |-> i, whole |-> whole]
           q == Append(p, x)
<1>1. /\ DOMAIN p \subseteq DOMAIN q /\ DOMAIN p = 1 .. Len(p)
      /\ \A n \in DOMAIN p : q[n] = p[n]
      /\ \A n \in DOMAIN q : n \in DOMAIN p \/ n = Len(p) + 1
      /\ q[Len(p) + 1] = x /\ Len(p) \in Nat /\ DOMAIN q = 1 .. Len(p) + 1
  BY NoticeKinds, AppendFacts
<1>2. x.type = "completed" /\ x.item = i /\ x.whole = new.whole
  OBVIOUS
<1> HIDE DEF q, x
<1>3. StartFirst(q, i, b)
  <2>1. ASSUME NEW n \in DOMAIN q, q[n].type = "started", q[n].item = i
        PROVE  n \in DOMAIN p /\ p[n] = q[n] /\ n <= Len(p) + 1
    BY <1>1, <1>2, <2>1
  <2> QED
    BY <1>1, <2>1 DEF InOrder, StartFirst, IsStart
<1>4. EndLast(q, i, new)
  <2>1. ASSUME NEW n \in DOMAIN q, IsEnd(q[n], i)
        PROVE  n = Len(p) + 1
    BY <1>1, <2>1 DEF InOrder, EndLast
  <2>2. \A m \in DOMAIN q : m <= Len(p) + 1
    BY <1>1
  <2> QED
    BY <1>1, <1>2, <2>1, <2>2 DEF EndLast
<1>5. PiecesBetween(q, i, b, new.pieces)
  <2>1. \A n \in DOMAIN q : IsDelta(q[n], i) => n \in DOMAIN p /\ q[n] = p[n]
    BY <1>1, <1>2 DEF IsDelta
  <2>2. PiecesBetween(p, i, b, it.pieces)
    BY DEF InOrder
  <2>3. \A k \in b + 1 .. it.pieces : \E n \in DOMAIN q : IsDelta(q[n], i) /\ q[n].piece = k
    BY <1>1, <2>2 DEF PiecesBetween
  <2>4. \A n \in DOMAIN q : IsDelta(q[n], i) => q[n].piece \in b + 1 .. it.pieces
    BY <2>1, <2>2 DEF PiecesBetween
  <2>5. \A m, n \in DOMAIN q : m < n /\ IsDelta(q[m], i) /\ IsDelta(q[n], i) => q[m].piece < q[n].piece
    BY <2>1, <2>2 DEF PiecesBetween
  <2>6. PiecesBetween(q, i, b, it.pieces)
    BY <2>3, <2>4, <2>5 DEF PiecesBetween
  <2> QED
    BY <2>6
<1>6. EndIn(q, i)
  <2>1. Len(p) + 1 \in DOMAIN q /\ IsEnd(q[Len(p) + 1], i)
    BY <1>1, <1>2 DEF IsEnd
  <2> QED
    BY <2>1 DEF EndIn
<1> QED
  BY <1>3, <1>4, <1>5, <1>6 DEF InOrder, q, x

(* The notices consumeTurn takes about an item.                              *)
LEMMA StartTaken ==
  ASSUME NEW p \in Seq(Notices), p # <<>>, NEW i, IsStart(Head(p), i),
         NEW it, NEW b, InOrder(p, i, it, b)
  PROVE  b = 0 /\ InOrder(Tail(p), i, it, b) /\ (EndIn(Tail(p), i) <=> EndIn(p, i))
<1> DEFINE q == Tail(p)
<1>1. /\ 1 \in DOMAIN p /\ Head(p) = p[1] /\ DOMAIN p \subseteq Nat \ {0} /\ DOMAIN q \subseteq Nat \ {0}
      /\ \A n \in DOMAIN q : n + 1 \in DOMAIN p /\ q[n] = p[n + 1]
      /\ \A n \in DOMAIN p \ {1} : n - 1 \in DOMAIN q /\ q[n - 1] = p[n]
  BY TailFacts
<1>2. /\ StartFirst(q, i, b) /\ EndLast(q, i, it)
      /\ ~ IsEnd(Head(p), i) => (EndIn(q, i) <=> EndIn(p, i))
      /\ Silent(p, i) => Silent(q, i)
  BY OthersStay
<1>3. EndIn(q, i) <=> EndIn(p, i)
  BY <1>2 DEF IsEnd, IsStart
<1>4. b = 0
  BY <1>1 DEF InOrder, StartFirst, IsStart
<1> HIDE DEF q
<1>5. PiecesBetween(q, i, b, it.pieces)
  <2>1. \A n \in DOMAIN q : IsDelta(q[n], i) => q[n].piece \in b + 1 .. it.pieces
    BY <1>1 DEF InOrder, PiecesBetween
  <2>2. ASSUME NEW m \in DOMAIN q, NEW n \in DOMAIN q, m < n, IsDelta(q[m], i), IsDelta(q[n], i)
        PROVE  q[m].piece < q[n].piece
    <3>1. m + 1 \in DOMAIN p /\ n + 1 \in DOMAIN p /\ m + 1 < n + 1 /\ q[m] = p[m + 1] /\ q[n] = p[n + 1]
      BY <1>1, <2>2
    <3> QED
      BY <2>2, <3>1 DEF InOrder, PiecesBetween
  <2>3. ASSUME NEW k \in b + 1 .. it.pieces
        PROVE  \E n \in DOMAIN q : IsDelta(q[n], i) /\ q[n].piece = k
    <3>1. PICK n \in DOMAIN p : IsDelta(p[n], i) /\ p[n].piece = k
      BY DEF InOrder, PiecesBetween
    <3>2. n # 1
      BY <1>1, <3>1 DEF IsDelta, IsStart
    <3> QED
      BY <1>1, <3>1, <3>2
  <2> QED
    BY <2>1, <2>2, <2>3 DEF PiecesBetween
<1> QED
  BY <1>2, <1>3, <1>4, <1>5 DEF InOrder, q

LEMMA DeltaTaken ==
  ASSUME NEW p \in Seq(Notices), p # <<>>, NEW i, IsDelta(Head(p), i),
         NEW it, it.pieces \in Nat, NEW b \in Nat, InOrder(p, i, it, b)
  PROVE  /\ Head(p).piece = b + 1 /\ b + 1 <= it.pieces
         /\ InOrder(Tail(p), i, it, b + 1) /\ (EndIn(Tail(p), i) <=> EndIn(p, i)) /\ ~ Silent(p, i)
<1> DEFINE q == Tail(p)
<1>1. /\ 1 \in DOMAIN p /\ Head(p) = p[1] /\ DOMAIN p \subseteq Nat \ {0} /\ DOMAIN q \subseteq Nat \ {0}
      /\ \A n \in DOMAIN q : n + 1 \in DOMAIN p /\ q[n] = p[n + 1]
      /\ \A n \in DOMAIN p \ {1} : n - 1 \in DOMAIN q /\ q[n - 1] = p[n]
  BY TailFacts
<1>2. /\ \A n \in DOMAIN q : Tells(q[n], i) => ~ (q[n].type = "started" /\ Tells(Head(p), i))
      /\ EndLast(q, i, it)
      /\ ~ IsEnd(Head(p), i) => (EndIn(q, i) <=> EndIn(p, i))
  BY OthersStay
<1>3. EndIn(q, i) <=> EndIn(p, i)
  BY <1>2 DEF IsEnd, IsDelta
<1>4. Tells(p[1], i) /\ ~ Silent(p, i)
  BY <1>1 DEF Silent, Tells, IsDelta, ItemNotices
<1>5. StartFirst(q, i, b + 1)
  BY <1>1, <1>2, <1>4 DEF StartFirst, IsStart, Tells, ItemNotices
<1> HIDE DEF q
<1>6. PiecesBetween(p, i, b, it.pieces)
  BY DEF InOrder
<1>7. p[1].piece \in b + 1 .. it.pieces
  BY <1>1, <1>6 DEF PiecesBetween
<1>8. p[1].piece = b + 1
  <2>1. b + 1 \in b + 1 .. it.pieces
    BY <1>7
  <2>2. PICK n \in DOMAIN p : IsDelta(p[n], i) /\ p[n].piece = b + 1
    BY <1>6, <2>1 DEF PiecesBetween
  <2>3. CASE n = 1
    BY <2>2, <2>3
  <2>4. CASE n # 1
    <3>1. 1 < n
      BY <1>1, <2>4
    <3>2. p[1].piece < p[n].piece
      BY <1>1, <1>6, <2>2, <3>1 DEF PiecesBetween
    <3> QED
      BY <1>7, <2>2, <3>2
  <2> QED
    BY <2>3, <2>4
<1>9. PiecesBetween(q, i, b + 1, it.pieces)
  <2>1. ASSUME NEW n \in DOMAIN q, IsDelta(q[n], i)
        PROVE  q[n].piece \in (b + 1) + 1 .. it.pieces
    <3>1. n + 1 \in DOMAIN p /\ 1 < n + 1 /\ q[n] = p[n + 1]
      BY <1>1, <2>1
    <3>2. p[1].piece < p[n + 1].piece /\ p[n + 1].piece \in b + 1 .. it.pieces
      BY <1>1, <1>6, <2>1, <3>1 DEF PiecesBetween
    <3> QED
      BY <1>8, <3>1, <3>2
  <2>2. ASSUME NEW m \in DOMAIN q, NEW n \in DOMAIN q, m < n, IsDelta(q[m], i), IsDelta(q[n], i)
        PROVE  q[m].piece < q[n].piece
    <3>1. m + 1 \in DOMAIN p /\ n + 1 \in DOMAIN p /\ m + 1 < n + 1 /\ q[m] = p[m + 1] /\ q[n] = p[n + 1]
      BY <1>1, <2>2
    <3> QED
      BY <1>6, <2>2, <3>1 DEF PiecesBetween
  <2>3. ASSUME NEW k \in (b + 1) + 1 .. it.pieces
        PROVE  \E n \in DOMAIN q : IsDelta(q[n], i) /\ q[n].piece = k
    <3>1. k \in b + 1 .. it.pieces /\ k # b + 1
      OBVIOUS
    <3>2. PICK n \in DOMAIN p : IsDelta(p[n], i) /\ p[n].piece = k
      BY <1>6, <3>1 DEF PiecesBetween
    <3>3. n # 1
      BY <1>8, <3>1, <3>2
    <3> QED
      BY <1>1, <3>2, <3>3
  <2> QED
    BY <2>1, <2>2, <2>3 DEF PiecesBetween
<1>10. it.stage # "new"
  BY <1>4 DEF InOrder
<1>11. it.stage = "done" => EndIn(p, i)
  BY <1>4 DEF InOrder
<1> QED
  BY <1>1, <1>2, <1>3, <1>4, <1>5, <1>7, <1>8, <1>9, <1>10, <1>11 DEF InOrder, q

LEMMA EndTaken ==
  ASSUME NEW p \in Seq(Notices), p # <<>>, NEW i, IsEnd(Head(p), i),
         NEW it, it.pieces \in Nat, NEW b \in Nat, b <= it.pieces, InOrder(p, i, it, b)
  PROVE  /\ it.stage = "done" /\ Head(p).whole = it.whole /\ b = it.pieces
         /\ InOrder(Tail(p), i, it, b) /\ ~ EndIn(Tail(p), i) /\ EndIn(p, i)
<1> DEFINE q == Tail(p)
<1>1. /\ 1 \in DOMAIN p /\ Head(p) = p[1] /\ DOMAIN p \subseteq Nat \ {0} /\ DOMAIN q \subseteq Nat \ {0}
      /\ \A n \in DOMAIN q : n + 1 \in DOMAIN p /\ q[n] = p[n + 1]
      /\ \A n \in DOMAIN p \ {1} : n - 1 \in DOMAIN q /\ q[n - 1] = p[n]
  BY TailFacts
<1> HIDE DEF q
<1>2. it.stage = "done" /\ p[1].whole = it.whole /\ \A m \in DOMAIN p : Tells(p[m], i) => m <= 1
  BY <1>1 DEF InOrder, EndLast
<1>3. ASSUME NEW m \in DOMAIN q, Tells(q[m], i)
      PROVE  FALSE
  <2>1. m + 1 \in DOMAIN p /\ Tells(p[m + 1], i) /\ ~ (m + 1 <= 1)
    BY <1>1, <1>3
  <2> QED
    BY <1>2, <2>1
<1>4. Silent(q, i)
  BY <1>3 DEF Silent
<1>5. b = it.pieces
  <2>1. SUFFICES ASSUME b < it.pieces PROVE FALSE
    OBVIOUS
  <2>2. PICK n \in DOMAIN p : IsDelta(p[n], i)
    <3>1. b + 1 \in b + 1 .. it.pieces
      BY <2>1
    <3> QED
      BY <3>1 DEF InOrder, PiecesBetween
  <2>3. n <= 1
    BY <1>2, <2>2 DEF IsDelta, Tells, ItemNotices
  <2>4. n = 1
    BY <1>1, <2>3
  <2> QED
    BY <1>1, <2>2, <2>4 DEF IsDelta, IsEnd
<1>6. StartFirst(q, i, b) /\ EndLast(q, i, it) /\ PiecesBetween(q, i, b, it.pieces) /\ ~ EndIn(q, i)
  BY <1>3, <1>5 DEF StartFirst, IsStart, EndLast, PiecesBetween, EndIn, IsDelta, IsEnd, Tells, ItemNotices
<1>7. EndIn(p, i)
  BY <1>1 DEF EndIn
<1> QED
  BY <1>1, <1>2, <1>4, <1>5, <1>6, <1>7 DEF InOrder, q

----------------------------------------------------------------------------
(* Artifacts show what items have streamed.                                  *)

LEMMA CountFacts ==
  ASSUME NEW b \in Nat
  PROVE  /\ Count(b) \in Seq(Nat) /\ Len(Count(b)) = b
         /\ Count(b) \o <<b + 1>> = Count(b + 1)
         /\ Append(Count(b), b + 1) = Count(b + 1)
         /\ Count(b) = <<>> <=> b = 0
<1>1. Count(b) \in Seq(Nat) /\ Len(Count(b)) = b
  BY DEF Count
<1>2. Count(b) \o <<b + 1>> = Count(b + 1)
  BY DEF Count
<1>3. Append(Count(b), b + 1) = Count(b + 1)
  BY DEF Count
<1>4. Count(b) = <<>> <=> b = 0
  BY DEF Count
<1> QED
  BY <1>1, <1>2, <1>3, <1>4

LEMMA OutputFacts ==
  ASSUME ContentInv, NEW i \in Items
  PROVE  /\ item[i].pieces \in Nat /\ item[i].whole \in Seq(Nat) /\ LifeOf(item[i])
         /\ Len(buffer[i]) \in 0 .. item[i].pieces /\ buffer[i] = Count(Len(buffer[i]))
         /\ InOrder(inbox, i, item[i], Len(buffer[i]))
         /\ artifact[i].text = IF item[i].stage = "done" /\ ~ EndIn(inbox, i)
                                 THEN FirstNonEmpty(item[i].whole, Count(item[i].pieces)) ELSE buffer[i]
<1>1. item[i].pieces \in Nat /\ item[i].whole \in Seq(Nat) /\ Len(buffer[i]) \in Nat
  BY ContentAssumption DEF ContentInv, ContentTypes, CodexTypes, TaskTypes
<1>2. OutputOf(inbox, i, item[i], buffer[i], artifact[i].text)
  BY DEF ContentInv, OutputInv
<1> QED
  BY <1>1, <1>2 DEF OutputOf

LEMMA OutputBuilt ==
  ASSUME NEW p, NEW i, NEW it, NEW b \in Nat, NEW text,
         LifeOf(it), b <= it.pieces, InOrder(p, i, it, b),
         text = IF it.stage = "done" /\ ~ EndIn(p, i)
                  THEN FirstNonEmpty(it.whole, Count(it.pieces)) ELSE Count(b)
  PROVE  OutputOf(p, i, it, Count(b), text)
<1>1. Len(Count(b)) = b
  BY CountFacts
<1> QED
  BY <1>1 DEF OutputOf

(* Nothing happens to an item when a step is about something else.           *)
LEMMA OutputFrame ==
  ASSUME ContentInv, NEW i \in Items,
         item'[i] = item[i], buffer'[i] = buffer[i], artifact'[i].text = artifact[i].text,
         \/ inbox' = inbox
         \/ \E x \in Notices : ~ Tells(x, i) /\ inbox' = Append(inbox, x)
         \/ inbox # <<>> /\ ~ Tells(Head(inbox), i) /\ inbox' = Tail(inbox)
  PROVE  OutputInv(i)'
<1> DEFINE b == Len(buffer[i])
<1>1. inbox \in Seq(Notices) /\ InOrder(inbox, i, item[i], b)
  BY OutputFacts DEF ContentInv, ContentTypes, QueueTypes
<1>2. InOrder(inbox', i, item[i], b) /\ (EndIn(inbox', i) <=> EndIn(inbox, i))
  <2>1. CASE inbox' = inbox
    BY <1>1, <2>1
  <2>2. ASSUME NEW x \in Notices, ~ Tells(x, i), inbox' = Append(inbox, x)
        PROVE  InOrder(inbox', i, item[i], b) /\ (EndIn(inbox', i) <=> EndIn(inbox, i))
    BY <1>1, <2>2, OtherJoins
  <2>3. CASE inbox # <<>> /\ ~ Tells(Head(inbox), i) /\ inbox' = Tail(inbox)
    BY <1>1, <2>3, OtherTaken
  <2> QED
    BY <2>1, <2>2, <2>3
<1>3. OutputOf(inbox', i, item[i], buffer[i], artifact[i].text)
  BY <1>2, OutputFacts DEF OutputOf
<1> QED
  BY <1>3 DEF OutputInv

LEMMA InitialOutput == Init => \A i \in Items : OutputInv(i)
<1>1. SUFFICES ASSUME Init, NEW i \in Items PROVE OutputInv(i)
  OBVIOUS
<1> DEFINE it == Item("none", "new", 0, <<>>)
<1>2. item[i] = it /\ buffer[i] = <<>> /\ artifact[i].text = <<>> /\ inbox = <<>>
  BY <1>1 DEF Init, Empty
<1>3. it.stage = "new" /\ it.pieces = 0 /\ it.whole = <<>> /\ LifeOf(it)
  BY ContentAssumption DEF Item, LifeOf
<1> HIDE DEF it
<1>4. InOrder(<<>>, i, it, 0)
  BY <1>3 DEF InOrder, StartFirst, IsStart, EndLast, PiecesBetween, Silent
<1>5. Count(0) = <<>> /\ 0 \in Nat /\ 0 <= it.pieces
  BY <1>3 DEF Count
<1>6. OutputOf(<<>>, i, it, Count(0), <<>>)
  BY <1>3, <1>4, <1>5, OutputBuilt
<1> QED
  BY <1>2, <1>5, <1>6 DEF OutputInv

LEMMA CodexOutput ==
  ASSUME ContentInv, Codex
  PROVE  \A i \in Items : OutputInv(i)'
<1>1. /\ inbox \in Seq(Notices)
      /\ \A i \in Items : item[i] \in [kind : Kinds \cup {"none"}, stage : Stages,
                                     pieces : 0 .. MaxPieces, whole : Seq(Nat)]
      /\ DOMAIN item = Items
  BY DEF ContentInv, ContentTypes, CodexTypes, QueueTypes
<1>2. ASSUME NEW j \in Items, NEW k \in Kinds, CodexStarts(j, k), NEW i \in Items
      PROVE  OutputInv(i)'
  <2> DEFINE x == [type |-> "started", item |-> j]
             new == Item(k, "running", 0, <<>>)
  <2>1. /\ item[j].stage = "new" /\ item' = [item EXCEPT ![j] = new]
        /\ inbox' = Append(inbox, x) /\ buffer' = buffer /\ artifact' = artifact
    BY <1>2 DEF CodexStarts, Sends, runtimeVars, taskVars
  <2>2. x \in Notices /\ (i # j => ~ Tells(x, i))
    BY NoticeKinds DEF Tells
  <2>3. new.stage = "running" /\ new.pieces = 0 /\ LifeOf(new)
    BY ContentAssumption DEF Item, LifeOf
  <2>4. CASE i # j
    <3> HIDE DEF x, new
    <3>1. item'[i] = item[i]
      BY <2>1, <2>4, <1>1
    <3> QED
      BY <2>1, <2>2, <2>4, <3>1, OutputFrame
  <2>5. CASE i = j
    <3> HIDE DEF new
    <3>1. item[j].pieces = 0 /\ InOrder(inbox, j, item[j], 0) /\ Len(buffer[j]) = 0
      BY <2>1, OutputFacts DEF LifeOf
    <3>2. InOrder(Append(inbox, x), j, new, 0)
      BY <1>1, <2>1, <2>3, <3>1, StartJoins
    <3> HIDE DEF x
    <3>3. artifact[j].text = Count(0) /\ buffer[j] = Count(0)
      BY <2>1, <3>1, OutputFacts
    <3>4. OutputOf(Append(inbox, x), j, new, Count(0), artifact[j].text)
      BY <2>3, <3>2, <3>3, OutputBuilt
    <3>5. item'[j] = new
      BY <1>1, <2>1
    <3> QED
      BY <2>1, <2>5, <3>3, <3>4, <3>5 DEF OutputInv
  <2> QED
    BY <2>4, <2>5
<1>3. ASSUME NEW j \in Items, CodexStreams(j), NEW i \in Items
      PROVE  OutputInv(i)'
  <2> DEFINE new == item'[j]
             x == [type |-> "delta", item |-> j, piece |-> new.pieces]
             b == Len(buffer[j])
  <2>1. /\ item[j].stage = "running" /\ item[j].kind # "mcpToolCall"
        /\ item' = [item EXCEPT ![j].pieces = @ + 1]
        /\ inbox' = Append(inbox, x) /\ buffer' = buffer /\ artifact' = artifact
    BY <1>3 DEF CodexStreams, Sends, runtimeVars, taskVars
  <2>2. /\ new.stage = "running" /\ new.pieces = item[j].pieces + 1 /\ new.kind = item[j].kind
        /\ new.whole = item[j].whole
    BY <1>1, <2>1
  <2>3. LifeOf(new) /\ new.pieces \in Nat
    BY <2>1, <2>2, OutputFacts DEF LifeOf
  <2>4. x \in Notices /\ (i # j => ~ Tells(x, i))
    BY <2>3, NoticeKinds DEF Tells
  <2>5. CASE i # j
    <3>1. item'[i] = item[i]
      BY <2>1, <2>5, <1>1
    <3> HIDE DEF x, new
    <3> QED
      BY <2>1, <2>4, <2>5, <3>1, OutputFrame
  <2>6. CASE i = j
    <3>1. InOrder(Append(inbox, x), j, new, b)
      <4>1. b \in Nat /\ b <= item[j].pieces /\ item[j].pieces \in Nat /\ InOrder(inbox, j, item[j], b)
        BY OutputFacts
      <4> HIDE DEF b
      <4> QED
        BY <1>1, <2>1, <2>2, <4>1, DeltaJoins
    <3>2. artifact[j].text = Count(b) /\ buffer[j] = Count(b) /\ b \in Nat /\ b <= new.pieces
      BY <2>1, <2>2, OutputFacts
    <3> HIDE DEF x, new, b
    <3>3. OutputOf(Append(inbox, x), j, new, Count(b), artifact[j].text)
      BY <2>2, <2>3, <3>1, <3>2, OutputBuilt
    <3> QED
      BY <2>1, <2>6, <3>2, <3>3 DEF OutputInv, new
  <2> QED
    BY <2>5, <2>6
<1>4. ASSUME NEW j \in Items, CodexCompletes(j), NEW i \in Items
      PROVE  OutputInv(i)'
  <2>1. PICK whole \in {<<>>, Append(Streamed(j), item[j].pieces + 1)} :
          /\ item[j].kind \in {"commandExecution", "agentMessage"} \/ whole = <<>>
          /\ item' = [item EXCEPT ![j] = Item(@.kind, "done", @.pieces, whole)]
          /\ Sends([type |-> "completed", item |-> j, whole |-> whole])
    BY <1>4 DEF CodexCompletes
  <2> DEFINE new == Item(item[j].kind, "done", item[j].pieces, whole)
             x == [type |-> "completed", item |-> j, whole |-> whole]
             b == Len(buffer[j])
  <2>2. item[j].stage = "running"
    BY <1>4 DEF CodexCompletes
  <2>3. item' = [item EXCEPT ![j] = new] /\ inbox' = Append(inbox, x) /\ buffer' = buffer /\ artifact' = artifact
    BY <2>1 DEF Sends, runtimeVars, taskVars
  <2>4. /\ new.stage = "done" /\ new.pieces = item[j].pieces /\ new.kind = item[j].kind
        /\ new.whole = whole
    BY DEF Item
  <2>5. whole \in Seq(Nat) /\ Len(whole) <= MaxPieces + 1
    <3>1. item[j].pieces \in 0 .. MaxPieces
      BY <1>1
    <3>2. ContentTypes
      BY DEF ContentInv
    <3>3. Streamed(j) = Count(item[j].pieces) /\ item[j].pieces \in Nat /\ item[j].pieces + 1 \in Nat
      BY <3>2, StreamedType
    <3>4. Append(Streamed(j), item[j].pieces + 1) = Count(item[j].pieces + 1)
      BY <3>3, CountFacts
    <3>5. Count(item[j].pieces + 1) \in Seq(Nat) /\ Len(Count(item[j].pieces + 1)) = item[j].pieces + 1
      BY <3>3, CountFacts
    <3>6. CASE whole = <<>>
      <4>1. <<>> \in Seq(Nat) /\ Len(<<>>) = 0 /\ 0 <= MaxPieces + 1
        BY ContentAssumption
      <4> QED
        BY ONLY <3>6, <4>1
    <3>7. CASE whole = Count(item[j].pieces + 1)
      <4>1. item[j].pieces + 1 <= MaxPieces + 1
        BY <3>1, ContentAssumption
      <4> QED
        BY ONLY <3>5, <3>7, <4>1
    <3> QED
      BY <2>1, <3>4, <3>6, <3>7
  <2>6. LifeOf(new)
    BY <2>1, <2>2, <2>4, <2>5, OutputFacts DEF LifeOf
  <2>7. x \in Notices /\ (i # j => ~ Tells(x, i))
    BY <2>5, NoticeKinds DEF Tells
  <2> HIDE DEF new
  <2>8. CASE i # j
    <3>1. item'[i] = item[i]
      BY <2>3, <2>8, <1>1
    <3> HIDE DEF x
    <3> QED
      BY <2>3, <2>7, <2>8, <3>1, OutputFrame
  <2>9. CASE i = j
    <3>1. InOrder(Append(inbox, x), j, new, b) /\ EndIn(Append(inbox, x), j)
      <4>1. InOrder(inbox, j, item[j], b)
        BY OutputFacts
      <4> HIDE DEF b
      <4> QED
        BY <1>1, <2>2, <2>4, <2>5, <4>1, EndJoins
    <3>2. artifact[j].text = Count(b) /\ buffer[j] = Count(b) /\ b \in Nat /\ b <= new.pieces
      BY <2>2, <2>4, OutputFacts
    <3> HIDE DEF x, b
    <3>3. OutputOf(Append(inbox, x), j, new, Count(b), artifact[j].text)
      BY <2>4, <2>6, <3>1, <3>2, OutputBuilt
    <3>4. item'[j] = new
      BY <1>1, <2>3
    <3> QED
      BY <2>3, <2>9, <3>2, <3>3, <3>4 DEF OutputInv
  <2> QED
    BY <2>8, <2>9
<1>5. ASSUME NEW q \in Questions, NEW k \in QuestionKinds \cup {"other"}, CodexAsks(q, k), NEW i \in Items
      PROVE  OutputInv(i)'
  <2>1. /\ [type |-> "question", id |-> q] \in Notices /\ ~ Tells([type |-> "question", id |-> q], i)
        /\ inbox' = Append(inbox, [type |-> "question", id |-> q])
        /\ item' = item /\ buffer' = buffer /\ artifact' = artifact
    BY <1>5, NoticeKinds DEF CodexAsks, Sends, runtimeVars, taskVars, Tells, ItemNotices
  <2> QED
    BY <2>1, OutputFrame
<1>6. ASSUME NEW h \in {"completed", "interrupted", "failed"}, CodexEndsTurn(h), NEW i \in Items
      PROVE  OutputInv(i)'
  <2>1. /\ [type |-> "ended", how |-> h] \in Notices /\ ~ Tells([type |-> "ended", how |-> h], i)
        /\ inbox' = Append(inbox, [type |-> "ended", how |-> h])
        /\ item' = item /\ buffer' = buffer /\ artifact' = artifact
    BY <1>6, NoticeKinds DEF CodexEndsTurn, Sends, runtimeVars, taskVars, Tells, ItemNotices
  <2> QED
    BY <2>1, OutputFrame
<1> QED
  BY <1>2, <1>3, <1>4, <1>5, <1>6 DEF Codex

(* consumeTurn takes the oldest notice: only the item it is about changes.   *)
LEMMA HandleOutput ==
  ASSUME ContentInv, Handle
  PROVE  \A i \in Items : OutputInv(i)'
<1>1. /\ inbox \in Seq(Notices) /\ buffer \in [Items -> Seq(Nat)] /\ ArtifactTypes /\ QueueTypes
  BY DEF ContentInv, ContentTypes, QueueTypes, TaskTypes
<1>2. inbox # <<>> /\ inbox' = Tail(inbox) /\ UNCHANGED <<flags, serving, item, turn, question>>
  BY DEF Handle, HandleStarted, HandleDelta, HandleCompleted, HandleQuestion, HandleEnd, Handles, codexVars
<1>3. PICK x \in Notices : x = Head(inbox)
  BY <1>1, <1>2, TailFacts
<1> DEFINE j == x.item
<1>4. ASSUME NEW i \in Items, ~ Tells(x, i), buffer'[i] = buffer[i], artifact'[i].text = artifact[i].text
      PROVE  OutputInv(i)'
  BY <1>2, <1>3, <1>4, OutputFrame
<1>5. ASSUME x.type \in ItemNotices, NEW i \in Items, i # j
      PROVE  ~ Tells(x, i)
  BY <1>5 DEF Tells
<1>6. ASSUME x.type \in ItemNotices
      PROVE  j \in Items
  BY <1>3, <1>6, NoticeKinds
<1> HIDE DEF j
<1> DEFINE it == item[j]
           b == Len(buffer[j])
           left == Tail(inbox)
<1>7. CASE HandleStarted
  <2>1. x.type = "started" /\ x.item = j /\ j \in Items
    BY <1>3, <1>6, <1>7 DEF HandleStarted, Handles, ItemNotices, j
  <2>2. buffer' = buffer /\ (artifact' = artifact \/ ReplaceArtifact(j, "running", <<>>))
    BY <1>3, <1>7 DEF HandleStarted, runtimeVars, j
  <2>3. ASSUME NEW i \in Items, i # j
        PROVE  OutputInv(i)'
    <3>1. <<>> \in Seq(Nat) /\ x.type \in ItemNotices
      BY <2>1 DEF ItemNotices
    <3>2. artifact'[i] = artifact[i]
      BY <1>1, <2>2, <2>3 DEF ReplaceArtifact, ArtifactTypes
    <3> QED
      BY <1>4, <1>5, <2>2, <2>3, <3>1, <3>2
  <2>4. OutputInv(j)'
    <3>1. it.pieces \in Nat /\ b \in Nat /\ b <= it.pieces /\ InOrder(inbox, j, it, b) /\ LifeOf(it) /\ buffer[j] = Count(b)
      BY <2>1, OutputFacts
    <3>2. artifact[j].text = IF it.stage = "done" /\ ~ EndIn(inbox, j)
                               THEN FirstNonEmpty(it.whole, Count(it.pieces)) ELSE Count(b)
      BY <2>1, <3>1, OutputFacts
    <3> HIDE DEF it, b
    <3>3. b = 0 /\ InOrder(left, j, it, b) /\ (EndIn(left, j) <=> EndIn(inbox, j))
      <4>1. IsStart(Head(inbox), j)
        BY <1>3, <2>1 DEF IsStart
      <4> HIDE DEF left
      <4>2. b = 0 /\ InOrder(Tail(inbox), j, it, b) /\ (EndIn(Tail(inbox), j) <=> EndIn(inbox, j))
        BY <1>1, <1>2, <3>1, <4>1, StartTaken
      <4> QED
        BY <4>2 DEF left
    <3>4. it.stage = "done" => EndIn(inbox, j)
      <4>1. ~ Silent(inbox, j)
        <5>1. 1 \in DOMAIN inbox /\ inbox[1] = x
          BY <1>1, <1>2, <1>3, TailFacts
        <5> QED
          BY <2>1, <5>1 DEF Silent, Tells, ItemNotices
      <4> QED
        BY <3>1, <4>1 DEF InOrder
    <3>5. artifact'[j].text = Count(b)
      <4>1. artifact[j].text = Count(b)
        BY <3>2, <3>4
      <4>2. Count(0) = <<>> /\ <<>> \in Seq(Nat)
        BY DEF Count
      <4> QED
        BY <1>1, <2>1, <2>2, <3>3, <4>1, <4>2, ArtifactUpdates
    <3>6. OutputOf(left, j, it, Count(b), artifact'[j].text)
      BY <3>1, <3>3, <3>4, <3>5, OutputBuilt
    <3> QED
      BY <1>2, <2>2, <3>1, <3>6 DEF OutputInv, it
  <2> QED
    BY <2>3, <2>4
<1>8. CASE HandleDelta
  <2> DEFINE piece == <<x.piece>>
  <2>1. x.type = "delta" /\ x.item = j /\ j \in Items /\ x.piece \in Nat /\ piece \in Seq(Nat)
    BY <1>3, <1>6, <1>8, NoticeKinds DEF HandleDelta, Handles, ItemNotices, j
  <2>2. /\ buffer' = [buffer EXCEPT ![j] = @ \o piece]
        /\ ReplaceArtifact(j, "none", buffer'[j]) \/ AppendArtifact(j, piece)
    BY <1>3, <1>8 DEF HandleDelta, Accumulate, j
  <2>3. buffer'[j] = buffer[j] \o piece /\ buffer'[j] \in Seq(Nat)
    BY <1>1, <2>1, <2>2
  <2> HIDE DEF piece
  <2>4. ASSUME NEW i \in Items, i # j
        PROVE  OutputInv(i)'
    <3>1. x.type \in ItemNotices
      BY <2>1 DEF ItemNotices
    <3>2. artifact'[i] = artifact[i]
      BY <1>1, <2>2, <2>4 DEF ReplaceArtifact, AppendArtifact, ArtifactTypes
    <3>3. buffer'[i] = buffer[i]
      BY <1>1, <2>2, <2>4
    <3> QED
      BY <1>4, <1>5, <2>4, <3>1, <3>2, <3>3
  <2>5. OutputInv(j)'
    <3>1. it.pieces \in Nat /\ b \in Nat /\ b <= it.pieces /\ InOrder(inbox, j, it, b) /\ LifeOf(it) /\ buffer[j] = Count(b)
      BY <2>1, OutputFacts
    <3>2. artifact[j].text = IF it.stage = "done" /\ ~ EndIn(inbox, j)
                               THEN FirstNonEmpty(it.whole, Count(it.pieces)) ELSE Count(b)
      BY <2>1, <3>1, OutputFacts
    <3> HIDE DEF it, b
    <3>3. IsDelta(x, j)
      BY <2>1 DEF IsDelta
    <3>4. /\ x.piece = b + 1 /\ b + 1 <= it.pieces /\ InOrder(left, j, it, b + 1)
          /\ EndIn(left, j) <=> EndIn(inbox, j)
          /\ ~ Silent(inbox, j)
      BY <1>1, <1>2, <1>3, <3>1, <3>3, DeltaTaken
    <3>5. it.stage = "done" => EndIn(inbox, j)
      BY <3>1, <3>4 DEF InOrder
    <3>6. buffer'[j] = Count(b + 1)
      BY <2>3, <3>1, <3>4, CountFacts DEF piece
    <3>7. artifact'[j].text = Count(b + 1)
      <4>1. artifact[j].text = buffer[j]
        BY <3>1, <3>2, <3>5
      <4>2. CASE ReplaceArtifact(j, "none", buffer'[j])
        BY <1>1, <2>1, <2>3, <3>6, <4>2, ArtifactUpdates
      <4>3. CASE AppendArtifact(j, piece)
        <5>1. artifact'[j].text = artifact[j].text \o piece
          BY <1>1, <2>1, <4>3, ArtifactUpdates
        <5> QED
          BY <2>3, <3>6, <4>1, <5>1
      <4> QED
        BY <2>2, <4>2, <4>3
    <3>8. OutputOf(left, j, it, Count(b + 1), artifact'[j].text)
      BY <3>1, <3>4, <3>5, <3>7, OutputBuilt
    <3> QED
      BY <1>2, <3>6, <3>8 DEF OutputInv, it
  <2> QED
    BY <2>4, <2>5
<1>9. CASE HandleCompleted
  <2> DEFINE whole == x.whole
             text == CompletedText(j, whole)
  <2>1. x.type = "completed" /\ x.item = j /\ j \in Items /\ whole \in Seq(Nat)
    BY <1>3, <1>6, <1>9, NoticeKinds DEF HandleCompleted, Handles, ItemNotices, j
  <2>2. /\ buffer' = buffer
        /\ it.kind = "agentMessage" =>
             IF whole = <<>> THEN artifact' = artifact ELSE ReplaceArtifact(j, "none", text)
        /\ it.kind # "agentMessage" => ReplaceArtifact(j, "done", text)
    BY <1>3, <1>9 DEF HandleCompleted, runtimeVars, j
  <2>3. it.pieces \in Nat /\ b \in Nat /\ b <= it.pieces /\ InOrder(inbox, j, it, b) /\ LifeOf(it) /\ buffer[j] = Count(b)
    BY <2>1, OutputFacts
  <2>4. artifact[j].text = IF it.stage = "done" /\ ~ EndIn(inbox, j)
                             THEN FirstNonEmpty(it.whole, Count(it.pieces)) ELSE Count(b)
    BY <2>1, <2>3, OutputFacts
  <2> HIDE DEF it, b, whole
  <2>5. IsEnd(x, j)
    BY <2>1 DEF IsEnd
  <2>6. /\ it.stage = "done" /\ whole = it.whole /\ b = it.pieces
        /\ InOrder(left, j, it, b) /\ ~ EndIn(left, j) /\ EndIn(inbox, j)
    BY <1>1, <1>2, <1>3, <2>3, <2>5, EndTaken DEF whole
  <2>7. text = IF it.kind = "agentMessage" THEN whole ELSE FirstNonEmpty(whole, Count(b))
    <3>1. it.kind \in Kinds /\ (it.kind = "mcpToolCall" => b = 0 /\ whole = <<>>) /\ (it.kind = "fileChange" => whole = <<>>)
      BY <2>3, <2>6 DEF LifeOf
    <3>2. Count(0) = <<>>
      BY DEF Count
    <3> QED
      BY <2>3, <3>1, <3>2 DEF CompletedText, FirstNonEmpty, Kinds, it
  <2>8. text \in Seq(Nat)
    BY <2>1, <2>3, <2>7, CountFacts DEF FirstNonEmpty
  <2> HIDE DEF text
  <2>9. ASSUME NEW i \in Items, i # j
        PROVE  OutputInv(i)'
    <3>1. x.type \in ItemNotices
      BY <2>1 DEF ItemNotices
    <3>2. artifact'[i] = artifact[i]
      BY <1>1, <2>2, <2>9 DEF ReplaceArtifact, ArtifactTypes
    <3> QED
      BY <1>4, <1>5, <2>2, <2>9, <3>1, <3>2
  <2>10. OutputInv(j)'
    <3>1. artifact'[j].text = FirstNonEmpty(it.whole, Count(it.pieces))
      <4>1. CASE it.kind = "agentMessage" /\ whole = <<>>
        BY <2>2, <2>4, <2>6, <4>1 DEF FirstNonEmpty
      <4>2. CASE it.kind = "agentMessage" /\ whole # <<>>
        <5>1. ReplaceArtifact(j, "none", text)
          BY <2>2, <4>2
        <5> QED
          BY <1>1, <2>1, <2>6, <2>7, <2>8, <4>2, <5>1, ArtifactUpdates DEF FirstNonEmpty
      <4>3. CASE it.kind # "agentMessage"
        <5>1. ReplaceArtifact(j, "done", text)
          BY <2>2, <4>3
        <5> QED
          BY <1>1, <2>1, <2>6, <2>7, <2>8, <4>3, <5>1, ArtifactUpdates
      <4> QED
        BY <4>1, <4>2, <4>3
    <3>2. OutputOf(left, j, it, Count(b), artifact'[j].text)
      BY <2>3, <2>6, <3>1, OutputBuilt
    <3> QED
      BY <1>2, <2>2, <2>3, <3>2 DEF OutputInv, it
  <2> QED
    BY <2>9, <2>10
<1>10. CASE HandleQuestion \/ HandleEnd
  <2>1. ~ (x.type \in ItemNotices) /\ buffer' = buffer /\ artifact' = artifact
    BY <1>3, <1>10 DEF HandleQuestion, HandleEnd, Handles, Asks, ItemNotices
  <2> QED
    BY <1>4, <2>1 DEF Tells
<1> QED
  BY <1>7, <1>8, <1>9, <1>10 DEF Handle

LEMMA StepOutput == ContentInv /\ [Next]_vars => \A i \in Items : OutputInv(i)'
<1>1. SUFFICES ASSUME ContentInv, [Next]_vars PROVE \A i \in Items : OutputInv(i)'
  OBVIOUS
<1>2. CASE Serve \/ User \/ UNCHANGED vars
  <2>1. UNCHANGED <<item, inbox, buffer, artifact>>
    BY <1>2 DEF Serve, User, StartTurn, RejectMessage, Resume, AskAgain, Asks, vars, codexVars, runtimeVars, taskVars
  <2> QED
    BY <1>1, <2>1, OutputFrame
<1> QED
  BY <1>1, <1>2, CodexOutput, HandleOutput DEF Next

(* The pieces on their way, in their order, are the ones after the first b.  *)
DeltaPlaces(p, i) == {n \in DOMAIN p : p[n].type = "delta" /\ p[n].item = i}
LEMMA PiecesFollow ==
  ASSUME NEW p \in Seq(Notices), NEW i, NEW b \in Nat, NEW to \in Nat, b <= to, PiecesBetween(p, i, b, to)
  PROVE  /\ Cardinality(DeltaPlaces(p, i)) = to - b
         /\ \A k \in 1 .. to - b : Selected(p, DeltaPlaces(p, i))[k].piece = b + k
<1> DEFINE places == DeltaPlaces(p, i)
           UpTo(n) == {m \in places : m <= n}
<1>1. /\ places \in SUBSET Nat /\ IsFiniteSet(places)
      /\ \A n \in places : p[n].piece \in b + 1 .. to
      /\ \A m, n \in places : m < n => p[m].piece < p[n].piece
      /\ \A k \in b + 1 .. to : \E n \in places : p[n].piece = k
  <2>1. Len(p) \in Nat /\ DOMAIN p = 1 .. Len(p) /\ places \in SUBSET (1 .. Len(p)) /\ (1 .. Len(p)) \subseteq Nat
    BY DEF DeltaPlaces
  <2>2. IsFiniteSet(1 .. Len(p))
    BY <2>1, FS_Interval
  <2>3. places \in SUBSET Nat /\ IsFiniteSet(places)
    <3> HIDE DEF places
    <3> QED
      BY ONLY <2>1, <2>2, FS_Subset
  <2>4. \A n : n \in places <=> n \in DOMAIN p /\ IsDelta(p[n], i)
    BY DEF IsDelta, DeltaPlaces
  <2> HIDE DEF places
  <2>5. \A n \in places : p[n].piece \in b + 1 .. to
    BY <2>4 DEF PiecesBetween
  <2>6. \A m, n \in places : m < n => p[m].piece < p[n].piece
    BY <2>4 DEF PiecesBetween
  <2>7. \A k \in b + 1 .. to : \E n \in places : p[n].piece = k
    BY <2>4 DEF PiecesBetween
  <2> QED
    BY <2>3, <2>5, <2>6, <2>7
<1> HIDE DEF places
<1>2. ASSUME NEW S \in SUBSET places, NEW top \in b .. to,
             \A n \in S : p[n].piece <= top, \A k \in b + 1 .. top : \E n \in S : p[n].piece = k
      PROVE  Cardinality(S) = top - b
  <2> DEFINE f == [n \in S |-> p[n].piece]
             T == b + 1 .. top
  <2>1. \A n \in S : f[n] \in T
    <3>1. TAKE n \in S
    <3>2. f[n] = p[n].piece /\ n \in places
      OBVIOUS
    <3>3. p[n].piece \in b + 1 .. to /\ p[n].piece <= top /\ top \in Int
      BY <1>1, <1>2, <3>2
    <3> HIDE DEF f
    <3> QED
      BY <3>2, <3>3
  <2>2. \A m, n \in S : m # n => f[m] # f[n]
    <3>1. TAKE m, n \in S
    <3>2. /\ m \in Nat /\ n \in Nat /\ f[m] \in Nat /\ f[n] \in Nat
          /\ (m < n => f[m] < f[n]) /\ (n < m => f[n] < f[m])
      BY <1>1, <2>1
    <3> QED
      BY <3>2
  <2>3. \A k \in T : \E n \in S : f[n] = k
    BY <1>2
  <2>4. f \in [S -> T]
    BY <2>1
  <2> HIDE DEF f, T
  <2>5. f \in Bijection(S, T)
    BY <2>2, <2>3, <2>4 DEF Bijection, Injection, Surjection, IsInjective
  <2>6. IsFiniteSet(S)
    BY <1>1, FS_Subset
  <2>7. Cardinality(T) = Cardinality(S)
    BY <2>5, <2>6, FS_Bijection DEF ExistsBijection
  <2>8. Cardinality(T) = top - b
    <3>1. b + 1 \in Int /\ top \in Int /\ b <= top
      OBVIOUS
    <3>2. Cardinality(b + 1 .. top) = IF b + 1 > top THEN 0 ELSE top - (b + 1) + 1
      BY <3>1, FS_Interval
    <3> QED
      BY <3>1, <3>2 DEF T
  <2> QED
    BY <2>7, <2>8
<1>3. Cardinality(places) = to - b
  <2>1. to \in b .. to /\ \A n \in places : p[n].piece <= to
    BY <1>1
  <2> QED
    BY <1>1, <1>2, <2>1
<1>4. ASSUME NEW n \in places
      PROVE  Rank(places, n) = p[n].piece - b
  <2> DEFINE top == p[n].piece
  <2>1. top \in b .. to /\ top \in b + 1 .. to /\ n \in Nat
    BY <1>1, <1>4
  <2>2. \A m \in UpTo(n) : p[m].piece <= top
    <3>1. SUFFICES ASSUME NEW m \in places, m <= n PROVE p[m].piece <= top
      OBVIOUS
    <3>2. m \in Nat /\ p[m].piece \in b + 1 .. to /\ (m < n => p[m].piece < top)
      BY <1>1
    <3> QED
      BY <2>1, <3>1, <3>2
  <2>3. \A k \in b + 1 .. top : \E m \in UpTo(n) : p[m].piece = k
    <3>1. TAKE k \in b + 1 .. top
    <3>2. PICK m \in places : p[m].piece = k
      BY <1>1, <2>1
    <3>3. m \in Nat /\ (n < m => top < p[m].piece)
      BY <1>1
    <3>4. m <= n
      BY <2>1, <3>2, <3>3
    <3> QED
      BY <3>2, <3>4
  <2>4. UpTo(n) \in SUBSET places
    OBVIOUS
  <2> HIDE DEF UpTo, top
  <2>5. Cardinality(UpTo(n)) = top - b
    BY <1>2, <2>1, <2>2, <2>3, <2>4
  <2> QED
    BY <2>5 DEF Rank, UpTo, top
<1>5. ASSUME NEW k \in 1 .. to - b
      PROVE  Selected(p, places)[k].piece = b + k
  <2>1. b + k \in b + 1 .. to
    OBVIOUS
  <2>2. PICK n \in places : p[n].piece = b + k
    BY <1>1, <2>1
  <2>3. Rank(places, n) = k
    BY <1>4, <2>2
  <2>4. Selected(p, places)[Rank(places, n)] = p[n]
    BY <1>1, SelectedAtRank
  <2> QED
    BY <2>2, <2>3, <2>4
<1> QED
  BY <1>3, <1>5 DEF places

LEMMA ShownOutput == ContentInv => ArtifactsShowOutput
<1>1. SUFFICES ASSUME ContentInv, NEW i \in Items
               PROVE  artifact[i].text \o OnItsWay(i) =
                        IF item[i].stage = "done" /\ ~ EndUnread(i)
                          THEN FirstNonEmpty(item[i].whole, Streamed(i)) ELSE Streamed(i)
  BY DEF ArtifactsShowOutput
<1> DEFINE to == item[i].pieces
           b == Len(buffer[i])
<1>2. /\ to \in Nat /\ b \in Nat /\ b <= to /\ InOrder(inbox, i, item[i], b) /\ buffer[i] = Count(b)
      /\ item[i].whole \in Seq(Nat)
      /\ artifact[i].text = IF item[i].stage = "done" /\ ~ EndIn(inbox, i)
                              THEN FirstNonEmpty(item[i].whole, Count(to)) ELSE Count(b)
  <2>1. buffer[i] = Count(b)
    BY <1>1, OutputFacts
  <2> QED
    BY <1>1, <2>1, OutputFacts
<1>3. inbox \in Seq(Notices)
  BY <1>1 DEF ContentInv, ContentTypes, QueueTypes
<1>4. EndUnread(i) <=> EndIn(inbox, i)
  BY DEF EndUnread, EndIn, IsEnd
<1>5. Streamed(i) = Count(to)
  BY DEF Streamed, Count
<1> HIDE DEF to, b
<1>6. /\ Cardinality(Deltas(i)) = to - b
      /\ \A k \in 1 .. to - b : Selected(inbox, Deltas(i))[k].piece = b + k
  <2>1. PiecesBetween(inbox, i, b, to)
    BY <1>2 DEF InOrder, to
  <2> DEFINE places == DeltaPlaces(inbox, i)
  <2>2. b \in Nat /\ to \in Nat /\ b <= to
    BY <1>2
  <2>3. /\ Cardinality(places) = to - b
        /\ \A k \in 1 .. to - b : Selected(inbox, places)[k].piece = b + k
    BY ONLY <1>3, <2>1, <2>2, PiecesFollow
  <2>4. Deltas(i) = places
    BY DEF Deltas, DeltaPlaces
  <2> QED
    BY ONLY <2>3, <2>4
<1>7. OnItsWay(i) = [k \in 1 .. to - b |-> b + k]
  BY <1>6 DEF OnItsWay
<1>8. CASE item[i].stage = "done" /\ ~ EndIn(inbox, i)
  <2>1. Silent(inbox, i)
    BY <1>2, <1>8 DEF InOrder
  <2>2. Deltas(i) = {}
    BY <2>1 DEF Deltas, Silent, Tells, ItemNotices
  <2>3. OnItsWay(i) = <<>>
    BY <2>2, FS_EmptySet DEF OnItsWay
  <2>4. FirstNonEmpty(item[i].whole, Count(to)) \in Seq(Nat)
    BY <1>2, CountFacts DEF FirstNonEmpty
  <2> QED
    BY <1>2, <1>4, <1>5, <1>8, <2>3, <2>4
<1>9. CASE ~ (item[i].stage = "done" /\ ~ EndIn(inbox, i))
  <2>1. artifact[i].text = Count(b)
    BY <1>2, <1>9
  <2>2. Count(b) \o [k \in 1 .. to - b |-> b + k] = Count(to)
    BY <1>2 DEF Count
  <2> QED
    BY <1>4, <1>5, <1>7, <1>9, <2>1, <2>2
<1> QED
  BY <1>8, <1>9

----------------------------------------------------------------------------
(* Questions and the replies to them.                                        *)

LEMMA QuestionTypes ==
  ContentInv =>
    /\ question \in [Questions -> [kind : QuestionKinds \cup {"none", "other"},
                                   stage : {"new", "open", "answered"}]]
    /\ inbox \in Seq(Notices) /\ pending \in Questions \cup {Nothing} /\ Nothing \notin Questions
    /\ QuestionInv
BY ContentAssumption DEF ContentInv, ContentTypes, CodexTypes, QueueTypes, TaskTypes

LEMMA InitialQuestions == Init => QuestionInv
<1>1. SUFFICES ASSUME Init PROVE QuestionInv
  OBVIOUS
<1>2. inbox = <<>> /\ pending = Nothing /\ \A q \in Questions : question[q].stage = "new"
  BY <1>1 DEF Init
<1>3. Open = {}
  BY <1>2 DEF Open
<1> QED
  BY <1>2, <1>3 DEF QuestionInv

(* A step that asks and answers nothing.                                     *)
LEMMA QuestionFrame ==
  ASSUME ContentInv, UNCHANGED <<question, pending, userInput>>,
         \/ inbox' = inbox
         \/ \E x \in Notices : x.type # "question" /\ inbox' = Append(inbox, x)
         \/ inbox # <<>> /\ Head(inbox).type # "question" /\ inbox' = Tail(inbox),
         status' \in {"none", "working", "input-required"} => status \in {"none", "working", "input-required"},
         pending # Nothing => status' = "input-required"
  PROVE  QuestionInv'
<1>1. inbox \in Seq(Notices) /\ QuestionInv
  BY QuestionTypes
<1>2. ASSUME NEW q \in Questions
      PROVE  /\ (\E n \in DOMAIN inbox' : AsksFor(inbox'[n], q)) <=> \E n \in DOMAIN inbox : AsksFor(inbox[n], q)
             /\ (\A m, n \in DOMAIN inbox : AsksFor(inbox[m], q) /\ AsksFor(inbox[n], q) => m = n) =>
                  \A m, n \in DOMAIN inbox' : AsksFor(inbox'[m], q) /\ AsksFor(inbox'[n], q) => m = n
  <2>1. CASE inbox' = inbox
    BY <2>1
  <2>2. ASSUME NEW x \in Notices, x.type # "question", inbox' = Append(inbox, x)
        PROVE  /\ \A n \in DOMAIN inbox : n \in DOMAIN inbox' /\ inbox'[n] = inbox[n]
               /\ \A n \in DOMAIN inbox' : AsksFor(inbox'[n], q) => n \in DOMAIN inbox
    BY <1>1, <2>2, AppendFacts DEF AsksFor
  <2>3. ASSUME inbox # <<>>, Head(inbox).type # "question", inbox' = Tail(inbox)
        PROVE  /\ \A n \in DOMAIN inbox : AsksFor(inbox[n], q) => n - 1 \in DOMAIN inbox' /\ inbox'[n - 1] = inbox[n]
               /\ \A n \in DOMAIN inbox' : n + 1 \in DOMAIN inbox /\ inbox[n + 1] = inbox'[n]
               /\ DOMAIN inbox' \subseteq Nat
    BY <1>1, <2>3, TailFacts DEF AsksFor
  <2>4. CASE inbox # <<>> /\ Head(inbox).type # "question" /\ inbox' = Tail(inbox)
    <3>1. (\E n \in DOMAIN inbox' : AsksFor(inbox'[n], q)) <=> \E n \in DOMAIN inbox : AsksFor(inbox[n], q)
      BY <2>3, <2>4
    <3>2. ASSUME \A m, n \in DOMAIN inbox : AsksFor(inbox[m], q) /\ AsksFor(inbox[n], q) => m = n,
                 NEW m \in DOMAIN inbox', NEW n \in DOMAIN inbox', AsksFor(inbox'[m], q), AsksFor(inbox'[n], q)
          PROVE  m = n
      <4>1. m + 1 = n + 1 /\ m \in Nat /\ n \in Nat
        BY <2>3, <2>4, <3>2
      <4> QED
        BY <4>1
    <3> QED
      BY <3>1, <3>2
  <2> QED
    BY <2>1, <2>2, <2>4
<1>3. ASSUME NEW q \in Questions, NEW n \in DOMAIN inbox', AsksFor(inbox'[n], q)
      PROVE  /\ question[q].stage = "open" /\ q # pending
             /\ \A m \in DOMAIN inbox' : AsksFor(inbox'[m], q) => m = n
  BY <1>1, <1>2, <1>3 DEF QuestionInv
<1>4. Open' = Open
  BY DEF Open
<1>5. ASSUME status' \in {"none", "working", "input-required"}, NEW q \in Open
      PROVE  q = pending \/ \E n \in DOMAIN inbox' : AsksFor(inbox'[n], q)
  BY <1>1, <1>2, <1>5 DEF QuestionInv, Open
<1> QED
  BY <1>1, <1>3, <1>4, <1>5 DEF QuestionInv

LEMMA StepQuestions == ContentInv /\ [Next]_vars => QuestionInv'
<1>1. SUFFICES ASSUME ContentInv, [Next]_vars PROVE QuestionInv'
  OBVIOUS
<1>2. /\ question \in [Questions -> [kind : QuestionKinds \cup {"none", "other"},
                                     stage : {"new", "open", "answered"}]]
      /\ inbox \in Seq(Notices) /\ pending \in Questions \cup {Nothing} /\ Nothing \notin Questions
      /\ QuestionInv
  BY <1>1, QuestionTypes
<1>3. pending # Nothing => status = "input-required"
  BY <1>2 DEF QuestionInv
<1>4. ASSUME NEW x \in Notices, x.type # "question", Sends(x), question' = question
      PROVE  QuestionInv'
  <2>1. UNCHANGED <<question, pending, userInput, status>> /\ inbox' = Append(inbox, x)
    BY <1>4 DEF Sends, runtimeVars, taskVars
  <2> QED
    BY <1>1, <1>3, <1>4, <2>1, QuestionFrame
<1>5. ASSUME NEW i \in Items, NEW k \in Kinds, CodexStarts(i, k)
      PROVE  QuestionInv'
  BY <1>4, <1>5, NoticeKinds DEF CodexStarts
<1>6. ASSUME NEW i \in Items, CodexStreams(i)
      PROVE  QuestionInv'
  <2>1. item'[i].pieces \in Nat
    BY <1>1, <1>6, ContentAssumption DEF CodexStreams, ContentInv, ContentTypes, CodexTypes
  <2> QED
    BY <1>4, <1>6, <2>1, NoticeKinds DEF CodexStreams
<1>7. ASSUME NEW i \in Items, CodexCompletes(i)
      PROVE  QuestionInv'
  <2>1. PICK whole \in {<<>>, Append(Streamed(i), item[i].pieces + 1)} :
          Sends([type |-> "completed", item |-> i, whole |-> whole])
    BY <1>7 DEF CodexCompletes
  <2>2. ContentTypes
    BY <1>1 DEF ContentInv
  <2>3. Append(Streamed(i), item[i].pieces + 1) \in Seq(Nat) /\ <<>> \in Seq(Nat)
    BY <2>2, StreamedType
  <2>4. whole \in Seq(Nat)
    BY <2>1, <2>3
  <2> QED
    BY <1>4, <1>7, <2>1, <2>4, NoticeKinds DEF CodexCompletes
<1>8. ASSUME NEW h \in {"completed", "interrupted", "failed"}, CodexEndsTurn(h)
      PROVE  QuestionInv'
  BY <1>4, <1>8, NoticeKinds DEF CodexEndsTurn
<1>9. ASSUME NEW q \in Questions, NEW kind \in QuestionKinds \cup {"other"}, CodexAsks(q, kind)
      PROVE  QuestionInv'
  <2> DEFINE x == [type |-> "question", id |-> q]
  <2>1. /\ question[q].stage = "new" /\ question' = [question EXCEPT ![q] = [kind |-> kind, stage |-> "open"]]
        /\ inbox' = Append(inbox, x) /\ UNCHANGED <<pending, userInput, status>>
    BY <1>9 DEF CodexAsks, Sends, runtimeVars, taskVars
  <2>2. /\ \A n \in DOMAIN inbox : n \in DOMAIN inbox' /\ inbox'[n] = inbox[n]
        /\ DOMAIN inbox = 1 .. Len(inbox) /\ DOMAIN inbox' = 1 .. Len(inbox) + 1 /\ Len(inbox) \in Nat
        /\ inbox'[Len(inbox) + 1] = x
    BY <1>2, <2>1, NoticeKinds, AppendFacts
  <2>3. \A r : AsksFor(x, r) <=> r = q
    BY DEF AsksFor
  <2> HIDE DEF x
  <2>4. /\ question'[q].stage = "open" /\ q # pending
        /\ \A r \in Questions \ {q} : question'[r] = question[r]
        /\ \A n \in DOMAIN inbox : ~ AsksFor(inbox[n], q)
    BY <1>2, <2>1 DEF QuestionInv
  <2>5. ASSUME NEW r \in Questions, NEW n \in DOMAIN inbox', AsksFor(inbox'[n], r)
        PROVE  /\ question'[r].stage = "open" /\ r # pending
               /\ \A m \in DOMAIN inbox' : AsksFor(inbox'[m], r) => m = n
    <3>1. CASE r = q
      BY <2>2, <2>4, <2>5, <3>1
    <3>2. CASE r # q
      <4>1. \A m \in DOMAIN inbox' : AsksFor(inbox'[m], r) => m \in DOMAIN inbox /\ AsksFor(inbox[m], r)
        BY <2>2, <2>3, <3>2
      <4> QED
        BY <1>2, <2>4, <2>5, <3>2, <4>1 DEF QuestionInv
    <3> QED
      BY <3>1, <3>2
  <2>6. ASSUME status \in {"none", "working", "input-required"}, NEW r \in Questions, question'[r].stage = "open"
        PROVE  r = pending \/ \E n \in DOMAIN inbox' : AsksFor(inbox'[n], r)
    <3>1. CASE r = q
      <4>1. Len(inbox) + 1 \in DOMAIN inbox' /\ AsksFor(inbox'[Len(inbox) + 1], q)
        BY <2>2, <2>3
      <4> QED
        BY <3>1, <4>1
    <3>2. CASE r # q
      BY <1>2, <2>2, <2>4, <2>6, <3>2 DEF QuestionInv, Open
    <3> QED
      BY <3>1, <3>2
  <2>7. pending # Nothing => question'[pending] = question[pending]
    BY <1>2, <2>4
  <2> QED
    BY <1>2, <2>1, <2>5, <2>6, <2>7 DEF QuestionInv, Open
<1>10. CASE HandleStarted \/ HandleDelta \/ HandleCompleted \/ HandleEnd
  <2>1. /\ inbox # <<>> /\ Head(inbox).type # "question" /\ inbox' = Tail(inbox) /\ status = "working"
        /\ UNCHANGED <<question, userInput>>
    BY <1>10 DEF HandleStarted, HandleDelta, HandleCompleted, HandleEnd, Handles, codexVars
  <2>2. pending = Nothing /\ pending' = pending
    BY <1>3, <1>10, <2>1 DEF HandleStarted, HandleDelta, HandleCompleted, HandleEnd, runtimeVars
  <2> QED
    BY <1>1, <2>1, <2>2, QuestionFrame
<1>11. CASE HandleQuestion
  <2>1. inbox # <<>> /\ inbox' = Tail(inbox) /\ status = "working" /\ question' = question /\ pending = Nothing
    BY <1>3, <1>11 DEF HandleQuestion, Handles, codexVars
  <2>2. PICK q \in Questions : Head(inbox).id = q /\ AsksFor(Head(inbox), q)
    BY <1>2, <1>11, <2>1, TailFacts, NoticeKinds DEF HandleQuestion, Handles, AsksFor
  <2>3. /\ \A n \in DOMAIN inbox' : n + 1 \in DOMAIN inbox /\ inbox'[n] = inbox[n + 1]
        /\ \A n \in DOMAIN inbox \ {1} : n - 1 \in DOMAIN inbox' /\ inbox'[n - 1] = inbox[n]
        /\ 1 \in DOMAIN inbox /\ Head(inbox) = inbox[1] /\ DOMAIN inbox' \subseteq Nat \ {0}
    BY <1>2, <2>1, TailFacts
  <2>4. question[q].stage = "open" /\ \A n \in DOMAIN inbox : AsksFor(inbox[n], q) => n = 1
    <3>1. AsksFor(inbox[1], q)
      BY <2>2, <2>3
    <3> QED
      BY <1>2, <2>3, <3>1 DEF QuestionInv
  <2>5. \A n \in DOMAIN inbox' : ~ AsksFor(inbox'[n], q)
    <3>1. SUFFICES ASSUME NEW n \in DOMAIN inbox', AsksFor(inbox'[n], q) PROVE FALSE
      OBVIOUS
    <3>2. n \in Nat \ {0} /\ n + 1 = 1
      BY <2>3, <2>4, <3>1
    <3> QED
      BY <3>2
  <2>6. ASSUME NEW r \in Questions, NEW n \in DOMAIN inbox', AsksFor(inbox'[n], r)
        PROVE  /\ question[r].stage = "open" /\ r # q
               /\ \A m \in DOMAIN inbox' : AsksFor(inbox'[m], r) => m = n
    <3>1. question[r].stage = "open" /\ \A m \in DOMAIN inbox : AsksFor(inbox[m], r) => m = n + 1
      BY <1>2, <2>3, <2>6 DEF QuestionInv
    <3>2. ASSUME NEW m \in DOMAIN inbox', AsksFor(inbox'[m], r)
          PROVE  m = n
      <4>1. m + 1 = n + 1 /\ m \in Nat /\ n \in Nat
        BY <2>3, <3>1, <3>2
      <4> QED
        BY <4>1
    <3> QED
      BY <2>5, <2>6, <3>1, <3>2
  <2>7. ASSUME NEW r \in Questions, question[r].stage = "open", r # q
        PROVE  \E n \in DOMAIN inbox' : AsksFor(inbox'[n], r)
    <3>1. PICK n \in DOMAIN inbox : AsksFor(inbox[n], r)
      BY <1>2, <2>1, <2>7 DEF QuestionInv, Open
    <3>2. n # 1
      BY <2>2, <2>3, <2>7, <3>1 DEF AsksFor
    <3>3. n - 1 \in DOMAIN inbox' /\ AsksFor(inbox'[n - 1], r)
      BY <2>3, <3>1, <3>2
    <3> QED
      BY <3>3
  <2>8. CASE question[q].kind \in QuestionKinds /\ Asks(q, FALSE) /\ pending' = q
    <3>1. status' = "input-required" /\ userInput'.id = q /\ userInput'.kind = question[q].kind
      BY <2>8 DEF Asks
    <3> QED
      BY <1>2, <2>1, <2>4, <2>6, <2>7, <2>8, <3>1 DEF QuestionInv, Open
  <2>9. CASE status' = "failed" /\ UNCHANGED <<pending, artifact, userInput>>
    BY <1>2, <2>1, <2>6, <2>9 DEF QuestionInv
  <2> QED
    BY <1>11, <2>2, <2>8, <2>9 DEF HandleQuestion
<1>12. ASSUME NEW m \in Messages, StartTurn(m) \/ RejectMessage(m)
       PROVE  QuestionInv'
  <2>1. UNCHANGED <<question, pending, userInput, inbox>> /\ pending = Nothing /\ status \in {"none", "input-required"}
    BY <1>12 DEF StartTurn, RejectMessage, TakesInput, codexVars, runtimeVars
  <2> QED
    BY <1>1, <2>1, QuestionFrame
<1>13. ASSUME NEW m \in Messages, Resume(m)
       PROVE  QuestionInv'
  <2>1. /\ status = "input-required" /\ pending # Nothing /\ pending' = Nothing
        /\ question' = [question EXCEPT ![pending].stage = "answered"]
        /\ inbox' = inbox /\ status' = "working"
    BY <1>13 DEF Resume, Replies
  <2>2. pending \in Questions
    BY <1>2, <2>1
  <2>3. /\ question'[pending].stage = "answered"
        /\ \A r \in Questions \ {pending} : question'[r] = question[r]
    BY <1>2, <2>1, <2>2
  <2>4. ASSUME NEW r \in Questions, NEW n \in DOMAIN inbox, AsksFor(inbox[n], r)
        PROVE  /\ question'[r].stage = "open" /\ r # pending'
               /\ \A k \in DOMAIN inbox : AsksFor(inbox[k], r) => k = n
    BY <1>2, <2>1, <2>3, <2>4 DEF QuestionInv
  <2>5. ASSUME NEW r \in Questions, question'[r].stage = "open"
        PROVE  \E n \in DOMAIN inbox : AsksFor(inbox[n], r)
    <3>1. r # pending /\ question[r].stage = "open"
      BY <2>3, <2>5
    <3> QED
      BY <1>2, <2>1, <3>1 DEF QuestionInv, Open
  <2> QED
    BY <2>1, <2>4, <2>5 DEF QuestionInv, Open
<1>14. ASSUME NEW m \in Messages, AskAgain(m)
       PROVE  QuestionInv'
  <2>1. /\ status = "input-required" /\ status' = status /\ UNCHANGED <<question, inbox, pending>> /\ pending # Nothing
        /\ userInput'.id = pending /\ userInput'.kind = question[pending].kind
    BY <1>14 DEF AskAgain, Asks, codexVars, runtimeVars
  <2> QED
    BY <1>2, <2>1 DEF QuestionInv, Open
<1>15. CASE Serve \/ UNCHANGED vars
  <2>1. UNCHANGED <<question, pending, userInput, inbox, status>>
    BY <1>15 DEF Serve, vars, codexVars, runtimeVars, taskVars
  <2> QED
    BY <1>1, <1>3, <2>1, QuestionFrame
<1> QED
  BY <1>1, <1>5, <1>6, <1>7, <1>8, <1>9, <1>10, <1>11, <1>12, <1>13, <1>14, <1>15 DEF Next, Codex, Handle, User

----------------------------------------------------------------------------
(* What Codex is told.                                                       *)

LEMMA StepServing == ContentInv /\ [Next]_vars => ServingInv'
<1>1. SUFFICES ASSUME ContentInv, [Next]_vars PROVE ServingInv'
  OBVIOUS
<1>2. UNCHANGED <<flags, serving>> \/ (flags' = flags /\ Valid(ConfigOf(flags)))
  BY <1>1 DEF Next, Codex, Handle, User, Serve, CodexStarts, CodexStreams, CodexCompletes, CodexAsks,
     CodexEndsTurn, Sends, HandleStarted, HandleDelta, HandleCompleted, HandleQuestion, HandleEnd, Handles,
     StartTurn, RejectMessage, Resume, AskAgain, vars
<1> QED
  BY <1>1, <1>2 DEF ContentInv, ServingInv

LEMMA StepExchange == ContentInv /\ [Next]_vars => ExchangeInv'
<1>1. SUFFICES ASSUME ContentInv, [Next]_vars PROVE ExchangeInv'
  OBVIOUS
<1>2. ExchangeInv /\ ServingInv /\ QuestionInv /\ flags \in FlagChoices
  BY <1>1 DEF ContentInv, ContentTypes, TaskTypes
<1>3. CASE exchange' = Nothing
  BY <1>3 DEF ExchangeInv
<1>4. ASSUME NEW m \in Messages, StartTurn(m)
      PROVE  ExchangeInv'
  <2> DEFINE options == RequestOptions(ConfigOf(flags))
             told == [type |-> "turn", said |-> m, input |-> CodexInputs(m),
                      thread |-> ThreadSettings(options), turn |-> TurnSettings(options)]
  <2>1. serving /\ Understood(m) /\ exchange' = told /\ flags' = flags
    BY <1>4 DEF StartTurn, TakesInput
  <2>2. Carries(CodexInputs(m), m)
    BY <2>1, ContentAssumption, InputCarriesMessage
  <2>3. Obeys(ThreadSettings(options), flags) /\ Obeys(TurnSettings(options), flags)
    <3>1. flags.bypass \in BOOLEAN /\ Valid(ConfigOf(flags))
      BY <1>2, <2>1, ContentAssumption DEF ServingInv
    <3> QED
      BY <3>1, SettingsObeyCommandLine
  <2>4. /\ told.type = "turn" /\ told.said = m /\ told.input = CodexInputs(m)
        /\ told.thread = ThreadSettings(options) /\ told.turn = TurnSettings(options)
    OBVIOUS
  <2> HIDE DEF told, options
  <2> QED
    BY <2>1, <2>2, <2>3, <2>4 DEF ExchangeInv
<1>5. ASSUME NEW m \in Messages, Resume(m) \/ AskAgain(m)
      PROVE  ExchangeInv'
  <2> DEFINE kind == question[pending].kind
             told == [type |-> "reply", said |-> m, kind |-> kind, answers |-> Replies(m)]
  <2>1. /\ status = "input-required" /\ pending # Nothing
        /\ Replies(m) = ResponseForPending(m, kind)
    BY <1>5 DEF Resume, AskAgain, Replies
  <2>2. exchange' = told
    BY <1>5 DEF Resume, AskAgain, Exchange
  <2>3. kind \in QuestionKinds
    BY <1>2, <2>1 DEF QuestionInv
  <2>4. Documented(m, kind) \subseteq Replies(m)
    BY <2>1, <2>3, ContentAssumption, DocumentedRepliesAreUnderstood
  <2>5. Replies(m) = {} => pending' # Nothing /\ userInput'.note
    BY <1>5, <2>1 DEF Resume, AskAgain, Asks, runtimeVars
  <2>6. told.type = "reply" /\ told.said = m /\ told.kind = kind /\ told.answers = Replies(m)
    OBVIOUS
  <2> HIDE DEF told, kind
  <2> QED
    BY <2>2, <2>4, <2>5, <2>6 DEF ExchangeInv
<1>6. CASE Codex \/ Handle
  BY <1>3, <1>6 DEF Codex, Handle, CodexStarts, CodexStreams, CodexCompletes, CodexAsks, CodexEndsTurn, Sends,
     HandleStarted, HandleDelta, HandleCompleted, HandleQuestion, HandleEnd, Handles
<1>7. ASSUME NEW m \in Messages, RejectMessage(m)
      PROVE  ExchangeInv'
  BY <1>3, <1>7 DEF RejectMessage
<1>8. CASE Serve \/ UNCHANGED vars
  <2>1. UNCHANGED <<exchange, flags, pending, userInput>>
    BY <1>8 DEF Serve, vars, runtimeVars, taskVars
  <2> QED
    BY <1>2, <2>1 DEF ExchangeInv
<1> QED
  BY <1>1, <1>4, <1>5, <1>6, <1>7, <1>8 DEF Next, User

LEMMA ContentInvariant == Spec => []ContentInv
<1>1. Init => ContentInv
  BY InitialTypes, InitialOutput, InitialQuestions DEF Init, ContentInv, ServingInv, ExchangeInv
<1>2. ContentInv /\ [Next]_vars => ContentInv'
  <2>1. SUFFICES ASSUME ContentInv, [Next]_vars PROVE ContentInv'
    OBVIOUS
  <2>2. ContentTypes'
    BY <2>1, StepCodexTypes, StepQueue, StepTaskTypes DEF ContentInv, ContentTypes
  <2> QED
    BY <2>1, <2>2, StepServing, StepQuestions, StepExchange, StepOutput DEF ContentInv
<1> QED
  BY <1>1, <1>2, PTL DEF Spec

----------------------------------------------------------------------------
(* The theorems.                                                             *)

(* The runtime holds a question exactly while its task is paused on it       *)
(* (executor.go:209-211, 179; broker.go:76-81).                              *)
THEOREM ContentTypesHold == Spec => []ContentTypeOK
<1>1. ContentInv => ContentTypeOK
  <2>1. SUFFICES ASSUME ContentInv PROVE ContentTypeOK
    OBVIOUS
  <2>2. CodexTypes /\ QueueTypes /\ TaskTypes /\ ArtifactTypes /\ QuestionInv
    BY <2>1 DEF ContentInv, ContentTypes, TaskTypes
  <2>3. ASSUME NEW i \in Items
        PROVE  /\ item[i].kind \in Kinds \cup {"none"} /\ item[i].stage \in {"new", "running", "done"}
               /\ item[i].pieces \in 0 .. MaxPieces /\ Len(item[i].whole) <= MaxPieces + 1
               /\ Len(buffer[i]) <= item[i].pieces
               /\ artifact[i].stage \in {"none", "running", "done"}
    <3>1. Len(item[i].whole) <= MaxPieces + 1 /\ Len(buffer[i]) <= item[i].pieces
      BY <2>1, OutputFacts DEF LifeOf
    <3> QED
      BY <2>2, <3>1 DEF CodexTypes, ArtifactTypes, Stages
  <2>4. turn.running \in BOOLEAN /\ turn.number \in 0 .. MaxTurns
    BY <2>2 DEF CodexTypes
  <2>5. pending = Nothing \/ (pending \in Questions /\ status = "input-required")
    BY <2>2 DEF TaskTypes, QuestionInv
  <2> QED
    BY <2>2, <2>3, <2>4, <2>5 DEF ContentTypeOK, CodexTypes, QueueTypes, TaskTypes
<1> QED
  BY <1>1, ContentInvariant, PTL

(* What an artifact shows, with what is on its way, is what its item has     *)
(* streamed: in order, each piece once, through pauses, other items and      *)
(* turns, and in the end the whole Codex reported (executor.go:322-357,      *)
(* 641-687).                                                                 *)
THEOREM ArtifactsAreFaithful == Spec => []ArtifactsShowOutput
BY ContentInvariant, ShownOutput, PTL

(* No question of Codex is forgotten, a paused task shows the one its user   *)
(* is to answer, and a documented reply is taken as what it says             *)
(* (executor.go:161-184, 199-212, 425-473).                                  *)
THEOREM QuestionsAreAnswered == Spec => []QuestionsFindAnswers
<1>1. ContentInv => QuestionsFindAnswers
  <2>1. SUFFICES ASSUME ContentInv PROVE QuestionsFindAnswers
    OBVIOUS
  <2>2. QuestionInv /\ ExchangeInv /\ pending \in Questions \cup {Nothing}
    BY <2>1, QuestionTypes DEF ContentInv
  <2>3. ASSUME status \in {"working", "input-required"}
        PROVE  Open = Unread \cup (IF pending = Nothing THEN {} ELSE {pending})
    <3>1. \A q \in Open : q = pending \/ q \in Unread
      BY <2>2, <2>3 DEF QuestionInv, Unread, AsksFor, Open
    <3>2. \A q \in Unread : q \in Open
      BY <2>2 DEF QuestionInv, Unread, AsksFor, Open
    <3>3. pending # Nothing => pending \in Open
      BY <2>2 DEF QuestionInv, Open
    <3>4. \A q \in Open : q \in Questions /\ q # Nothing
      BY ContentAssumption DEF Open
    <3> HIDE DEF Open, Unread
    <3> QED
      BY <3>1, <3>2, <3>3, <3>4
  <2>4. pending # Nothing => userInput.id = pending /\ userInput.kind = question[pending].kind
    BY <2>2 DEF QuestionInv
  <2>5. exchange # Nothing /\ exchange.type = "reply" =>
          /\ Documented(exchange.said, exchange.kind) \subseteq exchange.answers
          /\ exchange.answers = {} => pending # Nothing /\ userInput.note
    BY <2>2 DEF ExchangeInv
  <2> QED
    BY <2>3, <2>4, <2>5 DEF QuestionsFindAnswers
<1> QED
  BY <1>1, ContentInvariant, PTL

(* A turn starts with all the user said, in a thread and under settings that *)
(* are those of the command line, and a server that has started can always   *)
(* make them (executor.go:122-137, 366-423; broker.go:192-207;               *)
(* config.go:69-145).                                                        *)
THEOREM TurnsGetWhatWasSaid == Spec => []TurnGetsWhatWasSaid
<1>1. ContentInv => TurnGetsWhatWasSaid
  <2>1. SUFFICES ASSUME ContentInv PROVE TurnGetsWhatWasSaid
    OBVIOUS
  <2>2. serving => HasOptions(ConfigOf(flags))
    BY <2>1, ValidConfigHasOptions DEF ContentInv, ServingInv
  <2> QED
    BY <2>1, <2>2 DEF ContentInv, ExchangeInv, TurnGetsWhatWasSaid
<1> QED
  BY <1>1, ContentInvariant, PTL
----------------------------------------------------------------------------
(* Artifacts only grow.                                                      *)

(* What Codex reports as the whole of an item begins with all it streamed.   *)
WholeInv == \A i \in Items : item[i].whole \in {<<>>, Count(item[i].pieces + 1)}

LEMMA StepWhole == ContentInv /\ WholeInv /\ [Next]_vars => WholeInv'
<1>1. SUFFICES ASSUME ContentInv, WholeInv, [Next]_vars, NEW i \in Items
               PROVE  item'[i].whole \in {<<>>, Count(item'[i].pieces + 1)}
  BY DEF WholeInv
<1>2. /\ item \in [Items -> [kind : Kinds \cup {"none"}, stage : Stages, pieces : 0 .. MaxPieces,
                             whole : Seq(Nat)]]
      /\ item[i].whole \in {<<>>, Count(item[i].pieces + 1)}
  BY <1>1 DEF ContentInv, ContentTypes, CodexTypes, WholeInv
<1>3. CASE item'[i] = item[i]
  BY <1>2, <1>3
<1>4. ASSUME NEW j \in Items, NEW k \in Kinds, CodexStarts(j, k)
      PROVE  i # j => item'[i] = item[i]
  BY <1>2, <1>4 DEF CodexStarts
<1>5. ASSUME NEW k \in Kinds, CodexStarts(i, k)
      PROVE  item'[i].whole = <<>>
  BY <1>2, <1>5 DEF CodexStarts, Item
<1>6. ASSUME NEW j \in Items, CodexStreams(j)
      PROVE  IF i = j THEN item'[i].whole = <<>> ELSE item'[i] = item[i]
  <2>1. item[i].stage = "running" => item[i].whole = <<>>
    BY OutputFacts, <1>1 DEF LifeOf
  <2> QED
    BY <1>2, <1>6, <2>1 DEF CodexStreams
<1>7. ASSUME NEW j \in Items, CodexCompletes(j)
      PROVE  \/ i # j /\ item'[i] = item[i]
             \/ item'[i].whole \in {<<>>, Count(item'[i].pieces + 1)}
  <2>1. PICK whole \in {<<>>, Append(Streamed(j), item[j].pieces + 1)} :
          item' = [item EXCEPT ![j] = Item(@.kind, "done", @.pieces, whole)]
    BY <1>7 DEF CodexCompletes
  <2>2. Append(Streamed(j), item[j].pieces + 1) = Count(item[j].pieces + 1)
    BY <1>1, StreamedType, CountFacts DEF ContentInv
  <2>3. CASE i # j
    BY <1>2, <2>1, <2>3
  <2>4. CASE i = j
    <3>1. item'[i] = Item(item[i].kind, "done", item[i].pieces, whole)
      BY <1>2, <2>1, <2>4
    <3>2. item'[i].whole = whole /\ item'[i].pieces = item[i].pieces
      BY <3>1 DEF Item
    <3> QED
      BY <2>1, <2>2, <2>4, <3>2
  <2> QED
    BY <2>3, <2>4
<1>8. CASE UNCHANGED item
  BY <1>3, <1>8
<1>9. CASE Codex
  <2>1. CASE \E q \in Questions, k \in QuestionKinds \cup {"other"} : CodexAsks(q, k)
    BY <1>8, <2>1 DEF CodexAsks
  <2>2. CASE \E how \in {"completed", "interrupted", "failed"} : CodexEndsTurn(how)
    BY <1>8, <2>2 DEF CodexEndsTurn
  <2>3. CASE \E j \in Items : CodexStreams(j) \/ CodexCompletes(j) \/ \E k \in Kinds : CodexStarts(j, k)
    BY <1>3, <1>4, <1>5, <1>6, <1>7, <2>3
  <2> QED
    BY <1>9, <2>1, <2>2, <2>3 DEF Codex
<1>10. CASE Handle \/ Serve \/ User \/ UNCHANGED vars
  BY <1>8, <1>10 DEF Handle, HandleStarted, HandleDelta, HandleCompleted, HandleQuestion, HandleEnd,
     Handles, Serve, User, StartTurn, RejectMessage, Resume, AskAgain, codexVars, vars
<1> QED
  BY <1>1, <1>9, <1>10 DEF Next

LEMMA WholeInvariant == Spec => []WholeInv
<1>1. Init => WholeInv
  BY DEF Init, Item, WholeInv
<1> QED
  BY <1>1, StepWhole, ContentInvariant, PTL DEF Spec

Extends(text, more) ==
  Len(text) <= Len(more) /\ \A k \in 1 .. Len(text) : more[k] = text[k]

LEMMA ExtendsFacts ==
  /\ \A s \in Seq(Nat) : Extends(<<>>, s) /\ Extends(s, s)
  /\ \A s, t \in Seq(Nat) : Extends(s, s \o t)
  /\ \A m, n \in Nat : m <= n => Extends(Count(m), Count(n))
<1>1. \A s \in Seq(Nat) : Extends(<<>>, s) /\ Extends(s, s)
  BY DEF Extends
<1>2. \A s, t \in Seq(Nat) : Extends(s, s \o t)
  BY ConcatFacts DEF Extends
<1>3. ASSUME NEW m \in Nat, NEW n \in Nat, m <= n
      PROVE  Extends(Count(m), Count(n))
  <2>1. Len(Count(m)) = m /\ Len(Count(n)) = n
    BY CountFacts
  <2>2. \A k \in 1 .. m : Count(m)[k] = k /\ Count(n)[k] = k
    BY <1>3 DEF Count
  <2> QED
    BY <1>3, <2>1, <2>2 DEF Extends
<1> QED
  BY <1>1, <1>2, <1>3

ArtifactsOnlyGrow ==
  \A i \in Items : Extends(artifact[i].text, artifact'[i].text)

LEMMA ArtifactStep ==
  ASSUME ContentInv, ContentInv', WholeInv, [Next]_vars
  PROVE  ArtifactsOnlyGrow
<1>1. SUFFICES ASSUME NEW i \in Items
               PROVE  Extends(artifact[i].text, artifact'[i].text)
  BY DEF ArtifactsOnlyGrow
<1>2. /\ inbox \in Seq(Notices) /\ ArtifactTypes /\ artifact[i].text \in Seq(Nat)
      /\ buffer \in [Items -> Seq(Nat)] /\ item[i].kind \in Kinds \cup {"none"}
  BY DEF ContentInv, ContentTypes, CodexTypes, QueueTypes, TaskTypes, ArtifactTypes
<1> DEFINE b == Len(buffer[i])
<1>3. /\ item[i].pieces \in Nat /\ LifeOf(item[i]) /\ b \in 0 .. item[i].pieces
      /\ buffer[i] = Count(b) /\ InOrder(inbox, i, item[i], b)
      /\ artifact[i].text = IF item[i].stage = "done" /\ ~ EndIn(inbox, i)
                              THEN FirstNonEmpty(item[i].whole, Count(item[i].pieces)) ELSE buffer[i]
  BY OutputFacts
<1>4. CASE artifact'[i] = artifact[i]
  BY <1>2, <1>4, ExtendsFacts
<1> DEFINE x == Head(inbox)
<1>5. ASSUME inbox # <<>>, Tells(x, i)
      PROVE  artifact[i].text = Count(b)
  <2>1. ~ Silent(inbox, i)
    BY <1>2, <1>5, TailFacts DEF Silent
  <2>2. item[i].stage = "done" => EndIn(inbox, i)
    BY <1>3, <2>1 DEF InOrder
  <2> QED
    BY <1>3, <2>2
<1>6. CASE HandleStarted
  <2>1. inbox # <<>> /\ x.type = "started"
    BY <1>6 DEF HandleStarted, Handles
  <2>2. artifact' = artifact \/ ReplaceArtifact(x.item, "running", <<>>)
    BY <1>6 DEF HandleStarted
  <2>3. CASE x.item = i
    <3>1. IsStart(inbox[1], i) /\ Tells(x, i) /\ 1 \in DOMAIN inbox
      BY <1>2, <2>1, <2>3, TailFacts DEF IsStart, Tells, ItemNotices
    <3>2. b = 0
      BY <1>3, <3>1 DEF InOrder, StartFirst
    <3>3. artifact[i].text = <<>>
      <4>1. artifact[i].text = Count(b)
        BY <1>5, <2>1, <3>1
      <4>2. 0 \in Nat /\ (Count(0) = <<>> <=> 0 = 0)
        BY CountFacts
      <4> QED
        BY <3>2, <4>1, <4>2
    <3>4. artifact'[i].text \in Seq(Nat)
      BY DEF ContentInv, ContentTypes, TaskTypes, ArtifactTypes
    <3> QED
      BY <3>3, <3>4, ExtendsFacts
  <2>4. CASE x.item # i
    BY <1>2, <1>4, <2>2, <2>4 DEF ReplaceArtifact, ArtifactTypes
  <2> QED
    BY <2>3, <2>4
<1>7. CASE HandleDelta
  <2>1. inbox # <<>> /\ x.type = "delta" /\ x \in Notices
    BY <1>2, <1>7, TailFacts DEF HandleDelta, Handles
  <2> DEFINE piece == <<x.piece>>
  <2>2. /\ Accumulate(x.item, piece)
        /\ \/ ReplaceArtifact(x.item, "none", buffer'[x.item])
           \/ AppendArtifact(x.item, piece)
    BY <1>7 DEF HandleDelta
  <2>3. CASE x.item = i
    <3>1. piece \in Seq(Nat) /\ Tells(x, i)
      BY <2>1, <2>3, NoticeKinds DEF Tells, ItemNotices
    <3>2. artifact[i].text = buffer[i]
      BY <1>3, <1>5, <2>1, <3>1
    <3>3. buffer'[i] = buffer[i] \o piece /\ buffer'[i] \in Seq(Nat)
      <4> HIDE DEF piece
      <4>1. buffer'[i] = buffer[i] \o piece
        BY <1>2, <2>2, <2>3 DEF Accumulate
      <4>2. buffer[i] \in Seq(Nat)
        BY <1>2
      <4> QED
        BY <3>1, <4>1, <4>2, ConcatFacts
    <3>4. artifact'[i].text = buffer[i] \o piece
      <4> HIDE DEF piece
      <4>1. \/ ReplaceArtifact(i, "none", buffer'[i])
            \/ AppendArtifact(i, piece)
        BY <2>2, <2>3
      <4>2. CASE ReplaceArtifact(i, "none", buffer'[i])
        BY <1>2, <3>3, <4>2, ArtifactUpdates
      <4>3. CASE AppendArtifact(i, piece)
        BY <1>2, <3>1, <3>2, <4>3, ArtifactUpdates
      <4> QED
        BY <4>1, <4>2, <4>3
    <3>5. Extends(buffer[i], buffer[i] \o piece)
      <4> HIDE DEF piece
      <4>1. buffer[i] \in Seq(Nat)
        BY <1>2
      <4> QED
        BY <3>1, <4>1, ExtendsFacts
    <3> QED
      BY <3>2, <3>4, <3>5
  <2>4. CASE x.item # i
    BY <1>2, <1>4, <2>2, <2>4 DEF ReplaceArtifact, AppendArtifact, ArtifactTypes
  <2> QED
    BY <2>3, <2>4
<1>8. CASE HandleCompleted
  <2>1. inbox # <<>> /\ x.type = "completed" /\ x \in Notices
    BY <1>2, <1>8, TailFacts DEF HandleCompleted, Handles
  <2> DEFINE whole == x.whole
  <2>2. IF item[x.item].kind = "agentMessage"
          THEN IF whole = <<>> THEN UNCHANGED artifact
               ELSE ReplaceArtifact(x.item, "none", CompletedText(x.item, whole))
          ELSE ReplaceArtifact(x.item, "done", CompletedText(x.item, whole))
    BY <1>8 DEF HandleCompleted
  <2>3. CASE x.item = i
    <3>1. IsEnd(inbox[1], i) /\ Tells(x, i) /\ 1 \in DOMAIN inbox /\ inbox[1] = x
      BY <1>2, <2>1, <2>3, TailFacts DEF IsEnd, Tells, ItemNotices
    <3>2. artifact[i].text = Count(b)
      BY <1>5, <2>1, <3>1
    <3>3. whole = item[i].whole /\ item[i].stage = "done"
      BY <1>3, <3>1 DEF InOrder, EndLast
    <3>4. whole \in {<<>>, Count(item[i].pieces + 1)}
      BY <3>3 DEF WholeInv
    <3>5. b \in Nat /\ b <= item[i].pieces + 1 /\ item[i].pieces + 1 \in Nat
      BY <1>3
    <3>6. /\ Extends(Count(b), Count(b)) /\ Extends(Count(b), Count(item[i].pieces + 1))
      BY <3>5, ExtendsFacts
    <3>7. whole # <<>> => Extends(Count(b), whole)
      BY <3>4, <3>6
    <3>8. item[i].kind \in Kinds /\ (item[i].kind = "mcpToolCall" => b = 0)
      BY <1>3, <3>3 DEF LifeOf
    <3>9. ASSUME UNCHANGED artifact \/ artifact'[i].text = CompletedText(i, whole),
                 item[i].kind = "agentMessage" => UNCHANGED artifact \/ whole # <<>>
          PROVE  Extends(artifact[i].text, artifact'[i].text)
      <4>1. CASE UNCHANGED artifact
        BY <1>4, <4>1
      <4>2. CASE artifact'[i].text = CompletedText(i, whole) /\ ~ UNCHANGED artifact
        <5>1. CompletedText(i, whole) = buffer[i] \/ CompletedText(i, whole) = whole
              \/ (CompletedText(i, whole) = <<>> /\ b = 0)
          BY <3>8 DEF CompletedText, FirstNonEmpty, Kinds
        <5>2. whole = <<>> => CompletedText(i, whole) = buffer[i] \/ (CompletedText(i, whole) = <<>> /\ b = 0)
          BY <3>8, <3>9, <4>2 DEF CompletedText, FirstNonEmpty, Kinds
        <5>3. b = 0 => Count(b) = <<>>
          BY CountFacts
        <5> QED
          BY <1>3, <3>2, <3>6, <3>7, <4>2, <5>1, <5>2, <5>3
      <4> QED
        BY <3>9, <4>1, <4>2
    <3>10. CompletedText(i, whole) \in Seq(Nat)
      <4>1. whole \in Seq(Nat)
        BY <2>1, NoticeKinds
      <4> QED
        BY <1>2, <3>8, <4>1 DEF CompletedText, FirstNonEmpty, Kinds
    <3>11. ASSUME NEW stage \in {"none", "running", "done"},
                  ReplaceArtifact(i, stage, CompletedText(i, whole))
           PROVE  artifact'[i].text = CompletedText(i, whole)
      BY <1>2, <3>10, <3>11, ArtifactUpdates
    <3> QED
      BY <2>2, <2>3, <3>9, <3>11
  <2>4. CASE x.item # i
    BY <1>2, <1>4, <2>2, <2>4 DEF ReplaceArtifact, ArtifactTypes
  <2> QED
    BY <2>3, <2>4
<1>9. CASE HandleQuestion \/ HandleEnd
  BY <1>4, <1>9 DEF HandleQuestion, HandleEnd, Asks
<1>10. CASE Codex \/ Serve \/ User \/ UNCHANGED vars
  BY <1>4, <1>10 DEF Codex, CodexStarts, CodexStreams, CodexCompletes, CodexAsks, CodexEndsTurn, Sends,
     Serve, User, StartTurn, RejectMessage, Resume, AskAgain, Asks, taskVars, vars
<1> QED
  BY <1>6, <1>7, <1>8, <1>9, <1>10 DEF Next, Handle

(* What a client has been shown of an item is never taken back: through the  *)
(* placeholder that a started item gets, the appended and the replaced       *)
(* chunks and the final text, each update extends the one before, as long as *)
(* the whole that Codex reports extends what it streamed                     *)
(* (executor.go:322-357, 641-687).                                           *)
THEOREM ShownOutputIsNeverTakenBack == Spec => [][ArtifactsOnlyGrow]_vars
<1>1. ContentInv /\ ContentInv' /\ WholeInv /\ [Next]_vars => ArtifactsOnlyGrow
  BY ArtifactStep
<1> QED
  BY <1>1, ContentInvariant, WholeInvariant, PTL DEF Spec
=============================================================================
