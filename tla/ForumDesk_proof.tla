-------------------------- MODULE ForumDesk_proof --------------------------
(***************************************************************************)
(* Proofs about what the forum keeps for one review: the files its         *)
(* messages name and its layout issues, for every number of messages,      *)
(* images, issues, requests and versions, and for every bound of the code. *)
(***************************************************************************)
EXTENDS MCForumDesk, FiniteSetTheorems, SequenceTheorems, TLAPS

USE FilesAssumption, TrayAssumption

-----------------------------------------------------------------------------
(* The files of messages.                                                   *)

MsgPlaces   == {"none", "queued", "sent", "acked"}
ImageStates == {"unused", "new", "old", "deleted"}
FilesTypes  == /\ msg \in [Message -> [at : MsgPlaces, imgs : SUBSET Image, board : Nat]]
               /\ stored \in [Image -> ImageStates]
               /\ transcript \in Seq(Message \cup {Reply})
               /\ scene \in Nat /\ published \in Nat
               /\ submit \subseteq [m : Message, board : Nat]
\* What a server that starts again loads is what the one before it had.
SavedAll    == onDisk = transcript
\* Nobody waits with a whiteboard newer than the one on file, nor is that one ahead.
BoardsInLine == published <= scene /\ \A q \in submit : q.board <= published
FilesIInv   == FilesTypes /\ SavedAll /\ BoardsInLine /\ FilesKept

\* What a sequence that is put together, or cut, can hold.
LEMMA ConcatHolds ==
  ASSUME NEW S, NEW s \in Seq(S), NEW t \in Seq(S)
  PROVE  s \o t \in Seq(S) /\ ToSet(s \o t) \subseteq ToSet(s) \cup ToSet(t)
<1>1. s \o t \in Seq(S)
  OBVIOUS
<1>2. ASSUME NEW i \in DOMAIN (s \o t) PROVE (s \o t)[i] \in ToSet(s) \cup ToSet(t)
  <2>1. CASE i <= Len(s)
    <3>1. i \in DOMAIN s /\ (s \o t)[i] = s[i]
      BY <1>2, <2>1
    <3> QED BY <3>1 DEF ToSet
  <2>2. CASE ~(i <= Len(s))
    <3>1. (i - Len(s)) \in DOMAIN t /\ (s \o t)[i] = t[i - Len(s)]
      BY <1>2, <2>2
    <3> QED BY <3>1 DEF ToSet
  <2> QED BY <2>1, <2>2
<1> QED BY <1>1, <1>2 DEF ToSet

LEMMA BoundedHolds ==
  ASSUME NEW S, NEW s \in Seq(S)
  PROVE  Bounded(s) \in Seq(S) /\ ToSet(Bounded(s)) \subseteq ToSet(s)
<1>1. CASE Len(s) > MaxTranscript
  <2>1. Bounded(s) = SubSeq(s, Len(s) - MaxTranscript + 1, Len(s))
    BY <1>1 DEF Bounded
  <2>2. Bounded(s) \in Seq(S)
    BY <2>1, <1>1
  <2>3. \A i \in DOMAIN Bounded(s) : \E j \in DOMAIN s : Bounded(s)[i] = s[j]
    <3> TAKE i \in DOMAIN Bounded(s)
    <3>1. i \in 1..MaxTranscript
      BY <2>1, <1>1
    <3>2. (Len(s) - MaxTranscript + i) \in DOMAIN s /\ Bounded(s)[i] = s[Len(s) - MaxTranscript + i]
      BY <2>1, <1>1, <3>1
    <3> QED BY <3>2
  <2> QED BY <2>2, <2>3 DEF ToSet
<1>2. CASE ~(Len(s) > MaxTranscript)
  BY <1>2 DEF Bounded, ToSet
<1> QED BY <1>1, <1>2

\* A file is kept when nobody comes to claim another, and none that is still
\* claimed goes.
LEMMA ClaimsShrink ==
  ASSUME FilesTypes, FilesKept, published' >= published, published' \in Nat,
         \A m \in Claims(msg', transcript') :
            \/ msg'[m].imgs = {} /\ (msg'[m].at \in PendingFor => published' >= msg'[m].board)
            \/ /\ m \in Claims(msg, transcript) /\ msg'[m].imgs = msg[m].imgs
               /\ msg'[m].board = msg[m].board
               /\ msg'[m].at \in PendingFor => msg[m].at \in PendingFor,
         \A i \in ClaimedBy(msg', transcript') : Present(i) => Present(i)'
  PROVE  FilesKept'
<1>1. \A m \in Claims(msg', transcript') : m \in Message
  BY DEF Claims
<1>2. ASSUME NEW m \in Claims(msg', transcript'), NEW i \in msg'[m].imgs PROVE Present(i)'
  <2>1. m \in Claims(msg, transcript) /\ i \in msg[m].imgs
    BY <1>2
  <2>2. i \in ClaimedBy(msg', transcript')
    BY <1>2 DEF ClaimedBy
  <2> QED BY <2>1, <2>2 DEF FilesKept
<1>3. ASSUME NEW m \in Claims(msg', transcript'), msg'[m].at \in PendingFor
      PROVE  published' >= msg'[m].board
  BY <1>1, <1>3 DEF FilesKept, FilesTypes
<1>4. ASSUME NEW m \in Claims(msg', transcript'), NEW n \in Claims(msg', transcript') \ {m}
      PROVE  msg'[m].imgs \cap msg'[n].imgs = {}
  BY <1>4 DEF FilesKept
<1> QED BY <1>2, <1>3, <1>4 DEF FilesKept, Claims

\* A message that goes back to where it was, or comes with a whiteboard, has no image.
LEMMA NoMessageTyped ==
  NoMessage \in [at : MsgPlaces, imgs : SUBSET Image, board : Nat] /\ NoMessage.imgs = {}
  BY DEF NoMessage, MsgPlaces

LEMMA DroppedTyped ==
  ASSUME FilesTypes, NEW S, NEW M, NEW T
  PROVE  /\ Dropped(S, M, T) \in [Image -> ImageStates]
         /\ \A i \in ClaimedBy(M, T) : i \in Image => Dropped(S, M, T)[i] = stored[i]
  BY DEF FilesTypes, Dropped, ImageStates

LEMMA SweptTyped ==
  ASSUME FilesTypes, NEW M, NEW T
  PROVE  /\ Swept(M, T) \in [Image -> ImageStates]
         /\ \A i \in ClaimedBy(M, T) : i \in Image => Swept(M, T)[i] = stored[i]
  BY DEF FilesTypes, Swept, ImageStates

LEMMA MoveTyped ==
  ASSUME NEW r \in [at : MsgPlaces, imgs : SUBSET Image, board : Nat], NEW a \in MsgPlaces
  PROVE  [r EXCEPT !.at = a] \in [at : MsgPlaces, imgs : SUBSET Image, board : Nat]
  OBVIOUS

LEMMA ImagesStay ==
  ASSUME FilesTypes, NEW M \in [Message -> [at : MsgPlaces, imgs : SUBSET Image, board : Nat]], NEW T
  PROVE  ClaimedBy(M, T) \subseteq Image
  BY DEF ClaimedBy, Claims

LEMMA FilesStart == FilesInit => FilesIInv
<1> SUFFICES ASSUME FilesInit PROVE FilesIInv
  OBVIOUS
<1>1. FilesTypes /\ SavedAll /\ BoardsInLine
  BY NoMessageTyped DEF FilesInit, FilesTypes, SavedAll, BoardsInLine, ImageStates
<1>2. Claims(msg, transcript) = {}
  BY DEF FilesInit, Claims, NoMessage, PendingFor, ToSet
<1> QED BY <1>1, <1>2 DEF FilesIInv, FilesKept

\* Images come, go and grow old.
LEMMA ImageStep ==
  ASSUME FilesIInv, NEW i \in Image, Stage(i) \/ Discard(i) \/ AgeImage(i)
  PROVE  FilesIInv'
<1>1. FilesTypes /\ UNCHANGED <<msg, transcript, onDisk, scene, published, submit>>
  BY DEF FilesIInv, Stage, Discard, AgeImage
<1>2. Swept(msg, transcript) \in [Image -> ImageStates]
  BY <1>1, SweptTyped
<1>3. ClaimedBy(msg, transcript) \subseteq Image
  BY <1>1, ImagesStay DEF FilesTypes
<1>4. /\ stored' \in [Image -> ImageStates]
      /\ \A j \in ClaimedBy(msg, transcript) : Present(j) => Present(j)'
  <2>1. CASE Stage(i)
    <3>1. \A j \in ClaimedBy(msg, transcript) : Swept(msg, transcript)[j] = stored[j]
      BY <1>1, <1>3, SweptTyped
    <3>2. \/ stored' = Swept(msg, transcript)
          \/ stored' = [Swept(msg, transcript) EXCEPT ![i] = "new"]
      BY <2>1 DEF Stage
    <3> QED BY <1>2, <1>3, <3>1, <3>2 DEF Present, ImageStates
  <2>2. CASE Discard(i)
    BY <1>1, <1>3, <2>2 DEF Discard, Claimed, Present, FilesTypes, ImageStates
  <2>3. CASE AgeImage(i)
    BY <1>1, <1>3, <2>3 DEF AgeImage, Present, FilesTypes, ImageStates
  <2> QED BY <2>1, <2>2, <2>3
<1>5. FilesKept'
  BY <1>1, <1>4, ClaimsShrink DEF FilesIInv, FilesTypes
<1> QED BY <1>1, <1>4, <1>5 DEF FilesIInv, FilesTypes, SavedAll, BoardsInLine

\* A prompt with images is queued, in the place of another or not.
LEMMA QueueStep ==
  ASSUME FilesIInv, NEW m \in Message, NEW old \in {{}} \cup {{o} : o \in Message},
         NEW imgs \in SUBSET Image, QueueImages(m, old, imgs)
  PROVE  FilesIInv'
<1> DEFINE replaced == UNION {msg[o].imgs : o \in old}
<1>1. /\ msg' = [x \in Message |-> IF x = m THEN [at |-> "queued", imgs |-> imgs, board |-> 0]
                                   ELSE IF x \in old THEN NoMessage ELSE msg[x]]
      /\ Resolvable(imgs, replaced) /\ stored' = Dropped(replaced, msg', transcript)
      /\ UNCHANGED <<transcript, onDisk, scene, published, submit>>
  BY DEF QueueImages
<1>2. FilesTypes /\ FilesKept
  BY DEF FilesIInv
<1>3. msg' \in [Message -> [at : MsgPlaces, imgs : SUBSET Image, board : Nat]]
  <2>1. [at |-> "queued", imgs |-> imgs, board |-> 0] \in [at : MsgPlaces, imgs : SUBSET Image, board : Nat]
    BY DEF MsgPlaces
  <2> QED BY <1>1, <1>2, <2>1, NoMessageTyped DEF FilesTypes
<1>4. ClaimedBy(msg', transcript) \subseteq Image
  BY <1>3, ImagesStay, <1>2
<1>5. stored' \in [Image -> ImageStates] /\ \A i \in ClaimedBy(msg', transcript) : stored'[i] = stored[i]
  BY <1>1, <1>2, <1>4, DroppedTyped
<1>6. \A x \in Message : x # m => msg'[x] = msg[x] \/ (x \in old /\ msg'[x].imgs = {})
  BY <1>1, NoMessageTyped
<1>7. msg'[m].imgs = imgs /\ msg'[m].at = "queued" /\ msg'[m].board = 0
  BY <1>1
\* Of the others, those with images claimed them before.
<1>8. \A x \in Claims(msg', transcript') : x # m =>
         \/ msg'[x].imgs = {} /\ msg'[x].at = "none"
         \/ x \in Claims(msg, transcript) /\ msg'[x] = msg[x] /\ x \notin old
  BY <1>1 DEF Claims, NoMessage
<1>9. \A i \in imgs, x \in Claims(msg', transcript') : x # m => i \notin msg'[x].imgs
  <2> SUFFICES ASSUME NEW i \in imgs, NEW x \in Claims(msg', transcript'), x # m, i \in msg'[x].imgs
               PROVE  FALSE
    OBVIOUS
  <2>1. x \in Claims(msg, transcript) /\ i \in msg[x].imgs /\ x \notin old
    BY <1>8
  <2>2. i \in Claimed
    BY <2>1 DEF Claimed, ClaimedBy
  <2>3. PICK o \in old : i \in msg[o].imgs
    BY <1>1, <2>2 DEF Resolvable
  <2>4. o \in Claims(msg, transcript)
    BY <2>3 DEF QueueImages, Claims, PendingFor
  <2> QED BY <1>2, <2>1, <2>3, <2>4 DEF FilesKept
<1>10. \A i \in imgs : Present(i)
  BY <1>1 DEF Resolvable
<1>11. FilesKept'
  <2>1. ASSUME NEW x \in Claims(msg', transcript'), NEW i \in msg'[x].imgs PROVE Present(i)'
    <3>1. i \in ClaimedBy(msg', transcript)
      BY <1>1, <2>1 DEF ClaimedBy
    <3>2. Present(i)
      BY <1>2, <1>7, <1>8, <1>10, <2>1 DEF FilesKept
    <3> QED BY <1>5, <3>1, <3>2 DEF Present
  <2>2. ASSUME NEW x \in Claims(msg', transcript'), msg'[x].at \in PendingFor
        PROVE  published' >= msg'[x].board
    BY <1>1, <1>2, <1>7, <1>8, <2>2 DEF FilesKept, FilesTypes, PendingFor
  <2>3. ASSUME NEW x \in Claims(msg', transcript'), NEW n \in Claims(msg', transcript') \ {x}
        PROVE  msg'[x].imgs \cap msg'[n].imgs = {}
    BY <1>2, <1>7, <1>8, <1>9, <2>3 DEF FilesKept
  <2> QED BY <2>1, <2>2, <2>3 DEF FilesKept, Claims
<1> QED BY <1>1, <1>2, <1>3, <1>5, <1>11 DEF FilesIInv, FilesTypes, SavedAll, BoardsInLine

LEMMA WithdrawnStep ==
  ASSUME FilesIInv, NEW m \in Message, RemoveImages(m)
  PROVE  FilesIInv'
<1>1. /\ FilesTypes /\ msg' = [msg EXCEPT ![m] = NoMessage]
      /\ stored' = Dropped(msg[m].imgs, msg', transcript)
      /\ UNCHANGED <<transcript, onDisk, scene, published, submit>>
  BY DEF FilesIInv, RemoveImages
<1>2. msg' \in [Message -> [at : MsgPlaces, imgs : SUBSET Image, board : Nat]]
  BY <1>1, NoMessageTyped DEF FilesTypes
<1>3. /\ stored' \in [Image -> ImageStates]
      /\ \A i \in ClaimedBy(msg', transcript') : stored'[i] = stored[i]
  <2>1. ClaimedBy(msg', transcript) \subseteq Image
    BY <1>1, <1>2, ImagesStay
  <2>2. FilesTypes /\ (\E S : stored' = Dropped(S, msg', transcript)) /\ transcript' = transcript
    BY <1>1
  <2> QED BY <2>1, <2>2, DroppedTyped
<1>4. \A x \in Claims(msg', transcript') :
         \/ msg'[x].imgs = {} /\ msg'[x].at = "none"
         \/ x \in Claims(msg, transcript) /\ msg'[x] = msg[x]
  BY <1>1 DEF Claims, NoMessage, FilesTypes
<1>5. FilesKept'
  <2>1. FilesKept /\ published' >= published /\ published' \in Nat
    BY <1>1 DEF FilesIInv, FilesTypes
  <2>2. \A i \in ClaimedBy(msg', transcript') : Present(i) => Present(i)'
    BY <1>3 DEF Present
  <2> QED BY <1>1, <1>4, <2>1, <2>2, ClaimsShrink DEF PendingFor
<1> QED BY <1>1, <1>2, <1>3, <1>5 DEF FilesIInv, FilesTypes, SavedAll, BoardsInLine

\* What is said is appended, and the oldest is evicted.
LEMMA SaidStep ==
  ASSUME FilesIInv, "unsaved" \notin FilesEvent,
         NEW new \in Seq(Message \cup {Reply}), AppendTranscript(msg', new),
         msg' \in [Message -> [at : MsgPlaces, imgs : SUBSET Image, board : Nat]],
         UNCHANGED <<scene, published, submit>>,
         \A m \in Message : msg'[m].imgs = msg[m].imgs /\ msg'[m].board = msg[m].board,
         \A m \in Message : m \in ToSet(new) \/ msg'[m].at \in PendingFor => msg[m].at \in PendingFor
  PROVE  FilesIInv'
<1>1. FilesTypes /\ onDisk = transcript
  BY DEF FilesIInv, SavedAll
<1> DEFINE all == transcript \o new
<1>2. all \in Seq(Message \cup {Reply}) /\ ToSet(all) \subseteq ToSet(transcript) \cup ToSet(new)
  BY <1>1, ConcatHolds DEF FilesTypes
<1>3. Bounded(all) \in Seq(Message \cup {Reply}) /\ ToSet(Bounded(all)) \subseteq ToSet(all)
  BY <1>2, BoundedHolds
<1>4. /\ transcript' \in Seq(Message \cup {Reply}) /\ onDisk' = transcript'
      /\ ToSet(transcript') \subseteq ToSet(transcript) \cup ToSet(new)
  BY <1>1, <1>2, <1>3 DEF AppendTranscript, FilesTypes
<1>5. ClaimedBy(msg', transcript') \subseteq Image
  BY ImagesStay, <1>1
<1>6. stored' = stored \/ stored' = Swept(msg', transcript')
  BY DEF AppendTranscript
<1>7. stored' \in [Image -> ImageStates] /\ \A i \in ClaimedBy(msg', transcript') : stored'[i] = stored[i]
  <2>1. CASE stored' = stored
    BY <1>1, <2>1 DEF FilesTypes
  <2>2. CASE stored' = Swept(msg', transcript')
    BY <1>1, <1>5, <2>2, SweptTyped
  <2> QED BY <1>6, <2>1, <2>2
<1>8. \A m \in Claims(msg', transcript') : m \in Claims(msg, transcript)
  BY <1>4 DEF Claims
<1>9. FilesKept'
  BY <1>1, <1>7, <1>8, ClaimsShrink DEF FilesIInv, FilesTypes, Present, Claims
<1> QED BY <1>1, <1>4, <1>7, <1>9 DEF FilesIInv, FilesTypes, SavedAll, BoardsInLine

LEMMA SendStep ==
  ASSUME FilesIInv, "unsaved" \notin FilesEvent, SendImages
  PROVE  FilesIInv'
<1> DEFINE out == {m \in Message : msg[m].at = "queued"}
<1>1. /\ FilesTypes
      /\ msg' = [m \in Message |-> IF m \in out THEN [msg[m] EXCEPT !.at = "sent"] ELSE msg[m]]
      /\ UNCHANGED <<scene, published, submit>>
  BY DEF FilesIInv, SendImages
<1>2. PICK order \in [1..Cardinality(out) -> out] : AppendTranscript(msg', order)
  BY DEF SendImages
<1>3. order \in Seq(Message \cup {Reply}) /\ ToSet(order) \subseteq out
  <2>1. Cardinality(out) \in Nat
    <3>1. IsFiniteSet(out)
      BY FS_Subset
    <3> QED BY <3>1, FS_CardinalityType
  <2>2. order \in Seq(out)
    BY <2>1, SeqDef
  <2>3. out \subseteq Message \cup {Reply}
    OBVIOUS
  <2>4. order \in Seq(Message \cup {Reply})
    BY <2>2, <2>3, SeqMonotonic
  <2> QED BY <2>4 DEF ToSet
<1>4. msg' \in [Message -> [at : MsgPlaces, imgs : SUBSET Image, board : Nat]]
  <2>1. ASSUME NEW m \in Message
        PROVE  [msg[m] EXCEPT !.at = "sent"] \in [at : MsgPlaces, imgs : SUBSET Image, board : Nat]
    BY <1>1, MoveTyped DEF FilesTypes, MsgPlaces
  <2> QED BY <1>1, <2>1 DEF FilesTypes
<1>5. \A m \in Message : /\ msg'[m].imgs = msg[m].imgs /\ msg'[m].board = msg[m].board
                         /\ m \in ToSet(order) \/ msg'[m].at \in PendingFor => msg[m].at \in PendingFor
  BY <1>1, <1>3 DEF FilesTypes, PendingFor
<1> QED BY <1>1, <1>2, <1>3, <1>4, <1>5, SaidStep

LEMMA ReplyStep ==
  ASSUME FilesIInv, "unsaved" \notin FilesEvent, ReplyText
  PROVE  FilesIInv'
<1>1. FilesTypes /\ UNCHANGED <<msg, scene, published, submit>> /\ AppendTranscript(msg', <<Reply>>)
  BY DEF FilesIInv, ReplyText
<1>2. <<Reply>> \in Seq(Message \cup {Reply}) /\ ToSet(<<Reply>>) = {Reply} /\ Reply \notin Message
  BY DEF ToSet, Reply
<1> QED BY <1>1, <1>2, SaidStep DEF FilesTypes

LEMMA AckStep ==
  ASSUME FilesIInv, AckImages
  PROVE  FilesIInv'
<1>1. /\ FilesTypes
      /\ msg' = [m \in Message |-> IF msg[m].at = "sent" THEN [msg[m] EXCEPT !.at = "acked"] ELSE msg[m]]
      /\ UNCHANGED <<stored, transcript, onDisk, scene, published, submit>>
  BY DEF FilesIInv, AckImages
<1>2. msg' \in [Message -> [at : MsgPlaces, imgs : SUBSET Image, board : Nat]]
  BY <1>1 DEF FilesTypes, MsgPlaces
<1>3. \A m \in Message : /\ msg'[m].imgs = msg[m].imgs /\ msg'[m].board = msg[m].board
                         /\ msg'[m].at \in PendingFor => msg[m].at \in PendingFor
  BY <1>1 DEF FilesTypes, PendingFor
<1>4. FilesKept'
  BY <1>1, <1>3, ClaimsShrink DEF FilesIInv, FilesTypes, Present, Claims
<1> QED BY <1>1, <1>2, <1>4 DEF FilesIInv, FilesTypes, SavedAll, BoardsInLine

\* Whiteboards, and a server that starts again.
LEMMA BoardStep ==
  ASSUME FilesIInv, Draw \/ ReloadFiles \/ (\E m \in Message : Publish(m)) \/ QueueBoard
  PROVE  FilesIInv'
<1> USE DEF FilesIInv, FilesTypes, SavedAll, BoardsInLine
<1>1. CASE Draw
  BY <1>1, ClaimsShrink DEF Draw, Present
<1>2. CASE ReloadFiles
  BY <1>2, ClaimsShrink DEF ReloadFiles, Present
<1>3. ASSUME NEW m \in Message, Publish(m) PROVE FilesIInv'
  <2>1. FilesKept'
    BY <1>3, ClaimsShrink DEF Publish, Present
  <2> QED BY <1>3, <2>1 DEF Publish
<1>4. CASE QueueBoard
  <2>1. PICK q \in submit :
          msg' = [x \in Message |->
                    IF x = q.m THEN [at |-> "queued", imgs |-> {}, board |-> q.board]
                    ELSE IF msg[x].at = "queued" /\ msg[x].board > 0 THEN NoMessage ELSE msg[x]]
    BY <1>4 DEF QueueBoard
  <2>2. q.board \in Nat /\ q.board <= published
    OBVIOUS
  <2>3. msg' \in [Message -> [at : MsgPlaces, imgs : SUBSET Image, board : Nat]]
    BY <2>1, <2>2, NoMessageTyped DEF MsgPlaces
  <2>4. \A x \in Message :
           \/ msg'[x].imgs = {} /\ (msg'[x].at \in PendingFor => published >= msg'[x].board)
           \/ msg'[x] = msg[x]
    BY <2>1, <2>2, NoMessageTyped DEF NoMessage, PendingFor
  <2>5. FilesKept'
    BY <1>4, <2>4, ClaimsShrink DEF QueueBoard, Claims, Present
  <2> QED BY <1>4, <2>3, <2>5 DEF QueueBoard
<1> QED BY <1>1, <1>2, <1>3, <1>4

LEMMA FilesStep ==
  ASSUME FilesIInv, "unsaved" \notin FilesEvent, [FilesNext]_filesVars
  PROVE  FilesIInv'
<1>1. CASE UNCHANGED filesVars
  BY <1>1, ClaimsShrink DEF filesVars, FilesIInv, FilesTypes, SavedAll, BoardsInLine, Present
<1> QED BY <1>1, ImageStep, QueueStep, WithdrawnStep, SendStep, ReplyStep, AckStep, BoardStep DEF FilesNext

-----------------------------------------------------------------------------
(* Layout issues.                                                           *)

IssueStates  == Selectable \cup Outstanding \cup {"absent", "resolved", "dismissed"}
IssueRec     == [st : IssueStates, before : Selectable, seen : Nat, end : Nat]
Stamp        == [v : Version, rev : Nat]
Past         == [proved : Nat, retired : Nat]
TrayRec      == [revision : Nat, stamps : Seq(Stamp), issue : [Issue -> IssueRec], past : [Issue -> Past]]
RequestTypes == request \in [Request -> [at : {"none"} \cup PendingAt, ids : SUBSET Issue]]
TrayTypes    == tray \in TrayRec /\ trayFile \in TrayRec /\ RequestTypes

\* What waits for a fix, in memory or in the file, was asked for or is about to be.
Carried(x)   == x \in asked \/ \E r \in Request : request[r].at \in PendingAt /\ x \in request[r].ids
AllCarried(t) == \A x \in Issue : t.issue[x].st \in Outstanding => Carried(x)
SentAsked    == \A r \in Request : request[r].at = "sent" => request[r].ids \subseteq asked
AskIInv      == TrayTypes /\ AllCarried(tray) /\ AllCarried(trayFile) /\ SentAsked

\* Versions are numbered in their order, those that are forgotten before the rest.
StampsOf(t)  == {t.stamps[i] : i \in DOMAIN t.stamps}
Numbered(S)  == \A s, t \in S : (s.rev < t.rev <=> s.v < t.v) /\ (s.rev = t.rev <=> s.v = t.v)
\* A pass of a later number than b is of a later version than any that proved the issue.
After(b, h, S) == \A s \in S : s.rev > b => s.v > h.proved
Reached(h, S)  == h.proved = 0 \/ \E s \in S : s.v >= h.proved
Judged(is, h, S) ==
    /\ is.st = "absent" => h.proved = 0
    /\ is.st \in Selectable \cup Outstanding => After(is.seen, h, S)
    /\ is.st \in {"dismissed", "resolved"} => After(is.end, h, S)
    /\ is.st = "resolved" => h.proved < h.retired /\ \A s \in S : s.rev < is.end => s.v < h.retired
Retired(t) ==
    /\ \A s \in StampsOf(t) : s.rev <= t.revision
    /\ Numbered(StampsOf(t))
    /\ \A x \in Issue : /\ Judged(t.issue[x], t.past[x], StampsOf(t))
                        /\ Reached(t.past[x], StampsOf(t))
                        /\ t.issue[x].st = "resolved" => t.issue[x].end <= t.revision
RetireIInv   == TrayTypes /\ Retired(tray) /\ Retired(trayFile)

\* The choice of the larger of two numbers.
LEMMA LargerOfTwo ==
  ASSUME NEW a \in Nat, NEW b \in Nat
  PROVE  Max({a, b}) = IF a >= b THEN a ELSE b
<1> DEFINE top == IF a >= b THEN a ELSE b
<1>1. top \in {a, b} /\ \A y \in {a, b} : top >= y
  OBVIOUS
<1>2. \A x \in {a, b} : (\A y \in {a, b} : x >= y) => x = top
  OBVIOUS
<1>3. Max({a, b}) \in {a, b} /\ \A y \in {a, b} : Max({a, b}) >= y
  BY <1>1 DEF Max
<1> QED BY <1>2, <1>3

\* What one finding, or its absence, makes of an issue.
LEMMA AuditTyped ==
  ASSUME NEW is \in IssueRec, NEW rev \in Nat, NEW settled \in BOOLEAN
  PROVE  /\ Sight(is, rev, settled) \in IssueRec /\ Miss(is, rev, settled) \in IssueRec
         /\ Sight(is, rev, settled).st \in Outstanding => is.st \in Outstanding
         /\ Miss(is, rev, settled).st \in Outstanding => is.st \in Outstanding
<1>1. Unknown \in IssueRec
  BY DEF Unknown, IssueRec, IssueStates, Selectable
<1>2. ASSUME NEW r \in IssueRec, NEW s \in IssueStates, NEW b \in Selectable, NEW n \in Nat, NEW e \in Nat
      PROVE  /\ [r EXCEPT !.st = s] \in IssueRec
             /\ [r EXCEPT !.seen = n] \in IssueRec
             /\ [r EXCEPT !.st = s, !.seen = n] \in IssueRec
             /\ [r EXCEPT !.st = s, !.seen = n, !.end = e] \in IssueRec
             /\ [r EXCEPT !.st = s, !.end = e, !.before = b] \in IssueRec
  BY DEF IssueRec
<1> USE DEF IssueStates, Selectable, Outstanding
<1>3. Sight(is, rev, settled) \in IssueRec
  BY <1>1, <1>2 DEF Sight
<1>4. Miss(is, rev, settled) \in IssueRec
  BY <1>2 DEF Miss
<1>5. Sight(is, rev, settled).st \in Outstanding => is.st \in Outstanding
  BY <1>1 DEF Sight, IssueRec
<1>6. Miss(is, rev, settled).st \in Outstanding => is.st \in Outstanding
  BY <1>1 DEF Miss, IssueRec
<1> QED BY <1>3, <1>4, <1>5, <1>6

\* What revisionFor numbers.
LEMMA StampedTyped ==
  ASSUME tray \in TrayRec, NEW v \in Version
  PROVE  RevOf(v) \in Nat /\ Stamped(v) \in Seq(Stamp)
<1>1. tray.revision \in Nat /\ tray.stamps \in Seq(Stamp)
  BY DEF TrayRec
<1>2. RevOf(v) \in Nat
  <2>1. CASE Known(v)
    <3>1. \E s \in {tray.stamps[i] : i \in DOMAIN tray.stamps} : s.v = v
      BY <2>1 DEF Known
    <3>2. RevOf(v) = (CHOOSE s \in {tray.stamps[i] : i \in DOMAIN tray.stamps} : s.v = v).rev
      BY <2>1 DEF RevOf
    <3>3. \A i \in DOMAIN tray.stamps : tray.stamps[i] \in Stamp
      BY <1>1
    <3> QED BY <3>1, <3>2, <3>3 DEF Stamp
  <2>2. CASE ~Known(v)
    BY <1>1, <2>2 DEF RevOf
  <2> QED BY <2>1, <2>2
<1>3. Stamped(v) \in Seq(Stamp)
  <2>1. [v |-> v, rev |-> tray.revision + 1] \in Stamp
    BY <1>1 DEF Stamp
  <2>2. Append(tray.stamps, [v |-> v, rev |-> tray.revision + 1]) \in Seq(Stamp)
    BY <1>1, <2>1
  <2>3. \A s \in Seq(Stamp) : Len(s) > MaxStamps => Tail(s) \in Seq(Stamp)
    <3> TAKE s \in Seq(Stamp)
    <3>1. Len(s) > MaxStamps => s # <<>>
      OBVIOUS
    <3> QED BY <3>1
  <2> QED BY <1>1, <2>2, <2>3 DEF Stamped
<1> QED BY <1>2, <1>3

\* A version is numbered after those that were reported before it.
LEMMA NumbersGrow ==
  ASSUME tray \in TrayRec, Retired(tray), NEW v \in Version, InOrder(v), "late" \notin TrayEvent,
         NEW new, new = [v |-> v, rev |-> RevOf(v)],
         NEW S, S = StampsOf(tray),
         NEW T, T = {Stamped(v)[i] : i \in DOMAIN Stamped(v)}
  PROVE  /\ S \subseteq Stamp /\ T \subseteq Stamp /\ new \in T /\ Numbered(T)
         /\ \A s \in T : s.rev <= new.rev \/ s.rev <= tray.revision
         /\ \/ T = S
            \/ /\ T \subseteq S \cup {new} /\ new.rev = tray.revision + 1
               /\ \A s \in S : s.rev < new.rev /\ s.v < new.v
<1>1. tray.revision \in Nat /\ tray.stamps \in Seq(Stamp)
  BY DEF TrayRec
<1>2. S \subseteq Stamp /\ Numbered(S) /\ \A s \in S : s.rev <= tray.revision
  BY <1>1 DEF Retired, StampsOf
<1>3. CASE Known(v)
  <2>1. T = S
    BY <1>3 DEF Stamped, StampsOf
  <2>2. PICK s \in S : s.v = v /\ RevOf(v) = s.rev
    <3>1. \E s \in S : s.v = v
      BY <1>3 DEF Known, StampsOf
    <3>2. RevOf(v) = (CHOOSE s \in S : s.v = v).rev
      BY <1>3 DEF RevOf, StampsOf
    <3> QED BY <3>1, <3>2
  <2>3. new = s
    BY <1>2, <2>2 DEF Stamp
  <2> QED BY <1>2, <2>1, <2>2, <2>3
<1>4. CASE ~Known(v)
  <2>1. RevOf(v) = tray.revision + 1 /\ new = [v |-> v, rev |-> tray.revision + 1]
    BY <1>4 DEF RevOf
  <2>2. new \in Stamp
    BY <1>1, <2>1 DEF Stamp
  <2> DEFINE all == Append(tray.stamps, new)
  <2>3. Stamped(v) = IF Len(all) > MaxStamps THEN Tail(all) ELSE all
    BY <1>4, <2>1 DEF Stamped
  <2>4. /\ all \in Seq(Stamp) /\ Len(all) = Len(tray.stamps) + 1 /\ all[Len(all)] = new
        /\ \A i \in 1..Len(tray.stamps) : all[i] = tray.stamps[i]
    BY <1>1, <2>2
  <2>5. T \subseteq S \cup {new} /\ new \in T
    <3>1. CASE ~(Len(all) > MaxStamps)
      <4>1. \A i \in DOMAIN all : all[i] \in S \cup {new}
        BY <1>1, <2>4 DEF StampsOf
      <4>2. Len(all) \in DOMAIN all
        BY <1>1, <2>4
      <4> QED BY <2>3, <2>4, <3>1, <4>1, <4>2
    <3>2. CASE Len(all) > MaxStamps
      <4>1. Len(Tail(all)) = Len(tray.stamps) /\ Len(tray.stamps) >= 1
        BY <1>1, <2>4, <3>2
      <4>2. \A i \in 1..Len(tray.stamps) : Tail(all)[i] = all[i + 1]
        BY <1>1, <2>4, <4>1
      <4>3. \A i \in DOMAIN Tail(all) : Tail(all)[i] \in S \cup {new}
        BY <1>1, <2>4, <4>1, <4>2 DEF StampsOf
      <4>4. Len(tray.stamps) \in DOMAIN Tail(all) /\ Tail(all)[Len(tray.stamps)] = new
        BY <1>1, <2>4, <4>1, <4>2
      <4> QED BY <2>3, <3>2, <4>3, <4>4
    <3> QED BY <3>1, <3>2
  <2>6. \A s \in S : s.v < v
    BY <1>4 DEF InOrder, StampsOf
  <2>7. \A s \in S : s.rev < new.rev /\ s.v < new.v
    BY <1>1, <1>2, <2>1, <2>6 DEF Stamp
  <2>8. Numbered(T)
    BY <1>2, <2>2, <2>5, <2>7 DEF Numbered, Stamp, Version
  <2>9. \A s \in T : s.rev <= new.rev
    BY <2>2, <2>5, <2>7, <1>2 DEF Stamp
  <2> QED BY <1>2, <2>1, <2>2, <2>5, <2>7, <2>8, <2>9
<1> QED BY <1>3, <1>4

\* What was judged by the numbers stands when a new version is numbered.
LEMMA JudgedGrows ==
  ASSUME NEW S \in SUBSET Stamp, NEW T \in SUBSET Stamp, NEW new \in T, NEW n \in Nat,
         \/ T = S
         \/ /\ T \subseteq S \cup {new} /\ new.rev = n + 1
            /\ \A s \in S : s.rev < new.rev /\ s.v < new.v,
         NEW is \in IssueRec, NEW h \in Past, Judged(is, h, S), Reached(h, S),
         is.st = "resolved" => is.end <= n
  PROVE  Judged(is, h, T) /\ Reached(h, T)
<1>1. CASE T = S
  BY <1>1
<1>2. CASE /\ T \subseteq S \cup {new} /\ new.rev = n + 1
           /\ \A s \in S : s.rev < new.rev /\ s.v < new.v
  <2>1. new.v > h.proved
    BY <1>2 DEF Reached, Stamp, Past, Version
  <2>2. Reached(h, T)
    BY <2>1 DEF Reached, Stamp, Past, Version
  <2>3. \A b \in Nat : After(b, h, S) => After(b, h, T)
    BY <1>2, <2>1 DEF After
  <2>4. is.st = "resolved" => \A s \in T : s.rev < is.end => s.v < h.retired
    BY <1>2 DEF Judged, Stamp, IssueRec
  <2> QED BY <2>2, <2>3, <2>4 DEF Judged, IssueRec
<1> QED BY <1>1, <1>2

\* What a finding does, state by state.
LEMMA SightCases ==
  ASSUME NEW is \in IssueRec, NEW rev \in Nat, NEW settled \in BOOLEAN
  PROVE  /\ is.st = "absent" => Sight(is, rev, settled).st = "fresh" /\ Sight(is, rev, settled).seen = rev
         /\ is.st = "resolved" /\ rev < is.end => Sight(is, rev, settled) = is
         /\ is.st = "resolved" /\ ~(rev < is.end) =>
              Sight(is, rev, settled).st = "regressed" /\ Sight(is, rev, settled).seen = rev
         /\ is.st = "dismissed" /\ rev <= is.end => Sight(is, rev, settled) = is
         /\ is.st = "dismissed" /\ ~(rev <= is.end) =>
              Sight(is, rev, settled).st = "fresh" /\ Sight(is, rev, settled).seen = rev
         /\ is.st \in Selectable \cup Outstanding =>
              /\ Sight(is, rev, settled).st \in Selectable \cup Outstanding
              /\ \/ /\ Sight(is, rev, settled).seen = is.seen
                    /\ rev <= is.seen \/ ~settled
                 \/ Sight(is, rev, settled).seen = rev /\ is.seen <= rev
<1> USE DEF Sight, Selectable, Outstanding, Unknown
<1>1. is.st = "absent" => Sight(is, rev, settled).st = "fresh" /\ Sight(is, rev, settled).seen = rev
  OBVIOUS
<1>2. is.st = "resolved" /\ rev < is.end => Sight(is, rev, settled) = is
  OBVIOUS
<1>3. is.st = "resolved" /\ ~(rev < is.end) =>
         Sight(is, rev, settled).st = "regressed" /\ Sight(is, rev, settled).seen = rev
  BY DEF IssueRec
<1>4. is.st = "dismissed" /\ rev <= is.end => Sight(is, rev, settled) = is
  OBVIOUS
<1>5. is.st = "dismissed" /\ ~(rev <= is.end) =>
         Sight(is, rev, settled).st = "fresh" /\ Sight(is, rev, settled).seen = rev
  BY DEF IssueRec
<1>6. is.st \in Selectable =>
        /\ Sight(is, rev, settled).st \in Selectable
        /\ \/ Sight(is, rev, settled).seen = is.seen /\ rev <= is.seen
           \/ Sight(is, rev, settled).seen = rev /\ is.seen <= rev
  BY DEF IssueRec
<1>7. is.st \in Outstanding =>
        /\ Sight(is, rev, settled).st \in Selectable \cup Outstanding
        /\ \/ Sight(is, rev, settled).seen = is.seen /\ (rev <= is.seen \/ ~settled)
           \/ Sight(is, rev, settled).seen = rev /\ is.seen <= rev
  BY DEF IssueRec
<1> QED BY <1>1, <1>2, <1>3, <1>4, <1>5, <1>6, <1>7

\* A pass that finds the issue.
LEMMA SightJudged ==
  ASSUME NEW T \in SUBSET Stamp, Numbered(T), NEW new \in T, NEW settled \in BOOLEAN,
         NEW is \in IssueRec, NEW h \in Past, Judged(is, h, T), Reached(h, T),
         NEW g \in Past, g.retired = h.retired,
         g.proved = IF settled /\ new.v > h.proved THEN new.v ELSE h.proved
  PROVE  Judged(Sight(is, new.rev, settled), g, T) /\ Reached(g, T)
<1>1. Reached(g, T)
  BY DEF Reached, Stamp, Past, Version
<1>2. \A b \in Nat : new.rev <= b /\ After(b, h, T) => After(b, g, T)
  BY DEF After, Numbered, Stamp, Past, Version
<1>3. ~settled => g = h
  BY DEF Past
<1>4. new.rev \in Nat /\ is.seen \in Nat /\ is.end \in Nat
  BY DEF Stamp, IssueRec
<1> DEFINE now == Sight(is, new.rev, settled)
<1>a. /\ is.st = "absent" => now.st = "fresh" /\ now.seen = new.rev
      /\ is.st = "resolved" /\ new.rev < is.end => now = is
      /\ is.st = "resolved" /\ ~(new.rev < is.end) => now.st = "regressed" /\ now.seen = new.rev
      /\ is.st = "dismissed" /\ new.rev <= is.end => now = is
      /\ is.st = "dismissed" /\ ~(new.rev <= is.end) => now.st = "fresh" /\ now.seen = new.rev
      /\ is.st \in Selectable \cup Outstanding =>
           /\ now.st \in Selectable \cup Outstanding
           /\ \/ now.seen = is.seen /\ (new.rev <= is.seen \/ ~settled)
              \/ now.seen = new.rev /\ is.seen <= new.rev
  BY <1>4, SightCases
<1> HIDE DEF now
\* It is selectable or was asked for, or it is as it was.
<1>b. now.st \in Selectable \cup Outstanding /\ After(now.seen, g, T) => Judged(now, g, T)
  BY DEF Judged, Selectable, Outstanding
<1>5. ASSUME is.st = "absent" PROVE Judged(now, g, T)
  <2>1. now.st = "fresh" /\ now.seen = new.rev
    BY <1>5, <1>a
  <2>2. After(new.rev, h, T)
    BY <1>5 DEF Judged, After, Stamp, Version
  <2> QED BY <1>2, <1>4, <1>b, <2>1, <2>2 DEF Selectable
<1>6. ASSUME is.st = "resolved" PROVE Judged(now, g, T)
  <2>1. CASE new.rev < is.end
    <3>1. now = is
      BY <1>a, <1>6, <2>1
    <3>2. new.v < h.retired /\ After(is.end, h, T) /\ h.proved < h.retired
      BY <1>6, <2>1 DEF Judged
    <3> QED BY <1>2, <1>4, <1>6, <2>1, <3>1, <3>2 DEF Judged, Selectable, Outstanding
  <2>2. CASE ~(new.rev < is.end)
    <3>1. now.st = "regressed" /\ now.seen = new.rev
      BY <1>a, <1>6, <2>2
    <3>2. After(new.rev, h, T)
      BY <1>4, <1>6, <2>2 DEF Judged, After, Stamp
    <3> QED BY <1>2, <1>4, <1>b, <3>1, <3>2 DEF Selectable
  <2> QED BY <2>1, <2>2
<1>7. ASSUME is.st = "dismissed" PROVE Judged(now, g, T)
  <2>1. CASE new.rev <= is.end
    <3>1. now = is /\ After(is.end, h, T)
      BY <1>a, <1>7, <2>1 DEF Judged
    <3> QED BY <1>2, <1>4, <1>7, <2>1, <3>1 DEF Judged, Selectable, Outstanding
  <2>2. CASE ~(new.rev <= is.end)
    <3>1. now.st = "fresh" /\ now.seen = new.rev
      BY <1>a, <1>7, <2>2
    <3>2. After(new.rev, h, T)
      BY <1>4, <1>7, <2>2 DEF Judged, After, Stamp
    <3> QED BY <1>2, <1>4, <1>b, <3>1, <3>2 DEF Selectable
  <2> QED BY <2>1, <2>2
<1>8. ASSUME is.st \in Selectable \cup Outstanding PROVE Judged(now, g, T)
  <2>1. /\ now.st \in Selectable \cup Outstanding
        /\ \/ now.seen = is.seen /\ (new.rev <= is.seen \/ ~settled)
           \/ now.seen = new.rev /\ is.seen <= new.rev
    BY <1>a, <1>8
  <2>2. After(is.seen, h, T)
    BY <1>8 DEF Judged
  <2>3. After(now.seen, g, T)
    <3>1. is.seen <= new.rev => After(new.rev, h, T)
      BY <1>4, <2>2 DEF After, Stamp
    <3> QED BY <1>2, <1>3, <1>4, <2>1, <2>2, <3>1
  <2> QED BY <1>b, <2>1, <2>3
<1> QED BY <1>1, <1>5, <1>6, <1>7, <1>8 DEF IssueRec, IssueStates, now

\* A pass that does not find it.
LEMMA MissJudged ==
  ASSUME NEW T \in SUBSET Stamp, Numbered(T), NEW new \in T, NEW settled \in BOOLEAN,
         NEW is \in IssueRec, NEW h \in Past, Judged(is, h, T), Reached(h, T),
         NEW g \in Past, g.proved = h.proved,
         g.retired = IF Miss(is, new.rev, settled).st = "resolved" /\ is.st # "resolved"
                       THEN new.v ELSE h.retired
  PROVE  /\ Judged(Miss(is, new.rev, settled), g, T) /\ Reached(g, T)
         /\ Miss(is, new.rev, settled).st = "resolved" /\ is.st # "resolved"
              => Miss(is, new.rev, settled).end = new.rev
         /\ is.st = "resolved" => Miss(is, new.rev, settled) = is
<1> DEFINE now == Miss(is, new.rev, settled)
<1>1. Reached(g, T) /\ \A b \in Nat : After(b, h, T) <=> After(b, g, T)
  BY DEF Reached, After
<1>2. new.rev \in Nat /\ is.seen \in Nat /\ is.end \in Nat
  BY DEF Stamp, IssueRec
<1>3. CASE is.st \notin Selectable \cup Outstanding \/ new.rev <= is.seen
  <2>1. now = is
    BY <1>3 DEF Miss
  <2> QED BY <1>1, <1>2, <2>1 DEF Judged
<1>4. CASE ~(is.st \notin Selectable \cup Outstanding \/ new.rev <= is.seen)
  <2>1. is.st # "resolved" /\ After(is.seen, h, T) /\ new.rev > is.seen
    BY <1>2, <1>4 DEF Judged, Selectable, Outstanding
  <2>2. CASE settled
    <3>1. now.st = "resolved" /\ now.end = new.rev
      BY <1>4, <2>2 DEF Miss, IssueRec
    <3>2. new.v > h.proved
      BY <2>1 DEF After
    <3>3. After(new.rev, g, T)
      BY <1>1, <1>2, <2>1 DEF After, Stamp
    <3>4. \A s \in T : s.rev < new.rev => s.v < new.v
      BY DEF Numbered
    <3> QED BY <1>1, <2>1, <3>1, <3>2, <3>3, <3>4 DEF Judged, Selectable, Outstanding, Stamp, Past, Version
  <2>3. CASE ~settled
    <3>1. now.st \in Selectable \cup Outstanding /\ now.seen = is.seen
      BY <1>4, <2>3 DEF Miss, IssueRec, Selectable, Outstanding
    <3> QED BY <1>1, <1>2, <2>1, <3>1 DEF Judged, Selectable, Outstanding
  <2> QED BY <2>2, <2>3
<1> QED BY <1>3, <1>4

\* What a pass of the stamp `new` may make of an issue and of its history.
Moves(is, h, is2, h2, new, settled) ==
    \/ is2 = is /\ h2 = h
    \/ /\ is2 = Sight(is, new.rev, settled) /\ h2.retired = h.retired
       /\ h2.proved = IF settled /\ new.v > h.proved THEN new.v ELSE h.proved
    \/ /\ is2 = Miss(is, new.rev, settled) /\ h2.proved = h.proved
       /\ h2.retired = IF is2.st = "resolved" /\ is.st # "resolved" THEN new.v ELSE h.retired

LEMMA AuditEffect ==
  ASSUME TrayTypes, NEW v \in Version, NEW settled \in BOOLEAN, NEW sameClass \in BOOLEAN,
         Audit(v, settled, sameClass)
  PROVE  /\ tray' \in TrayRec /\ tray'.stamps = Stamped(v)
         /\ tray'.revision = IF RevOf(v) >= tray.revision THEN RevOf(v) ELSE tray.revision
         /\ \A x \in Issue : Moves(tray.issue[x], tray.past[x], tray'.issue[x], tray'.past[x],
                                   [v |-> v, rev |-> RevOf(v)], settled)
<1> DEFINE rev == RevOf(v)
           new == [v |-> v, rev |-> rev]
<1>1. rev \in Nat /\ Stamped(v) \in Seq(Stamp) /\ v \in Nat
  BY StampedTyped DEF TrayTypes, Version
<1>2. PICK found \in SUBSET shows[v] :
        LET after(x) == IF ~sameClass THEN tray.issue[x]
                        ELSE IF x \in found THEN Sight(tray.issue[x], rev, settled)
                        ELSE Miss(tray.issue[x], rev, settled)
            sighted(x) == sameClass /\ x \in found
            past(x) ==
              LET h == tray.past[x]
              IN  [proved |-> IF sighted(x) /\ settled THEN Max({v, h.proved}) ELSE h.proved,
                   retired |-> IF after(x).st = "resolved" /\ tray.issue[x].st # "resolved"
                                 THEN v ELSE h.retired]
        IN  tray' = [revision |-> Max({rev, tray.revision}), stamps |-> Stamped(v),
                     issue |-> [x \in Issue |-> after(x)], past |-> [x \in Issue |-> past(x)]]
  BY DEF Audit
<1>3. /\ tray.revision \in Nat
      /\ \A x \in Issue : tray.issue[x] \in IssueRec /\ tray.past[x] \in Past
  BY DEF TrayTypes, TrayRec
<1>4. tray'.stamps = Stamped(v) /\ tray'.revision = Max({rev, tray.revision})
  BY <1>2
<1>5. Max({rev, tray.revision}) = IF rev >= tray.revision THEN rev ELSE tray.revision
  BY <1>1, <1>3, LargerOfTwo
<1>6. \A x \in Issue :
         /\ tray'.issue[x] = IF ~sameClass THEN tray.issue[x]
                             ELSE IF x \in found THEN Sight(tray.issue[x], rev, settled)
                             ELSE Miss(tray.issue[x], rev, settled)
         /\ tray'.past[x] =
              [proved |-> IF (sameClass /\ x \in found) /\ settled THEN Max({v, tray.past[x].proved})
                          ELSE tray.past[x].proved,
               retired |-> IF tray'.issue[x].st = "resolved" /\ tray.issue[x].st # "resolved"
                             THEN v ELSE tray.past[x].retired]
  BY <1>2
<1>7. ASSUME NEW x \in Issue
      PROVE  /\ Moves(tray.issue[x], tray.past[x], tray'.issue[x], tray'.past[x], new, settled)
             /\ tray'.issue[x] \in IssueRec /\ tray'.past[x] \in Past
  <2>1. tray.issue[x] \in IssueRec /\ tray.past[x] \in Past
    BY <1>3
  <2>2. Max({v, tray.past[x].proved}) = IF v > tray.past[x].proved THEN v ELSE tray.past[x].proved
    <3>1. tray.past[x].proved \in Nat
      BY <2>1 DEF Past
    <3>2. Max({v, tray.past[x].proved}) = IF v >= tray.past[x].proved THEN v ELSE tray.past[x].proved
      BY <1>1, <3>1, LargerOfTwo
    <3> QED BY <1>1, <3>1, <3>2
  <2>3. tray'.issue[x] \in IssueRec
    BY <1>1, <1>6, <2>1, AuditTyped
  <2>4. tray'.past[x] \in Past
    <3>1. Max({v, tray.past[x].proved}) \in Nat /\ tray.past[x].proved \in Nat /\ tray.past[x].retired \in Nat
      BY <1>1, <2>1, <2>2 DEF Past
    <3>2. \E p, r \in Nat : tray'.past[x] = [proved |-> p, retired |-> r]
      BY <1>1, <1>6, <3>1
    <3> QED BY <3>2 DEF Past
  <2>5. CASE ~sameClass
    <3>1. tray'.issue[x] = tray.issue[x]
      BY <1>6, <2>5
    <3>2. tray'.past[x] = [proved |-> tray.past[x].proved, retired |-> tray.past[x].retired]
      BY <1>6, <2>5, <3>1
    <3>3. tray'.past[x] = tray.past[x]
      BY <2>1, <3>2 DEF Past
    <3> QED BY <2>3, <2>4, <3>1, <3>3 DEF Moves
  <2>6. CASE sameClass /\ x \in found
    <3>1. tray'.issue[x] = Sight(tray.issue[x], rev, settled)
      BY <1>6, <2>6
    <3>2. tray'.issue[x].st = "resolved" => tray.issue[x].st = "resolved"
      BY <1>1, <2>1, <3>1, SightCases DEF IssueRec, IssueStates, Selectable, Outstanding
    <3>3. tray'.past[x] = [proved |-> IF settled THEN Max({v, tray.past[x].proved}) ELSE tray.past[x].proved,
                           retired |-> tray.past[x].retired]
      BY <1>6, <2>6, <3>2
    <3>4. tray'.past[x].proved = IF settled /\ v > tray.past[x].proved THEN v ELSE tray.past[x].proved
      BY <2>2, <3>3
    <3> QED BY <2>3, <2>4, <3>1, <3>3, <3>4 DEF Moves
  <2>7. CASE sameClass /\ x \notin found
    <3>1. tray'.issue[x] = Miss(tray.issue[x], rev, settled)
      BY <1>6, <2>7
    <3>2. tray'.past[x] = [proved |-> tray.past[x].proved,
                           retired |-> IF tray'.issue[x].st = "resolved" /\ tray.issue[x].st # "resolved"
                                         THEN v ELSE tray.past[x].retired]
      BY <1>6, <2>7
    <3>3. /\ tray'.past[x].proved = tray.past[x].proved
          /\ tray'.past[x].retired = IF tray'.issue[x].st = "resolved" /\ tray.issue[x].st # "resolved"
                                       THEN v ELSE tray.past[x].retired
      BY <3>2
    <3> QED BY <2>3, <2>4, <3>1, <3>3 DEF Moves
  <2> QED BY <2>5, <2>6, <2>7
<1>8. tray' \in TrayRec
  <2>1. \E I \in [Issue -> IssueRec], P \in [Issue -> Past] :
           tray' = [revision |-> Max({rev, tray.revision}), stamps |-> Stamped(v), issue |-> I, past |-> P]
    <3>1. tray' = [revision |-> tray'.revision, stamps |-> tray'.stamps, issue |-> tray'.issue, past |-> tray'.past]
          /\ tray'.issue = [x \in Issue |-> tray'.issue[x]] /\ tray'.past = [x \in Issue |-> tray'.past[x]]
      BY <1>2
    <3>2. tray'.issue \in [Issue -> IssueRec] /\ tray'.past \in [Issue -> Past]
      BY <1>7, <3>1
    <3> QED BY <1>4, <3>1, <3>2
  <2> QED BY <1>1, <1>3, <1>5, <2>1 DEF TrayRec
<1> QED BY <1>4, <1>5, <1>7, <1>8

\* What the other operations may make of an issue: it stays in question, by the
\* same number, or it is dismissed.
Kept(is, is2, revision) ==
    \/ is2 = is
    \/ is.st \in Selectable \cup Outstanding /\ is2.st \in Selectable \cup Outstanding /\ is2.seen = is.seen
    \/ is2.st = "dismissed" /\ is2.end = revision

LEMMA IssuesOnly ==
  ASSUME tray \in TrayRec, NEW F \in [Issue -> IssueRec], tray' = [tray EXCEPT !.issue = F]
  PROVE  /\ tray' \in TrayRec /\ tray'.issue = F
         /\ tray'.stamps = tray.stamps /\ tray'.revision = tray.revision /\ tray'.past = tray.past
  BY DEF TrayRec

LEMMA QueueEffect ==
  ASSUME TrayTypes, NEW r \in Request, NEW ids \in SUBSET Issue, QueueIssues(r, ids)
  PROVE  \E picked \in SUBSET Issue :
           /\ tray' \in TrayRec /\ request[r].at = "none"
           /\ request' = [request EXCEPT ![r] = [at |-> "queued", ids |-> picked]]
           /\ tray'.stamps = tray.stamps /\ tray'.revision = tray.revision /\ tray'.past = tray.past
           /\ \A x \in Issue : /\ Kept(tray.issue[x], tray'.issue[x], tray.revision)
                               /\ x \notin picked => tray'.issue[x] = tray.issue[x]
                               /\ x \in picked => tray'.issue[x].st = "awaiting-fix"
<1>1. PICK picked \in Composed(Pickable(ids)) :
        /\ request' = [request EXCEPT ![r] = [at |-> "queued", ids |-> picked]]
        /\ tray' = [tray EXCEPT !.issue = [x \in Issue |->
                      IF x \in picked
                        THEN [tray.issue[x] EXCEPT !.before = tray.issue[x].st, !.st = "awaiting-fix"]
                        ELSE tray.issue[x]]]
  BY DEF QueueIssues
<1> DEFINE F == [x \in Issue |->
                   IF x \in picked
                     THEN [tray.issue[x] EXCEPT !.before = tray.issue[x].st, !.st = "awaiting-fix"]
                     ELSE tray.issue[x]]
<1>2. picked \subseteq Issue /\ \A x \in picked : tray.issue[x].st \in Selectable
  BY DEF Composed, Pickable
<1>3. \A x \in Issue : tray.issue[x] \in IssueRec
  BY DEF TrayTypes, TrayRec
<1>4. ASSUME NEW is \in IssueRec, NEW b \in Selectable
      PROVE  [is EXCEPT !.before = b, !.st = "awaiting-fix"] \in IssueRec
  BY DEF IssueRec, IssueStates, Outstanding
<1>5. F \in [Issue -> IssueRec]
  BY <1>2, <1>3, <1>4
<1>6. /\ tray' \in TrayRec /\ tray'.issue = F
      /\ tray'.stamps = tray.stamps /\ tray'.revision = tray.revision /\ tray'.past = tray.past
  <2>1. tray \in TrayRec /\ tray' = [tray EXCEPT !.issue = F]
    BY <1>1 DEF TrayTypes
  <2> HIDE DEF F
  <2> QED BY <1>5, <2>1, IssuesOnly
<1>7. ASSUME NEW x \in Issue
      PROVE  /\ Kept(tray.issue[x], tray'.issue[x], tray.revision)
             /\ x \notin picked => tray'.issue[x] = tray.issue[x]
             /\ x \in picked => tray'.issue[x].st = "awaiting-fix"
  BY <1>2, <1>3, <1>6 DEF Kept, IssueRec, Outstanding
<1> QED BY <1>1, <1>2, <1>6, <1>7 DEF QueueIssues

LEMMA DismissEffect ==
  ASSUME TrayTypes, NEW x \in Issue, Dismiss(x)
  PROVE  /\ tray' \in TrayRec
         /\ tray'.stamps = tray.stamps /\ tray'.revision = tray.revision /\ tray'.past = tray.past
         /\ \A y \in Issue : /\ Kept(tray.issue[y], tray'.issue[y], tray.revision)
                             /\ tray'.issue[y].st \in Outstanding => tray'.issue[y] = tray.issue[y]
<1> DEFINE gone == [tray.issue[x] EXCEPT !.st = "dismissed", !.end = tray.revision, !.before = "fresh"]
           F == [tray.issue EXCEPT ![x] = gone]
<1>1. tray \in TrayRec /\ tray.issue[x] \in IssueRec /\ tray.revision \in Nat
  BY DEF TrayTypes, TrayRec
<1>2. gone \in IssueRec /\ gone.st = "dismissed" /\ gone.end = tray.revision
  BY <1>1 DEF IssueRec, IssueStates, Selectable
<1>3. F \in [Issue -> IssueRec]
  BY <1>1, <1>2 DEF TrayRec
<1>4. tray' = [tray EXCEPT !.issue = F]
  BY <1>1 DEF Dismiss, TrayRec, IssueRec
<1>5. /\ tray' \in TrayRec /\ tray'.issue = F
      /\ tray'.stamps = tray.stamps /\ tray'.revision = tray.revision /\ tray'.past = tray.past
  <2> HIDE DEF F
  <2> QED BY <1>1, <1>3, <1>4, IssuesOnly
<1> QED BY <1>1, <1>2, <1>5 DEF Kept, TrayRec, Outstanding

LEMMA WithdrawEffect ==
  ASSUME TrayTypes, NEW r \in Request, Withdraw(r)
  PROVE  /\ tray' \in TrayRec
         /\ tray'.stamps = tray.stamps /\ tray'.revision = tray.revision /\ tray'.past = tray.past
         /\ \A x \in Issue : /\ Kept(tray.issue[x], tray'.issue[x], tray.revision)
                             /\ tray'.issue[x].st \in Outstanding =>
                                   tray'.issue[x] = tray.issue[x] /\ x \notin Unreferenced(r)
<1>1. tray \in TrayRec /\ \A x \in Issue : tray.issue[x] \in IssueRec
  BY DEF TrayTypes, TrayRec
<1>2. ASSUME NEW is \in IssueRec
      PROVE  /\ [is EXCEPT !.st = is.before, !.before = "fresh"] \in IssueRec
             /\ [is EXCEPT !.st = is.before, !.before = "fresh"].st \in Selectable
             /\ [is EXCEPT !.st = is.before, !.before = "fresh"].seen = is.seen
  BY DEF IssueRec, IssueStates, Selectable
<1>3. \A s \in Selectable : s \notin Outstanding
  BY DEF Selectable, Outstanding
<1>4. Released(r) \in [Issue -> IssueRec]
  BY <1>1, <1>2 DEF Released
<1>5. /\ tray' \in TrayRec /\ tray'.issue = Released(r)
      /\ tray'.stamps = tray.stamps /\ tray'.revision = tray.revision /\ tray'.past = tray.past
  BY <1>1, <1>4, IssuesOnly DEF Withdraw
<1>6. ASSUME NEW x \in Issue
      PROVE  /\ Kept(tray.issue[x], tray'.issue[x], tray.revision)
             /\ tray'.issue[x].st \in Outstanding =>
                   tray'.issue[x] = tray.issue[x] /\ x \notin Unreferenced(r)
  <2>1. CASE x \in Unreferenced(r) /\ tray.issue[x].st \in Outstanding
    <3>1. tray'.issue[x] = [tray.issue[x] EXCEPT !.st = tray.issue[x].before, !.before = "fresh"]
      BY <1>5, <2>1 DEF Released
    <3> QED BY <1>1, <1>2, <1>3, <2>1, <3>1 DEF Kept
  <2>2. CASE ~(x \in Unreferenced(r) /\ tray.issue[x].st \in Outstanding)
    BY <1>5, <2>2 DEF Released, Kept
  <2> QED BY <2>1, <2>2
<1> QED BY <1>5, <1>6

\* The file holds a tray that was there, whatever of it cannot be written.
LEMMA FileEffect ==
  ASSUME [TrayNext]_trayVars
  PROVE  trayFile' \in {tray', trayFile}
  BY DEF TrayNext, trayVars, EditPage, SendRequests, AckRequests, ReloadTray, Audit, Withdraw,
         QueueIssues, Dismiss, SaveTray

LEMMA RequestsTyped ==
  ASSUME TrayTypes, [TrayNext]_trayVars
  PROVE  RequestTypes'
<1> USE DEF TrayTypes, RequestTypes, PendingAt
<1>1. CASE SendRequests
  BY <1>1 DEF SendRequests
<1>2. CASE AckRequests
  BY <1>2 DEF AckRequests
<1>3. ASSUME NEW r \in Request, Withdraw(r) PROVE RequestTypes'
  BY <1>3 DEF Withdraw
<1>4. ASSUME NEW r \in Request, NEW ids \in SUBSET Issue, QueueIssues(r, ids) PROVE RequestTypes'
  <2>1. PICK picked \in SUBSET Issue :
          request' = [request EXCEPT ![r] = [at |-> "queued", ids |-> picked]]
    BY <1>4, QueueEffect DEF TrayTypes
  <2> QED BY <2>1
<1>5. CASE UNCHANGED request
  BY <1>5
<1> QED BY <1>1, <1>2, <1>3, <1>4, <1>5
        DEF TrayNext, trayVars, EditPage, ReloadTray, Audit, Dismiss

LEMMA TrayTyped ==
  ASSUME TrayTypes, [TrayNext]_trayVars
  PROVE  TrayTypes'
<1>1. tray' \in TrayRec
  <2>1. CASE tray' = tray \/ tray' = trayFile
    BY <2>1 DEF TrayTypes
  <2> QED BY <2>1, AuditEffect, QueueEffect, DismissEffect, WithdrawEffect
          DEF TrayNext, trayVars, EditPage, SendRequests, AckRequests, ReloadTray
<1> QED BY <1>1, FileEffect, RequestsTyped DEF TrayTypes

LEMMA TrayStart == TrayInit => TrayTypes /\ AskIInv /\ RetireIInv
<1> SUFFICES ASSUME TrayInit PROVE TrayTypes /\ AskIInv /\ RetireIInv
  OBVIOUS
<1>1. TrayTypes
  <2>1. Unknown \in IssueRec /\ [proved |-> 0, retired |-> 0] \in Past
    BY DEF Unknown, IssueRec, IssueStates, Selectable, Past
  <2>2. tray \in TrayRec
    BY <2>1 DEF TrayInit, TrayRec
  <2> QED BY <2>2 DEF TrayInit, TrayTypes, RequestTypes
<1>2. StampsOf(tray) = {}
  BY DEF TrayInit, StampsOf
<1>3. \A x \in Issue : tray.issue[x].st = "absent" /\ tray.past[x].proved = 0
  BY DEF TrayInit, Unknown
<1>4. Retired(tray)
  BY <1>2, <1>3 DEF Retired, Numbered, Judged, Reached, Selectable, Outstanding
<1>5. AllCarried(tray) /\ SentAsked
  BY <1>3 DEF TrayInit, AllCarried, SentAsked, Outstanding
<1> QED BY <1>1, <1>4, <1>5 DEF TrayInit, AskIInv, RetireIInv

\* Nothing that waits for a fix loses the last prompt that would ask for it.
LEMMA AskStep ==
  ASSUME AskIInv, "unreleased" \notin TrayEvent, [TrayNext]_trayVars
  PROVE  AskIInv'
<1>1. TrayTypes /\ TrayTypes' /\ RequestTypes /\ SentAsked /\ AllCarried(tray) /\ AllCarried(trayFile)
  BY TrayTyped DEF AskIInv, TrayTypes
\* What was carried still is, unless a request is withdrawn.
<1>2. ASSUME \A r \in Request : request[r].at \in PendingAt =>
                \/ request'[r].at \in PendingAt /\ request'[r].ids = request[r].ids
                \/ request[r].ids \subseteq asked',
             asked \subseteq asked'
      PROVE  \A x \in Issue : Carried(x) => Carried(x)'
  BY <1>2 DEF Carried
<1>3. ASSUME \A x \in Issue : Carried(x) => Carried(x)',
             \A x \in Issue : tray'.issue[x].st \in Outstanding =>
                tray.issue[x].st \in Outstanding \/ Carried(x)'
      PROVE  AllCarried(tray)' /\ AllCarried(trayFile)'
  <2>1. AllCarried(tray)'
    BY <1>1, <1>3 DEF AllCarried
  <2>2. CASE trayFile' = tray'
    BY <2>1, <2>2 DEF AllCarried
  <2>3. CASE trayFile' = trayFile
    BY <1>1, <1>3, <2>3 DEF AllCarried
  <2> QED BY <2>1, <2>2, <2>3, FileEffect
<1>4. ASSUME UNCHANGED <<request, asked>> PROVE SentAsked' /\ \A x \in Issue : Carried(x) => Carried(x)'
  BY <1>1, <1>4 DEF SentAsked, Carried
<1>5. CASE EditPage \/ UNCHANGED trayVars
  <2>1. UNCHANGED <<tray, request, asked>>
    BY <1>5 DEF EditPage, trayVars
  <2> QED BY <1>1, <1>3, <1>4, <2>1 DEF AskIInv
<1>6. CASE SendRequests
  <2> DEFINE out == {r \in Request : request[r].at = "queued"}
  <2>1. /\ request' = [r \in Request |-> IF r \in out THEN [request[r] EXCEPT !.at = "sent"] ELSE request[r]]
        /\ asked' = asked \cup UNION {request[r].ids : r \in out} /\ UNCHANGED <<tray, trayFile>>
    BY <1>6 DEF SendRequests
  <2>2. \A r \in Request : /\ request'[r].ids = request[r].ids
                           /\ request[r].at \in PendingAt => request'[r].at \in PendingAt
                           /\ request'[r].at = "sent" => r \in out \/ request[r].at = "sent"
    BY <1>1, <2>1 DEF RequestTypes, PendingAt
  <2>3. SentAsked'
    <3> SUFFICES ASSUME NEW r \in Request, request'[r].at = "sent" PROVE request'[r].ids \subseteq asked'
      BY DEF SentAsked
    <3>1. request'[r].ids = request[r].ids /\ (r \in out \/ request[r].at = "sent")
      BY <2>2
    <3> QED BY <1>1, <2>1, <3>1 DEF SentAsked
  <2> QED BY <1>1, <1>2, <1>3, <2>1, <2>2, <2>3 DEF AskIInv
<1>7. CASE AckRequests
  <2>1. /\ request' = [r \in Request |-> IF request[r].at = "sent" THEN [at |-> "none", ids |-> {}] ELSE request[r]]
        /\ UNCHANGED <<tray, trayFile, asked>>
    BY <1>7 DEF AckRequests
  <2>2. \A r \in Request : \/ request'[r] = request[r] /\ request[r].at # "sent"
                           \/ request[r].ids \subseteq asked' /\ request'[r].at = "none"
    BY <1>1, <2>1 DEF SentAsked
  <2> QED BY <1>1, <1>2, <1>3, <2>1, <2>2 DEF AskIInv, SentAsked
<1>8. CASE ReloadTray
  <2>1. tray' = trayFile /\ trayFile' = trayFile /\ UNCHANGED <<request, asked>>
    BY <1>8 DEF ReloadTray
  <2> QED BY <1>1, <1>4, <2>1 DEF AskIInv, AllCarried
<1>9. ASSUME NEW v \in Version, NEW settled \in BOOLEAN, NEW sameClass \in BOOLEAN,
             Audit(v, settled, sameClass)
      PROVE  AskIInv'
  <2>1. \A x \in Issue : tray'.issue[x].st \in Outstanding => tray.issue[x].st \in Outstanding
    <3>1. RevOf(v) \in Nat /\ \A x \in Issue : tray.issue[x] \in IssueRec
      BY <1>1, StampedTyped DEF TrayTypes, TrayRec
    <3>2. \A x \in Issue : \/ tray'.issue[x] = tray.issue[x]
                           \/ tray'.issue[x] = Sight(tray.issue[x], RevOf(v), settled)
                           \/ tray'.issue[x] = Miss(tray.issue[x], RevOf(v), settled)
      BY <1>1, <1>9, AuditEffect DEF Moves
    <3> QED BY <3>1, <3>2, AuditTyped
  <2>2. UNCHANGED <<request, asked>>
    BY <1>9 DEF Audit
  <2> QED BY <1>1, <1>3, <1>4, <2>1, <2>2 DEF AskIInv
<1>10. ASSUME NEW r \in Request, NEW ids \in SUBSET Issue, QueueIssues(r, ids)
       PROVE  AskIInv'
  <2>1. PICK picked \in SUBSET Issue :
          /\ request[r].at = "none"
          /\ request' = [request EXCEPT ![r] = [at |-> "queued", ids |-> picked]]
          /\ \A x \in Issue : x \notin picked => tray'.issue[x] = tray.issue[x]
    BY <1>1, <1>10, QueueEffect
  <2>2. asked' = asked /\ request'[r] = [at |-> "queued", ids |-> picked]
        /\ \A q \in Request \ {r} : request'[q] = request[q]
    BY <1>1, <1>10, <2>1 DEF QueueIssues, RequestTypes
  <2>3. SentAsked'
    BY <1>1, <2>2 DEF SentAsked
  <2>4. \A x \in Issue : Carried(x) => Carried(x)'
    BY <1>2, <2>1, <2>2 DEF PendingAt
  <2>5. \A x \in picked : Carried(x)'
    BY <2>2 DEF Carried, PendingAt
  <2> QED BY <1>1, <1>3, <2>1, <2>3, <2>4, <2>5 DEF AskIInv
<1>11. ASSUME NEW x \in Issue, Dismiss(x) PROVE AskIInv'
  <2>1. \A y \in Issue : tray'.issue[y].st \in Outstanding => tray.issue[y].st \in Outstanding
    BY <1>1, <1>11, DismissEffect
  <2>2. UNCHANGED <<request, asked>>
    BY <1>11 DEF Dismiss
  <2> QED BY <1>1, <1>3, <1>4, <2>1, <2>2 DEF AskIInv
<1>12. ASSUME NEW r \in Request, Withdraw(r) PROVE AskIInv'
  <2>1. /\ request' = [request EXCEPT ![r] = [at |-> "none", ids |-> {}]]
        /\ trayFile' = tray' /\ asked' = asked
    BY <1>12 DEF Withdraw, SaveTray
  <2>2. request'[r].at = "none" /\ \A q \in Request \ {r} : request'[q] = request[q]
    BY <1>1, <2>1 DEF RequestTypes
  <2>3. SentAsked'
    BY <1>1, <2>1, <2>2 DEF SentAsked
  <2>4. ASSUME NEW x \in Issue, tray'.issue[x].st \in Outstanding PROVE Carried(x)'
    <3>1. tray.issue[x].st \in Outstanding /\ x \notin Unreferenced(r)
      BY <1>1, <1>12, <2>4, WithdrawEffect
    <3>2. Carried(x)
      BY <1>1, <3>1 DEF AllCarried
    <3>3. x \in asked \/ \E q \in Request \ {r} : request[q].at \in PendingAt /\ x \in request[q].ids
      BY <3>1, <3>2 DEF Carried, Unreferenced
    <3> QED BY <2>1, <2>2, <3>3 DEF Carried
  <2> QED BY <1>1, <2>1, <2>3, <2>4 DEF AskIInv, AllCarried
<1> QED BY <1>5, <1>6, <1>7, <1>8, <1>9, <1>10, <1>11, <1>12 DEF TrayNext

\* What was judged stays so when a tray is only handled.
LEMMA HandledStays ==
  ASSUME tray \in TrayRec, tray' \in TrayRec, Retired(tray),
         tray'.stamps = tray.stamps, tray'.revision = tray.revision, tray'.past = tray.past,
         \A x \in Issue : Kept(tray.issue[x], tray'.issue[x], tray.revision)
  PROVE  Retired(tray')
<1>1. StampsOf(tray') = StampsOf(tray) /\ tray.revision \in Nat
  BY DEF StampsOf, TrayRec
<1>2. \A s \in StampsOf(tray) : s.rev <= tray.revision /\ s.rev \in Nat
  <2>1. tray.stamps \in Seq(Stamp)
    BY DEF TrayRec
  <2>2. StampsOf(tray) \subseteq Stamp
    BY <2>1 DEF StampsOf
  <2> QED BY <2>2 DEF Retired, Stamp
<1>3. ASSUME NEW x \in Issue
      PROVE  /\ Judged(tray'.issue[x], tray'.past[x], StampsOf(tray))
             /\ tray'.issue[x].st = "resolved" => tray'.issue[x].end <= tray.revision
  <2>1. /\ Judged(tray.issue[x], tray.past[x], StampsOf(tray))
        /\ tray.issue[x].st = "resolved" => tray.issue[x].end <= tray.revision
    BY DEF Retired
  <2>2. After(tray.revision, tray.past[x], StampsOf(tray))
    BY <1>1, <1>2 DEF After
  <2>3. CASE tray'.issue[x] = tray.issue[x]
    BY <2>1, <2>3
  <2>4. CASE /\ tray.issue[x].st \in Selectable \cup Outstanding
             /\ tray'.issue[x].st \in Selectable \cup Outstanding
             /\ tray'.issue[x].seen = tray.issue[x].seen
    BY <2>1, <2>4 DEF Judged, Selectable, Outstanding
  <2>5. CASE tray'.issue[x].st = "dismissed" /\ tray'.issue[x].end = tray.revision
    BY <2>2, <2>5 DEF Judged, Selectable, Outstanding
  <2> QED BY <2>3, <2>4, <2>5 DEF Kept
<1> QED BY <1>1, <1>3 DEF Retired

LEMMA AuditJudges ==
  ASSUME TrayTypes, Retired(tray), "late" \notin TrayEvent,
         NEW v \in Version, NEW settled \in BOOLEAN, NEW sameClass \in BOOLEAN,
         Audit(v, settled, sameClass)
  PROVE  Retired(tray')
<1> DEFINE new == [v |-> v, rev |-> RevOf(v)]
           S == StampsOf(tray)
           T == StampsOf(tray')
<1>1. /\ tray \in TrayRec /\ tray.revision \in Nat
      /\ \A x \in Issue : tray.issue[x] \in IssueRec /\ tray.past[x] \in Past
  BY DEF TrayTypes, TrayRec
<1>2. /\ tray' \in TrayRec /\ tray'.stamps = Stamped(v)
      /\ tray'.revision = IF RevOf(v) >= tray.revision THEN RevOf(v) ELSE tray.revision
      /\ \A x \in Issue : Moves(tray.issue[x], tray.past[x], tray'.issue[x], tray'.past[x], new, settled)
  BY AuditEffect
<1>3. RevOf(v) \in Nat /\ InOrder(v) /\ new.rev = RevOf(v) /\ new.v = v
  BY <1>1, StampedTyped DEF Audit
<1>4. T = {Stamped(v)[i] : i \in DOMAIN Stamped(v)}
  BY <1>2 DEF StampsOf
<1> HIDE DEF new, S, T
<1>5. /\ S \subseteq Stamp /\ T \subseteq Stamp /\ new \in T /\ Numbered(T)
      /\ \A s \in T : s.rev <= new.rev \/ s.rev <= tray.revision
      /\ \/ T = S
         \/ /\ T \subseteq S \cup {new} /\ new.rev = tray.revision + 1
            /\ \A s \in S : s.rev < new.rev /\ s.v < new.v
  <2>1. new = [v |-> v, rev |-> RevOf(v)] /\ S = StampsOf(tray)
    BY DEF new, S
  <2>2. tray \in TrayRec /\ Retired(tray) /\ v \in Version /\ InOrder(v) /\ "late" \notin TrayEvent
    BY <1>1, <1>3
  <2> QED BY ONLY <1>4, <2>1, <2>2, NumbersGrow
<1>6. \A s \in T : s.rev <= tray'.revision
  BY <1>1, <1>2, <1>3, <1>5 DEF Stamp
<1>7. ASSUME NEW x \in Issue
      PROVE  /\ Judged(tray'.issue[x], tray'.past[x], T) /\ Reached(tray'.past[x], T)
             /\ tray'.issue[x].st = "resolved" => tray'.issue[x].end <= tray'.revision
  <2>1. /\ tray.issue[x] \in IssueRec /\ tray.past[x] \in Past
        /\ tray'.issue[x] \in IssueRec /\ tray'.past[x] \in Past
    BY <1>1, <1>2 DEF TrayRec
  <2>2. /\ Judged(tray.issue[x], tray.past[x], S) /\ Reached(tray.past[x], S)
        /\ tray.issue[x].st = "resolved" => tray.issue[x].end <= tray.revision
    BY DEF Retired, S
  <2>3. Judged(tray.issue[x], tray.past[x], T) /\ Reached(tray.past[x], T)
    BY <1>1, <1>5, <2>1, <2>2, JudgedGrows
  <2>4. tray.revision <= tray'.revision /\ new.rev <= tray'.revision
    BY <1>1, <1>2, <1>3
  <2>5. CASE tray'.issue[x] = tray.issue[x] /\ tray'.past[x] = tray.past[x]
    BY <1>1, <1>2, <1>3, <2>1, <2>2, <2>3, <2>4, <2>5 DEF IssueRec, TrayRec
  <2>6. CASE /\ tray'.issue[x] = Sight(tray.issue[x], new.rev, settled) /\ tray'.past[x].retired = tray.past[x].retired
             /\ tray'.past[x].proved = IF settled /\ new.v > tray.past[x].proved THEN new.v ELSE tray.past[x].proved
    <3>1. Judged(tray'.issue[x], tray'.past[x], T) /\ Reached(tray'.past[x], T)
      BY <1>5, <2>1, <2>3, <2>6, SightJudged
    <3>2. tray'.issue[x].st = "resolved" => tray'.issue[x] = tray.issue[x]
      BY <1>3, <2>1, <2>6, SightCases DEF IssueRec, IssueStates, Selectable, Outstanding
    <3> QED BY <1>1, <1>2, <1>3, <2>1, <2>2, <2>4, <3>1, <3>2 DEF IssueRec, TrayRec
  <2>7. CASE /\ tray'.issue[x] = Miss(tray.issue[x], new.rev, settled) /\ tray'.past[x].proved = tray.past[x].proved
             /\ tray'.past[x].retired = IF tray'.issue[x].st = "resolved" /\ tray.issue[x].st # "resolved"
                                          THEN new.v ELSE tray.past[x].retired
    <3>1. /\ Judged(tray'.issue[x], tray'.past[x], T) /\ Reached(tray'.past[x], T)
          /\ tray'.issue[x].st = "resolved" /\ tray.issue[x].st # "resolved" => tray'.issue[x].end = new.rev
          /\ tray.issue[x].st = "resolved" => tray'.issue[x] = tray.issue[x]
      BY <1>5, <2>1, <2>3, <2>7, MissJudged
    <3> QED BY <1>1, <1>2, <1>3, <2>1, <2>2, <2>4, <3>1 DEF IssueRec, TrayRec
  <2> QED BY <1>2, <2>5, <2>6, <2>7 DEF Moves
<1> QED BY <1>5, <1>6, <1>7 DEF Retired, T

LEMMA RetireStep ==
  ASSUME RetireIInv, "late" \notin TrayEvent, [TrayNext]_trayVars
  PROVE  RetireIInv'
<1>1. TrayTypes /\ TrayTypes' /\ tray \in TrayRec /\ tray' \in TrayRec /\ Retired(tray) /\ Retired(trayFile)
  BY TrayTyped DEF RetireIInv, TrayTypes
<1>2. Retired(tray')
  <2>1. CASE tray' = tray \/ tray' = trayFile
    BY <1>1, <2>1
  <2>2. ASSUME NEW v \in Version, NEW settled \in BOOLEAN, NEW sameClass \in BOOLEAN, Audit(v, settled, sameClass)
        PROVE  Retired(tray')
    BY <1>1, <2>2, AuditJudges
  <2>3. ASSUME NEW r \in Request, NEW ids \in SUBSET Issue, QueueIssues(r, ids) PROVE Retired(tray')
    <3>1. /\ tray'.stamps = tray.stamps /\ tray'.revision = tray.revision /\ tray'.past = tray.past
          /\ \A x \in Issue : Kept(tray.issue[x], tray'.issue[x], tray.revision)
      BY <1>1, <2>3, QueueEffect
    <3> QED BY <1>1, <3>1, HandledStays
  <2>4. ASSUME NEW x \in Issue, Dismiss(x) PROVE Retired(tray')
    BY <1>1, <2>4, DismissEffect, HandledStays
  <2>5. ASSUME NEW r \in Request, Withdraw(r) PROVE Retired(tray')
    BY <1>1, <2>5, WithdrawEffect, HandledStays
  <2> QED BY <2>1, <2>2, <2>3, <2>4, <2>5
          DEF TrayNext, trayVars, EditPage, SendRequests, AckRequests, ReloadTray
<1>3. Retired(trayFile')
  BY <1>1, <1>2, FileEffect
<1> QED BY <1>1, <1>2, <1>3 DEF RetireIInv

-----------------------------------------------------------------------------
(* The theorems.                                                            *)

LEMMA DeskSteps ==
  ASSUME [DeskNext]_<<part, trayVars, filesVars>>
  PROVE  [TrayNext]_trayVars /\ [FilesNext]_filesVars
  BY DEF DeskNext, InPart

\* While transcript.json can be written, no image that a message on its way or in the
\* transcript names is deleted or given to another message, and no whiteboard on file
\* is older than one that was submitted (attachments.go, whiteboard.go).
THEOREM FilesStay == "unsaved" \notin FilesEvent => (DeskSpec => []FilesKept)
<1> SUFFICES ASSUME "unsaved" \notin FilesEvent PROVE DeskSpec => []FilesKept
  OBVIOUS
<1>1. DeskInit => FilesIInv
  BY FilesStart DEF DeskInit
<1>2. FilesIInv /\ [DeskNext]_<<part, trayVars, filesVars>> => FilesIInv'
  BY DeskSteps, FilesStep
<1>3. FilesIInv => FilesKept
  BY DEF FilesIInv
<1> QED BY <1>1, <1>2, <1>3, PTL DEF DeskSpec

\* Unless a release is lost, no issue waits for a fix that nobody was or will be asked
\* for, however prompts are queued, withdrawn and sent and whatever of the rest of the
\* file is lost (layout.go markQueued, release; hub.go RemoveQueued).
THEOREM RequestsOut == "unreleased" \notin TrayEvent => (DeskSpec => []RequestOut)
<1> SUFFICES ASSUME "unreleased" \notin TrayEvent PROVE DeskSpec => []RequestOut
  OBVIOUS
<1>1. DeskInit => AskIInv
  BY TrayStart DEF DeskInit
<1>2. AskIInv /\ [DeskNext]_<<part, trayVars, filesVars>> => AskIInv'
  BY DeskSteps, AskStep
<1>3. AskIInv => RequestOut
  BY DEF AskIInv, AllCarried, Carried, RequestOut
<1> QED BY <1>1, <1>2, <1>3, PTL DEF DeskSpec

\* Where the first pass of a version comes before those of later ones, what resolved an
\* issue is a pass of a later version than any conclusive one that found it, however
\* late the other passes are and however many versions were forgotten (layout.go
\* revisionFor, record, sight).
THEOREM NewerRetires == "late" \notin TrayEvent => (DeskSpec => []RetiredByNewer)
<1> SUFFICES ASSUME "late" \notin TrayEvent PROVE DeskSpec => []RetiredByNewer
  OBVIOUS
<1>1. DeskInit => RetireIInv
  BY TrayStart DEF DeskInit
<1>2. RetireIInv /\ [DeskNext]_<<part, trayVars, filesVars>> => RetireIInv'
  BY DeskSteps, RetireStep
<1>3. RetireIInv => RetiredByNewer
  BY DEF RetireIInv, Retired, Judged, RetiredByNewer, TrayTypes, TrayRec, Past
<1> QED BY <1>1, <1>2, <1>3, PTL DEF DeskSpec
=============================================================================
