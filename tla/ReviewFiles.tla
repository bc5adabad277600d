---------------------------- MODULE ReviewFiles ----------------------------
(* The files a message of the review carries: images, and the scene of a     *)
(* whiteboard.  The hub keeps an image while a message not yet acknowledged, *)
(* or one in the transcript, has it, deletes it when its prompt is withdrawn *)
(* and sweeps what nobody claims; a whiteboard's feedback is written to one  *)
(* path per diagram.                                                         *)
EXTENDS Naturals, FiniteSets, Sequences, SequencesExt

CONSTANTS Message,        \* prompts with images or a whiteboard
          Image,          \* images the user may attach; an id is never used again
          MaxStaged,      \* maxPendingImages
          MaxTranscript,  \* maxTranscriptItems
          MaxScene,       \* bound: states of the whiteboard's scene
          FilesEvent      \* what may happen in this run

ASSUME FilesAssumption == /\ MaxTranscript \in Nat \ {0} /\ MaxStaged \in Nat
                          /\ IsFiniteSet(Message) /\ "reply" \notin Message

VARIABLES
    msg,         \* each message: where it is, its images, the scene reviewed
    stored,      \* images on disk: "unused", "new", "old" past the grace, "deleted"
    transcript,  \* the transcript in memory, in order, with agent replies
    onDisk,      \* transcript.json
    scene,       \* the scene the user is looking at
    published,   \* the scene in <diagram>.excalidraw, 0 when there is none
    submit       \* a whiteboard request between the file and the queue

filesVars == <<msg, stored, transcript, onDisk, scene, published, submit>>

Reply == "reply"
NoMessage == [at |-> "none", imgs |-> {}, board |-> 0]

FilesInit ==
    /\ msg = [m \in Message |-> NoMessage]
    /\ stored = [i \in Image |-> "unused"]
    /\ transcript = <<>> /\ onDisk = <<>>
    /\ scene = 1 /\ published = 0 /\ submit = {}

Present(i) == stored[i] \in {"new", "old"}
PendingFor == {"queued", "sent"}

\* liveSession.claimedAttachments, with the messages M and the transcript T.
Claims(M, T) == {m \in Message : M[m].at \in PendingFor \/ m \in ToSet(T)}
\* A slip: what was handed out is no longer counted.
ClaimedUnsent(M, T) ==
    UNION {M[m].imgs : m \in {x \in Message : M[x].at = "queued" \/ x \in ToSet(T)}}
ClaimedBy(M, T) == UNION {M[m].imgs : m \in Claims(M, T)}
Claimed == ClaimedBy(msg, transcript)

\* Hub.dropAttachments, Hub.sweepAttachments: the files that are left.
Dropped(S, M, T) == [i \in Image |->
    IF i \in S /\ i \notin ClaimedBy(M, T) /\ Present(i) THEN "deleted" ELSE stored[i]]
Swept(M, T) == [i \in Image |->
    IF stored[i] = "old" /\ i \notin ClaimedBy(M, T) THEN "deleted" ELSE stored[i]]

--------------------------------------------------------------------------
(* Images. *)

\* Hub.AddAttachment: sweep, the limit on what is staged, the file.
Stage(i) ==
    /\ stored[i] = "unused"
    /\ LET swept == Swept(msg, transcript)
           staged == {j \in Image : swept[j] \in {"new", "old"} /\ j \notin Claimed}
       IN stored' = IF Cardinality(staged) < MaxStaged THEN [swept EXCEPT ![i] = "new"] ELSE swept
    /\ UNCHANGED <<msg, transcript, onDisk, scene, published, submit>>

\* Hub.RemoveAttachment: refused once a message has the image.
Discard(i) ==
    /\ Present(i) /\ i \notin Claimed
    /\ stored' = [stored EXCEPT ![i] = "deleted"]
    /\ UNCHANGED <<msg, transcript, onDisk, scene, published, submit>>

\* orphanImageGracePeriod passes.
AgeImage(i) ==
    /\ stored[i] = "new"
    /\ stored' = [stored EXCEPT ![i] = "old"]
    /\ UNCHANGED <<msg, transcript, onDisk, scene, published, submit>>

\* Hub.resolveAttachments: stored images no other message has; a prompt may
\* keep those of the one it replaces.
Resolvable(imgs, replaced) ==
    \A i \in imgs : Present(i) /\ (i \notin Claimed \/ i \in replaced)

\* Hub.QueuePrompt: m takes the place of the unsent prompt with its queue key,
\* if there is one, whose images are dropped.
QueueImages(m, old, imgs) ==
    /\ msg[m].at = "none" /\ \A q \in submit : q.m # m
    /\ old = {} \/ \E o \in Message : old = {o} /\ msg[o].at = "queued" /\ msg[o].board = 0
    /\ LET replaced == UNION {msg[o].imgs : o \in old}
           next == [x \in Message |-> IF x = m THEN [at |-> "queued", imgs |-> imgs, board |-> 0]
                                      ELSE IF x \in old THEN NoMessage ELSE msg[x]]
       IN  /\ Resolvable(imgs, replaced)
           /\ msg' = next
           /\ stored' = Dropped(replaced, next, transcript)
    /\ UNCHANGED <<transcript, onDisk, scene, published, submit>>

\* Hub.RemoveQueued.
RemoveImages(m) ==
    LET next == [msg EXCEPT ![m] = NoMessage]
    IN  /\ msg[m].at = "queued"
        /\ msg' = next
        /\ stored' = Dropped(msg[m].imgs, next, transcript)
        /\ UNCHANGED <<transcript, onDisk, scene, published, submit>>

--------------------------------------------------------------------------
(* The transcript. *)

\* boundTranscript: the newest ones.
Bounded(T) == IF Len(T) > MaxTranscript
                THEN SubSeq(T, Len(T) - MaxTranscript + 1, Len(T)) ELSE T

\* Hub.appendTranscript: images are swept when something was evicted.  A file
\* that cannot be written is only logged ("unsaved"); a server may also stop
\* between the record and the transcript ("die").
AppendTranscript(M, new) ==
    LET all == transcript \o new
    IN  \/ /\ transcript' = Bounded(all)
           /\ onDisk' = transcript' \/ ("unsaved" \in FilesEvent /\ UNCHANGED onDisk)
           /\ stored' = IF Bounded(all) = all THEN stored ELSE Swept(M, Bounded(all))
        \/ /\ "die" \in FilesEvent
           /\ transcript' = onDisk
           /\ UNCHANGED <<onDisk, stored>>

\* Hub.Send: the prompts in the order they were queued, any here.
SendImages ==
    LET out == {m \in Message : msg[m].at = "queued"}
        next == [m \in Message |-> IF m \in out THEN [msg[m] EXCEPT !.at = "sent"] ELSE msg[m]]
    IN  /\ out # {}
        /\ msg' = next
        /\ \E order \in [1..Cardinality(out) -> out] :
              IsInjective(order) /\ AppendTranscript(next, order)
        /\ UNCHANGED <<scene, published, submit>>

\* Hub.ReplyChecked.
ReplyText ==
    /\ transcript # <<>>
    /\ AppendTranscript(msg, <<Reply>>)
    /\ UNCHANGED <<msg, scene, published, submit>>

\* Hub.Ack.
AckImages ==
    /\ \E m \in Message : msg[m].at = "sent"
    /\ msg' = [m \in Message |-> IF msg[m].at = "sent" THEN [msg[m] EXCEPT !.at = "acked"]
                                 ELSE msg[m]]
    /\ UNCHANGED <<stored, transcript, onDisk, scene, published, submit>>

\* The server stops, and another one loads the session.
ReloadFiles ==
    /\ "die" \in FilesEvent
    /\ transcript' = onDisk /\ submit' = {}
    /\ UNCHANGED <<msg, stored, onDisk, scene, published>>

--------------------------------------------------------------------------
(* Whiteboards: one diagram. *)

Draw == /\ scene < MaxScene
        /\ scene' = scene + 1
        /\ UNCHANGED <<msg, stored, transcript, onDisk, published, submit>>

\* handleSubmitBoard: the files first (Store.WriteFeedbackFiles), ...
Publish(m) ==
    /\ msg[m].at = "none" /\ submit = {}
    /\ published' = scene
    /\ submit' = {[m |-> m, board |-> scene]}
    /\ UNCHANGED <<msg, stored, transcript, onDisk, scene>>

\* ... then the prompt, which replaces the unsent one of the same diagram.
QueueBoard ==
    /\ \E q \in submit :
         msg' = [x \in Message |->
                   IF x = q.m THEN [at |-> "queued", imgs |-> {}, board |-> q.board]
                   ELSE IF msg[x].at = "queued" /\ msg[x].board > 0 THEN NoMessage ELSE msg[x]]
    /\ submit' = {}
    /\ UNCHANGED <<stored, transcript, onDisk, scene, published>>

FilesNext ==
    \/ SendImages \/ ReplyText \/ AckImages \/ ReloadFiles \/ Draw \/ QueueBoard
    \/ \E i \in Image : Stage(i) \/ Discard(i) \/ AgeImage(i)
    \/ \E m \in Message :
         \/ RemoveImages(m) \/ Publish(m)
         \/ \E old \in {{}} \cup {{o} : o \in Message}, imgs \in SUBSET Image :
              QueueImages(m, old, imgs)

--------------------------------------------------------------------------
(* Properties. *)

\* The files a message names are there while it is not acknowledged, the images
\* also while the transcript has it, whatever is replaced, withdrawn, evicted or
\* swept (SKILL.md:377, attachments.go sweepAttachments, dropAttachments); the
\* whiteboard on file is never older than the one a prompt was sent for; and no
\* two such messages have one image (attachments.go resolveAttachments).
FilesKept ==
    \A m \in Claims(msg, transcript) :
        /\ \A i \in msg[m].imgs : Present(i)
        /\ msg[m].at \in PendingFor => published >= msg[m].board
        /\ \A n \in Claims(msg, transcript) \ {m} : msg[m].imgs \cap msg[n].imgs = {}
=============================================================================
