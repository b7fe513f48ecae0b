-------------------------- MODULE CarouselListener --------------------------
(***************************************************************************)
(* The listener of one filling carousel.  Balloons pass the RFID reader,    *)
(* which queues their passports, and then reach a filling post each.  A    *)
(* post asks for the target weight (0x7A) and later reports the full       *)
(* weight (0x70), and may repeat each frame within two seconds.  Nothing in*)
(* a frame names the balloon: the listener takes passports by order.       *)
(*                                                                         *)
(* Balloons are numbered in the order in which they pass; the passport of   *)
(* balloon b is b, and so is the target weight made from it.  0 is none.   *)
(***************************************************************************)
EXTENDS Integers, Sequences, FiniteSets, SequencesExt

CONSTANTS
    Posts,          \* filling posts
    MaxBalloons,    \* bound: balloons
    MaxSends,       \* bound: how often a post sends one frame
    Prompt          \* frames are handled before the cached result expires

ASSUME ListenerAssumption ==
    /\ MaxBalloons \in Nat /\ MaxSends \in Nat \ {0}
    /\ Prompt \in BOOLEAN

VARIABLES
    pushed,     \* balloons the RFID process is through with
    queue,      \* the passport queue in Redis, oldest first
    arrived,    \* balloons that have reached a post
    balloon,    \* the balloon on a post
    phase,      \* what a post does
    sends,      \* how often it has sent its frame
    wire,       \* frames on their way to the listener
    pc,         \* the step of serial_exchange; "down" between connections
    frame,      \* the frame it handles
    passport,   \* the passport taken for it
    reply,      \* the target weight to answer, 0 if no answer is required
    cache,      \* recent_requests
    records,    \* Carousel rows in the order of creation
    told,       \* history: the target weights a balloon's post was told
    taken,      \* history: how many passports were taken for a balloon
    mishap      \* history: something on the way from the reader to a record failed

postVars == <<arrived, balloon, phase, sends>>
listenerVars == <<pc, frame, passport, reply>>
vars == <<pushed, queue, postVars, wire, listenerVars, cache, records, told, taken, mishap>>

Balloons == 1..MaxBalloons
Types == {"fill", "full"}       \* 0x7A, 0x70
Frames == [type : Types, post : Posts, balloon : Balloons]
NoFrame == [type |-> "none", post |-> "none", balloon |-> 0]

Init ==
    /\ pushed = 0 /\ queue = <<>>
    /\ arrived = 0
    /\ balloon = [p \in Posts |-> 0]
    /\ phase = [p \in Posts |-> "free"]
    /\ sends = [p \in Posts |-> 0]
    /\ wire = <<>>
    /\ pc = "down" /\ frame = NoFrame /\ passport = 0 /\ reply = 0
    /\ cache = {}
    /\ records = <<>>
    /\ told = [b \in Balloons |-> {}]
    /\ taken = [b \in Balloons |-> 0]
    /\ mishap = FALSE

----------------------------------------------------------------------------
(* The passport queue.                                                     *)

\* add_balloon_to_cache, for a balloon whose tag was read and processed.
Push ==
    /\ pushed < MaxBalloons
    /\ pushed' = pushed + 1
    /\ queue' = Append(queue, pushed + 1)
    /\ UNCHANGED <<postVars, wire, listenerVars, cache, records, told, taken, mishap>>

\* A tag that was not read, or whose processing failed.
Miss ==
    /\ pushed < MaxBalloons
    /\ pushed' = pushed + 1
    /\ mishap' = TRUE
    /\ UNCHANGED <<queue, postVars, wire, listenerVars, cache, records, told, taken>>

\* The time to live is that of the whole list; only a push prolongs it.
QueueExpires ==
    /\ queue # <<>>
    /\ queue' = <<>>
    /\ mishap' = TRUE
    /\ UNCHANGED <<pushed, postVars, wire, listenerVars, cache, records, told, taken>>

----------------------------------------------------------------------------
(* The posts.                                                              *)

TypeOf(ph) == IF ph = "asking" THEN "fill" ELSE "full"

\* A post sends a frame; between connections it is lost.
Transmit(p, type, b) ==
    IF pc = "down" THEN mishap' = TRUE /\ UNCHANGED wire
    ELSE /\ wire' = Append(wire, [type |-> type, post |-> p, balloon |-> b])
         /\ UNCHANGED mishap

OnWire(p, type) == \E i \in DOMAIN wire : wire[i].type = type /\ wire[i].post = p

\* Filling, and a turn of the carousel, take minutes: by then the frames of the post
\* have been handled and what was cached has expired.
Settled(p) ==
    /\ \A e \in cache : e.post # p
    /\ \A type \in Types : ~OnWire(p, type)
    /\ frame.post # p

Arrive(p) ==
    /\ phase[p] = "free" /\ Settled(p)
    /\ arrived < MaxBalloons
    /\ arrived' = arrived + 1
    /\ balloon' = [balloon EXCEPT ![p] = arrived + 1]
    /\ phase' = [phase EXCEPT ![p] = "asking"]
    /\ sends' = [sends EXCEPT ![p] = 1]
    /\ Transmit(p, "fill", arrived + 1)
    /\ UNCHANGED <<pushed, queue, listenerVars, cache, records, told, taken>>

Weigh(p) ==
    /\ phase[p] = "filling" /\ Settled(p)
    /\ phase' = [phase EXCEPT ![p] = "weighing"]
    /\ sends' = [sends EXCEPT ![p] = 1]
    /\ Transmit(p, "full", balloon[p])
    /\ UNCHANGED <<pushed, queue, arrived, balloon, listenerVars, cache, records, told, taken>>

Repeat(p) ==
    /\ phase[p] \in {"asking", "weighing"}
    /\ sends[p] < MaxSends
    /\ sends' = [sends EXCEPT ![p] = @ + 1]
    /\ Transmit(p, TypeOf(phase[p]), balloon[p])
    /\ UNCHANGED <<pushed, queue, arrived, balloon, phase, listenerVars, cache, records,
                   told, taken>>

\* The two seconds in which the frame may be repeated are over.
Quiet(p) ==
    /\ \/ phase[p] = "asking" /\ phase' = [phase EXCEPT ![p] = "filling"]
       \/ phase[p] = "weighing" /\ phase' = [phase EXCEPT ![p] = "done"]
    /\ UNCHANGED <<pushed, queue, arrived, balloon, sends, wire, listenerVars, cache, records,
                   told, taken, mishap>>

\* The balloon goes, perhaps without having been filled.
Leave(p) ==
    /\ phase[p] \in {"filling", "done"}
    /\ phase' = [phase EXCEPT ![p] = "free"]
    /\ balloon' = [balloon EXCEPT ![p] = 0]
    /\ sends' = [sends EXCEPT ![p] = 0]
    /\ UNCHANGED <<pushed, queue, arrived, wire, listenerVars, cache, records, told, taken, mishap>>

----------------------------------------------------------------------------
(* The connection.                                                         *)

\* run_carousel waits a minute or more: what was cached has expired.
Connect ==
    /\ pc = "down"
    /\ pc' = "read"
    /\ cache' = {}
    /\ UNCHANGED <<pushed, queue, postVars, wire, frame, passport, reply, records, told, taken, mishap>>

\* An exception leaves serial_exchange: the frame at hand and those on the way are
\* lost, and so are all repetitions of the next two seconds.
GoDown ==
    /\ pc' = "down"
    /\ frame' = NoFrame /\ passport' = 0 /\ reply' = 0
    /\ wire' = <<>>
    /\ sends' = [p \in Posts |-> IF phase[p] \in {"asking", "weighing"} THEN MaxSends ELSE sends[p]]
    /\ mishap' = TRUE

Drop ==
    /\ pc = "read"
    /\ GoDown
    /\ UNCHANGED <<pushed, queue, arrived, balloon, phase, cache, records, told, taken>>

----------------------------------------------------------------------------
(* A frame.                                                                *)

\* Seeded fault: the post is missing from the key.
IsEntryOf_AnyPost(e, f) == e.type = f.type

\* The key of recent_requests; a repeated frame has the same weight.
IsEntryOf(e, f) == e.type = f.type /\ e.post = f.post

\* Seeded fault: an entry without an answer is taken for no entry.
Known_AnsweredOnly(f) == \E e \in cache : IsEntryOf(e, f) /\ e.reply # 0

\* get_cached_request finds an entry, with or without an answer in it.
Known(f) == \E e \in cache : IsEntryOf(e, f)

\* cache_request_result.
Remember(f, r) ==
    cache' = {e \in cache : ~IsEntryOf(e, f)} \cup {[type |-> f.type, post |-> f.post, reply |-> r]}

\* The frame fails its CRC.
BadCrc ==
    /\ pc = "read" /\ wire # <<>>
    /\ wire' = Tail(wire)
    /\ mishap' = TRUE
    /\ UNCHANGED <<pushed, queue, postVars, listenerVars, cache, records, told, taken>>

Tell(b, r) == told' = [told EXCEPT ![b] = @ \cup {r}]

\* A repeated request gets the cached answer, if it has one.
Duplicate ==
    /\ pc = "read" /\ wire # <<>> /\ Known(Head(wire))
    /\ \E e \in cache :
         /\ IsEntryOf(e, Head(wire))
         /\ \/ /\ e.reply = 0
               /\ wire' = Tail(wire)
               /\ UNCHANGED <<told, sends, mishap, listenerVars>>
            \/ /\ e.reply # 0
               /\ wire' = Tail(wire)
               /\ Tell(Head(wire).balloon, e.reply)
               /\ UNCHANGED <<sends, mishap, listenerVars>>
            \/ /\ e.reply # 0       \* drain raises
               /\ GoDown
               /\ UNCHANGED told
    /\ UNCHANGED <<pushed, queue, arrived, balloon, phase, cache, records, taken>>

Read ==
    /\ pc = "read" /\ wire # <<>> /\ ~Known(Head(wire))
    /\ frame' = Head(wire)
    /\ wire' = Tail(wire)
    /\ pc' = "process"
    /\ UNCHANGED <<pushed, queue, postVars, passport, reply, cache, records, told, taken, mishap>>

\* Seeded fault: lpop, the newest passport.
Pop_Newest ==
    /\ queue # <<>>
    /\ passport' = Last(queue)
    /\ queue' = Front(queue)
    /\ taken' = [taken EXCEPT ![frame.balloon] = @ + 1]

\* The oldest passport leaves the queue.
Taken ==
    /\ queue' = Tail(queue)
    /\ taken' = [taken EXCEPT ![frame.balloon] = @ + 1]

\* rpop and llen in one transaction.
Pop ==
    /\ queue # <<>>
    /\ passport' = Head(queue)
    /\ Taken

\* get_and_remove_last_balloon: an error of Redis, before the pop or after it, is
\* recorded, and gives no passport.
PopFails ==
    /\ queue # <<>>
    /\ Taken \/ UNCHANGED <<queue, taken>>
    /\ UNCHANGED passport

\* request_processing and cache_request_result for 0x7A.  An answer requires a
\* passport and settings that allow it.
ProcessFill ==
    /\ pc = "process" /\ frame.type = "fill"
    /\ \/ /\ Pop /\ reply' \in {0, passport'}
          /\ UNCHANGED mishap
       \/ /\ queue = <<>>
          /\ reply' = 0 /\ mishap' = TRUE
          /\ UNCHANGED <<queue, passport, taken>>
       \/ PopFails /\ reply' = 0 /\ mishap' = TRUE
    /\ Remember(frame, reply')
    /\ pc' = IF reply' # 0 THEN "answer" ELSE "persist"
    /\ UNCHANGED <<pushed, postVars, wire, frame, records, told>>

\* The same for 0x70, which never requires an answer.
ProcessFull ==
    /\ pc = "process" /\ frame.type = "full"
    /\ Remember(frame, 0)
    /\ pc' = "persist"
    /\ UNCHANGED <<pushed, queue, postVars, wire, frame, passport, reply, records, told, taken, mishap>>

\* Seeded fault: the passport of a failed request is queued again.
ProcessFails_Requeues ==
    /\ pc = "process"
    /\ IF frame.type = "fill" /\ queue # <<>> THEN queue' = Append(Tail(queue), Head(queue))
       ELSE UNCHANGED queue
    /\ GoDown
    /\ UNCHANGED <<pushed, arrived, balloon, phase, cache, records, told, taken>>

\* The settings cannot be read, or the weight does not fit the answer: nothing is
\* cached, and a passport that was taken is gone.
ProcessFails ==
    /\ pc = "process"
    /\ \/ frame.type = "fill" /\ queue # <<>> /\ Taken
       \/ UNCHANGED <<queue, taken>>
    /\ GoDown
    /\ UNCHANGED <<pushed, arrived, balloon, phase, cache, records, told>>

Answer ==
    /\ pc = "answer"
    /\ pc' = "persist"
    /\ Tell(frame.balloon, reply)
    /\ UNCHANGED <<pushed, queue, postVars, wire, frame, passport, reply, cache, records, taken, mishap>>

\* drain raises: the record is not saved.
AnswerFails ==
    /\ pc = "answer"
    /\ GoDown
    /\ UNCHANGED <<pushed, queue, arrived, balloon, phase, cache, records, told, taken>>

----------------------------------------------------------------------------
(* The record.                                                             *)

\* put_carousel_data swallows every error.
BackToRead == pc' = "read" /\ frame' = NoFrame /\ passport' = 0 /\ reply' = 0

PersistFill ==
    /\ pc = "persist" /\ frame.type = "fill"
    /\ \/ records' = Append(records, [post |-> frame.post, balloon |-> frame.balloon,
                                      passport |-> passport, full |-> 0])
       \/ UNCHANGED records
    /\ BackToRead
    /\ UNCHANGED <<pushed, queue, postVars, wire, cache, told, taken, mishap>>

\* Seeded fault: the newest row of the carousel, whatever its post.
LastOf_AnyPost(p) == Len(records)

\* The post's row changed last; rows of a post change in the order of creation.
LastOf(p) == SelectLastInSeq(records, LAMBDA r : r.post = p)

PersistFull ==
    /\ pc = "persist" /\ frame.type = "full"
    /\ \/ /\ LastOf(frame.post) # 0
          /\ records' = [records EXCEPT ![LastOf(frame.post)].full = frame.balloon]
       \/ UNCHANGED records
    /\ BackToRead
    /\ UNCHANGED <<pushed, queue, postVars, wire, cache, told, taken, mishap>>

\* Two seconds after it was cached a result is forgotten; by then the post repeats the
\* frame no more.
Expire(e) ==
    /\ ~(phase[e.post] \in {"asking", "weighing"} /\ TypeOf(phase[e.post]) = e.type)
    /\ Prompt => ~OnWire(e.post, e.type)
    /\ cache' = cache \ {e}
    /\ UNCHANGED <<pushed, queue, postVars, wire, listenerVars, records, told, taken, mishap>>

----------------------------------------------------------------------------

Listener ==
    \/ Connect \/ Drop \/ BadCrc \/ Duplicate \/ Read
    \/ ProcessFill \/ ProcessFull \/ ProcessFails
    \/ Answer \/ AnswerFails \/ PersistFill \/ PersistFull
    \/ \E e \in cache : Expire(e)

Post(p) == Arrive(p) \/ Weigh(p) \/ Repeat(p) \/ Quiet(p) \/ Leave(p)

Next ==
    \/ Push \/ Miss \/ QueueExpires
    \/ Listener
    \/ \E p \in Posts : Post(p)

Spec == Init /\ [][Next]_vars

----------------------------------------------------------------------------
(* Properties.                                                             *)

\* Types; passports stay in the order in which the balloons passed.
TypeOK ==
    /\ pushed \in 0..MaxBalloons /\ arrived \in 0..MaxBalloons
    /\ queue \in Seq(1..pushed)
    /\ \A i, j \in DOMAIN queue : i < j => queue[i] < queue[j]
    /\ balloon \in [Posts -> 0..arrived]
    /\ phase \in [Posts -> {"free", "asking", "filling", "weighing", "done"}]
    /\ sends \in [Posts -> 0..MaxSends]
    /\ wire \in Seq(Frames)
    /\ pc \in {"down", "read", "process", "answer", "persist"}
    /\ frame \in Frames \cup {NoFrame}
    /\ passport \in 0..pushed /\ reply \in {0, passport}
    /\ cache \subseteq [type : Types, post : Posts, reply : 0..pushed]
    /\ records \in Seq([post : Posts, balloon : Balloons, passport : 0..pushed, full : 0..arrived])
    /\ told \in [Balloons -> SUBSET (1..pushed)]
    /\ taken \in [Balloons -> Nat]
    /\ mishap \in BOOLEAN

\* However often a post repeats its request, one passport at most is taken for the
\* balloon on it.
OneTakePerRequest == \A b \in Balloons : taken[b] <= 1

\* While every tag was read, every frame arrived and every call succeeded, each record
\* carries the passport of its own balloon, whatever the posts repeat.
OwnPassport == mishap \/ \A i \in DOMAIN records : records[i].passport = records[i].balloon

\* A post is told the weight from one passport only, the one its record gets, and no
\* other post is told the same; whatever is lost, repeated or cached.
AnswerMatchesRecord ==
    /\ \A b, c \in Balloons : \A r \in told[b], s \in told[c] : (b = c) <=> (r = s)
    /\ \A i \in DOMAIN records : told[records[i].balloon] \subseteq {records[i].passport}

\* A full weight is stored with its own balloon whenever that balloon has a record.
FullWeightOwn ==
    \A i \in DOMAIN records :
        \/ records[i].full \in {0, records[i].balloon}
        \/ \A j \in DOMAIN records : records[j].balloon # records[i].full
=============================================================================
